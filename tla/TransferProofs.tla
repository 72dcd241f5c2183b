---------------------------- MODULE TransferProofs ----------------------------
(***************************************************************************)
(* Proofs of the safety properties of Transfer, for all servers, requests, *)
(* sizes of files and numbers of replacements; of StreamTransfer, and of   *)
(* what the two promise together; and, for every text, every size of a     *)
(* buffer and every place a read() may end at, of the translations of      *)
(* TextTransfer and of SReadline as LineReader has it.                     *)
(***************************************************************************)
EXTENDS Copies, FiniteSetTheorems, SequenceTheorems, WellFoundedInduction, TLAPS

(* A block is a pair; the proofs only need to know that contents are       *)
(* sequences of them.                                                      *)
Block == Int \X Int
File  == [data : Seq(Block), mtime : Int]
Acts  == Answers \cup {"same", "localNewer"}
Calls == [op : RequestKinds, size : Int, mdtm : Int, act : Acts, start : Nat, src : Seq(Block)]

LEMMA ContentType ==
  ASSUME NEW t \in Int, NEW n \in Nat
  PROVE  Content(t, n) \in File
<1>1. [i \in 1..n |-> <<t, i>>] \in Seq(Block)
  BY SMT DEF Block
<1> QED
  BY <1>1 DEF Content, File

LEMMA GoneType == Gone \in File
BY DEF Gone, File, Unknown

LEMMA GrownType ==
  ASSUME NEW f \in File, NEW b \in Block, clock \in Nat
  PROVE  Grown(f, b) \in File
BY DEF Grown, File, Now

LEMMA StampedType ==
  ASSUME NEW f \in File, call.mdtm \in Int
  PROVE  Stamped(f) \in File /\ Stamped(f).data = f.data
BY DEF Stamped, File

LEMMA AfterType ==
  ASSUME NEW d \in Seq(Block), NEW n \in Nat
  PROVE  After(d, n) \in Seq(Block)
BY DEF After

LEMMA AfterNone ==
  ASSUME NEW d \in Seq(Block)
  PROVE  After(d, 0) = d
BY DEF After

LEMMA KeptType ==
  ASSUME NEW old \in Seq(Block), call.start \in Nat
  PROVE  Kept(old) \in Seq(Block)
BY DEF Kept

LEMMA KeptNone ==
  ASSUME NEW old \in Seq(Block), call.start = 0, call.act # "append"
  PROVE  Kept(old) = <<>>
BY DEF Kept

(* Moving a block from the front of what is to come to the end of what has *)
(* arrived changes nothing in the two together.                            *)
LEMMA Moved ==
  ASSUME NEW s \in Seq(Block), NEW t \in Seq(Block), t # <<>>
  PROVE  /\ Head(t) \in Block /\ Tail(t) \in Seq(Block)
         /\ Append(s, Head(t)) \o Tail(t) = s \o t
<1>1. Head(t) \in Block /\ Tail(t) \in Seq(Block)
  OBVIOUS
<1>2. Len(Append(s, Head(t)) \o Tail(t)) = Len(s \o t)
  OBVIOUS
<1>3. ASSUME NEW i \in 1 .. Len(s \o t)
      PROVE  (Append(s, Head(t)) \o Tail(t))[i] = (s \o t)[i]
  OBVIOUS
<1> QED
  BY <1>1, <1>2, <1>3
-----------------------------------------------------------------------------
(* The types of the variables TypeOK says nothing of.                      *)
Typed ==
  /\ TypeOK
  /\ local \in File /\ remote \in [Names -> File]
  /\ call \in Calls /\ (call.size # Unknown => call.size \in Nat)

LEMMA NoCallType == NoCall \in Calls /\ NoCall.size = Unknown
BY DEF NoCall, Calls, Call, NoOp, RequestKinds, Acts, Answers, Unknown

LEMMA CallType ==
  ASSUME NEW op \in RequestKinds, NEW n \in Int
  PROVE  Call(op, n) \in Calls
BY DEF Calls, Call, Acts, Answers, Unknown

LEMMA DstName == Dst \in Names
BY DEF Dst, Names

LEMMA TypedInit == Init => Typed
<1> SUFFICES ASSUME Init PROVE Typed
  OBVIOUS
<1>1. PICK n \in 0..MaxSize :
        /\ local  = IF dir = "put" THEN Content(2, n) ELSE Gone
        /\ remote = [f \in Names |-> IF dir = "get" /\ f = "file" THEN Content(2, n) ELSE Gone]
  BY DEF Init
<1>2. Content(2, n) \in File /\ Gone \in File
  BY ContentType, GoneType, BoundsAssumption
<1>3. local \in File /\ remote \in [Names -> File]
  BY <1>1, <1>2
<1>4. call \in Calls /\ call.size = Unknown
  BY NoCallType DEF Init
<1>5. TypeOK
  BY <1>4, ServersAssumption DEF Init, TypeOK, Availability, Calls
<1> QED
  BY <1>3, <1>4, <1>5 DEF Typed

(* What is learnt of the server is one of three things.                    *)
LEMMA HasType ==
  ASSUME Typed
  PROVE  /\ FTPCheckForRestartModeAvailability \in [{"SIZE", "MDTM", "REST"} -> Availability]
         /\ RestTried \in [{"SIZE", "MDTM", "REST"} -> Availability]
BY DEF Typed, TypeOK, FTPCheckForRestartModeAvailability, RestTried, Availability

LEMMA QueryType ==
  ASSUME Typed, NEW cmd \in {"SIZE", "MDTM", "REST"}, NEW can \in BOOLEAN, Query(cmd, can)
  PROVE  has' \in [{"SIZE", "MDTM", "REST"} -> Availability]
BY DEF Typed, TypeOK, Query, Availability
LEMMA GetGuessType ==
  ASSUME Typed, NEW h, NEW n \in Int, n \in Nat \/ n = Unknown
  PROVE  /\ GetGuess(h, n) \in Acts
         /\ GetGuess(h, n) = "resume" => n \in Nat
BY DEF Typed, TypeOK, Calls, GetGuess, Acts, Answers, Unknown

LEMMA GetChoiceType ==
  ASSUME Typed, NEW h, NEW c \in GetChoices(h)
  PROVE  /\ c[1] \in Acts /\ c[2] \in Int
         /\ c[1] = "resume" => c[2] \in Nat
<1> DEFINE counted == {Len(local.data)} \cup (IF call.op.ascii THEN {Unknown} ELSE {})
           answers == IF call.op.ask THEN Answers ELSE {Wanted(h)}
<1>1. Len(local.data) \in Nat
  BY DEF Typed, File
<1>2. answers \subseteq Acts
  BY DEF Wanted, Acts, Answers
<1>3. \/ \E a \in answers \ {"bestGuess"} : c = <<a, Len(local.data)>>
      \/ \E n \in counted : c = <<GetGuess(h, n), n>>
  BY DEF GetChoices
<1>4. CASE \E a \in answers \ {"bestGuess"} : c = <<a, Len(local.data)>>
  BY <1>1, <1>2, <1>4
<1>5. CASE \E n \in counted : c = <<GetGuess(h, n), n>>
  <2>1. PICK n \in counted : c = <<GetGuess(h, n), n>>
    BY <1>5
  <2>2. n \in Int /\ (n \in Nat \/ n = Unknown)
    BY <1>1 DEF Unknown
  <2> QED
    BY <2>1, <2>2, GetGuessType
<1> QED
  BY <1>3, <1>4, <1>5

LEMMA PutChoiceType == PutChoices \subseteq Answers \cup {"same"}
BY DEF PutChoices, PutGuess, Wanted, Answers

(* The steps of a get.                                                     *)
LEMMA GetActType ==
  ASSUME Typed, NEW a \in Acts, NEW s \in Int, a = "resume" => s \in Nat, GetAct(a, s)
  PROVE  /\ pc' \in {"idle", "delete", "start"} /\ held' \subseteq {"fd", "data"}
         /\ call' \in Calls /\ (call'.size # Unknown => call'.size \in Nat)
         /\ local' \in File
<1> DEFINE c == [call EXCEPT !.act = a, !.start = IF a = "resume" THEN s ELSE 0]
<1>1. c \in Calls /\ c.size = call.size
  BY DEF Typed, Calls
<1>2. Stamped(local) \in File
  BY StampedType DEF Typed, TypeOK
<1>3. [data |-> <<>>, mtime |-> Now] \in File
  BY DEF File, Now, Typed, TypeOK
<1>4. local \in File /\ (call.size # Unknown => call.size \in Nat)
  BY DEF Typed
<1>5. \A r, h : Return(r, h) => pc' = "idle" /\ call' = NoCall /\ held' = h
  BY DEF Return
<1>6. \A r : Finish(r, c) => pc' \in {"idle", "delete"} /\ call' \in {c, NoCall} /\ held' = {}
  BY DEF Finish, Return
<1>7. Open("start", c, {"fd"}) => pc' = "start" /\ call' = c /\ held' = {"fd"}
  BY DEF Open
<1> HIDE DEF c
<1>8. local' \in {local, Stamped(local), [data |-> <<>>, mtime |-> Now]}
  BY DEF GetAct
<1>9. \/ \E r : Return(r, {})
      \/ \E r : Finish(r, c)
      \/ Open("start", c, {"fd"})
  BY DEF GetAct, c
<1> QED
  BY <1>1, <1>2, <1>3, <1>4, <1>5, <1>6, <1>7, <1>8, <1>9, NoCallType
(* The steps that only ask: of files, nothing changes.                     *)
LEMMA TypedBegin == Typed /\ Begin => Typed'
<1> SUFFICES ASSUME Typed, Begin PROVE Typed'
  OBVIOUS
<1>1. \A n \in Names : Len(remote[n].data) \in Nat
  BY DEF Typed, File
<1>2. PICK op \in Requests :
        \/ Return("openFailed", {})
        \/ /\ held' \in {{"fd"}, {}} /\ pc' \in {"size", "mdtm", "decide"}
           /\ \E n \in {Unknown, 0, Len(remote["file"].data)} : call' = Call(op, n)
  BY DEF Begin
<1>3. \A n \in Nat \cup {Unknown} : Call(op, n) \in Calls /\ Call(op, n).size = n
  <2>1. op \in RequestKinds
    BY RequestsAssumption
  <2>2. \A n : Call(op, n).size = n
    BY DEF Call
  <2> QED
    BY <2>1, <2>2, CallType DEF Unknown
<1>4. /\ call' \in Calls /\ (call'.size # Unknown => call'.size \in Nat)
      /\ pc' \in {"idle", "size", "mdtm", "decide"} /\ held' \subseteq {"fd", "data"}
  <2>1. CASE Return("openFailed", {})
    BY <2>1, NoCallType DEF Return
  <2>2. CASE /\ held' \in {{"fd"}, {}} /\ pc' \in {"size", "mdtm", "decide"}
             /\ \E n \in {Unknown, 0, Len(remote["file"].data)} : call' = Call(op, n)
    <3>1. PICK n \in {Unknown, 0, Len(remote["file"].data)} : call' = Call(op, n)
      BY <2>2
    <3>2. n \in Nat \cup {Unknown}
      BY <1>1 DEF Names
    <3>3. call' \in Calls /\ call'.size = n
      BY <1>3, <3>1, <3>2
    <3> QED
      BY <2>2, <3>2, <3>3
  <2> QED
    BY <1>2, <2>1, <2>2
<1> QED
  BY <1>4 DEF Begin, Typed, TypeOK, Calls

LEMMA TypedAsk ==
  Typed /\ (FTPMListOneFile \/ FTPFileSize \/ FTPFileModificationTime) => Typed'
<1> SUFFICES ASSUME Typed, FTPMListOneFile \/ FTPFileSize \/ FTPFileModificationTime
             PROVE  Typed'
  OBVIOUS
<1>1. Len(remote[Dst].data) \in Nat /\ remote[Dst].mtime \in Int
  BY DstName DEF Typed, File
<1>2. server \in ServerKinds
  BY ServersAssumption DEF Typed, TypeOK
<1>3. has' \in [{"SIZE", "MDTM", "REST"} -> Availability]
  <2>1. CASE FTPMListOneFile
    BY <2>1 DEF FTPMListOneFile, Typed, TypeOK
  <2>2. CASE FTPFileSize
    BY <2>2, <1>2, QueryType DEF FTPFileSize, ServerKinds
  <2>3. CASE FTPFileModificationTime
    BY <2>3, <1>2, QueryType DEF FTPFileModificationTime, ServerKinds
  <2> QED
    BY <2>1, <2>2, <2>3
<1>4. /\ call' \in Calls /\ (call'.size # Unknown => call'.size \in Nat)
      /\ pc' \in {"mdtm", "decide"} /\ held' = held
  <2>1. CASE FTPMListOneFile
    <3>1. ASSUME NEW n \in Nat, NEW m \in Int
          PROVE  [call EXCEPT !.size = n, !.mdtm = m] \in Calls
      <4>1. [call EXCEPT !.size = n, !.mdtm = m] = [[call EXCEPT !.size = n] EXCEPT !.mdtm = m]
        OBVIOUS
      <4>2. [call EXCEPT !.size = n] \in Calls
        BY DEF Typed, Calls
      <4>3. \A c \in Calls : [c EXCEPT !.mdtm = m] \in Calls
        BY DEF Calls
      <4> QED
        BY <4>1, <4>2, <4>3
    <3>2. [call EXCEPT !.size = Len(remote[Dst].data), !.mdtm = remote[Dst].mtime] \in Calls
      BY <1>1, <3>1
    <3>3. /\ call' = [call EXCEPT !.size = Len(remote[Dst].data), !.mdtm = remote[Dst].mtime]
          /\ pc' = "decide" /\ held' = held
      BY <2>1 DEF FTPMListOneFile, Goto
    <3>4. call'.size = Len(remote[Dst].data)
      <4> DEFINE n == Len(remote[Dst].data)
                 m == remote[Dst].mtime
      <4>1. call' = [call EXCEPT !.size = n, !.mdtm = m]
        BY <3>3
      <4>2. call \in Calls
        BY DEF Typed
      <4> HIDE DEF n, m
      <4>3. call'.size = n
        BY <4>1, <4>2 DEF Calls
      <4> QED
        BY <4>3 DEF n
    <3> QED
      BY <1>1, <3>2, <3>3, <3>4
  <2>2. CASE FTPFileSize
    BY <2>2, <1>1 DEF FTPFileSize, Goto, Typed, Calls
  <2>3. CASE FTPFileModificationTime
    BY <2>3, <1>1 DEF FTPFileModificationTime, Goto, Typed, Calls
  <2> QED
    BY <2>1, <2>2, <2>3
<1>5. UNCHANGED <<dir, server, local, remote, clock>>
  BY DEF FTPMListOneFile, FTPFileSize, FTPFileModificationTime
<1> QED
  BY <1>3, <1>4, <1>5 DEF Typed, TypeOK, Calls

LEMMA TypedGetDecide == Typed /\ GetDecide => Typed'
<1> SUFFICES ASSUME Typed, GetDecide PROVE Typed'
  OBVIOUS
<1> DEFINE h == FTPCheckForRestartModeAvailability
<1>1. has' = h /\ h \in [{"SIZE", "MDTM", "REST"} -> Availability]
  BY HasType DEF GetDecide
<1>2. PICK c \in (IF There(local) THEN GetChoices(h) ELSE {<<"overwrite", 0>>}) : GetAct(c[1], c[2])
  BY DEF GetDecide
<1>3. c[1] \in Acts /\ c[2] \in Int /\ (c[1] = "resume" => c[2] \in Nat)
  <2>1. CASE There(local)
    BY <2>1, <1>2, GetChoiceType
  <2>2. CASE ~There(local)
    <3>1. c = <<"overwrite", 0>>
      BY <2>2, <1>2
    <3> QED
      BY <3>1 DEF Acts, Answers
  <2> QED
    BY <2>1, <2>2
<1>4. /\ pc' \in {"idle", "delete", "start"} /\ held' \subseteq {"fd", "data"}
      /\ call' \in Calls /\ (call'.size # Unknown => call'.size \in Nat)
      /\ local' \in File
  BY <1>2, <1>3, GetActType
<1>5. UNCHANGED <<dir, server, remote, clock>>
  BY DEF GetDecide
<1> QED
  BY <1>1, <1>4, <1>5 DEF Typed, TypeOK, Calls

LEMMA TypedGet == Typed /\ (GetStart \/ GetBlock \/ GetUtime \/ GetEnd \/ GetDelete) => Typed'
<1> SUFFICES ASSUME Typed, GetStart \/ GetBlock \/ GetUtime \/ GetEnd \/ GetDelete
             PROVE  Typed'
  OBVIOUS
<1> USE NoCallType
<1>0. Stamped(local) \in File /\ Gone \in File
  BY StampedType, GoneType DEF Typed, TypeOK
<1>1. CASE GetStart
  <2>1. \A n \in Nat : After(remote["file"].data, n) \in Seq(Block)
    BY AfterType DEF Typed, File, Names
  <2>2. /\ call' \in Calls /\ (call'.size # Unknown => call'.size \in Nat)
        /\ pc' \in {"idle", "xfer"} /\ held' \subseteq {"fd", "data"}
    <3> DEFINE c == [call EXCEPT !.src = After(remote["file"].data, IF RestTaken THEN call.start ELSE 0)]
    <3>1. (IF RestTaken THEN call.start ELSE 0) \in Nat
      BY DEF Typed, Calls
    <3>2. c \in Calls /\ c.size = call.size
      BY <2>1, <3>1 DEF Typed, Calls
    <3>3. \/ call' = c /\ pc' = "xfer" /\ held' = {"fd", "data"}
          \/ call' = NoCall /\ pc' = "idle" /\ held' = {}
      BY <1>1 DEF GetStart, Open, Return
    <3> QED
      BY <3>2, <3>3 DEF Typed
  <2>3. has' \in [{"SIZE", "MDTM", "REST"} -> Availability] /\ local' \in File
    BY <1>0, <1>1, HasType DEF GetStart, Typed, TypeOK
  <2> QED
    BY <1>1, <2>2, <2>3 DEF GetStart, Typed, TypeOK, Calls
<1>2. CASE GetBlock
  <2>1. Head(call.src) \in Block /\ Tail(call.src) \in Seq(Block)
    BY <1>2 DEF GetBlock, Typed, Calls
  <2>2. local' \in File
    BY <1>2, <2>1, GrownType DEF GetBlock, Typed, TypeOK
  <2>3. call' \in Calls /\ call'.size = call.size /\ pc' = "stamp" /\ held' = held
    BY <1>2, <2>1 DEF GetBlock, Goto, Typed, Calls
  <2> QED
    BY <1>2, <2>2, <2>3 DEF GetBlock, Typed, TypeOK, Calls
<1>3. CASE GetUtime
  BY <1>0, <1>3 DEF GetUtime, Goto, Typed, TypeOK
<1>4. CASE GetEnd
  <2>1. /\ call' \in {call, NoCall} /\ pc' \in {"idle", "delete"} /\ held' = {}
        /\ local' \in File
    BY <1>0, <1>4 DEF GetEnd, Finish, Return
  <2> QED
    BY <1>4, <2>1 DEF GetEnd, Typed, TypeOK, Calls
<1>5. CASE GetDelete
  <2>1. call' = NoCall /\ pc' = "idle" /\ held' = {}
    BY <1>5 DEF GetDelete, Return
  <2>2. remote' \in [Names -> File]
    BY <1>0, <1>5 DEF GetDelete, Typed
  <2> QED
    BY <1>5, <2>1, <2>2 DEF GetDelete, Typed, TypeOK, Calls
<1> QED
  BY <1>1, <1>2, <1>3, <1>4, <1>5
(* What is sent is the end of the local file, from some place in it.       *)
LEMMA PutFromType ==
  ASSUME Typed, NEW a \in Acts, NEW s \in Nat, NEW off \in Nat, PutFrom(a, s, off)
  PROVE  /\ pc' = "start" /\ held' = held /\ call'.op = call.op
         /\ call' \in Calls /\ (call'.size # Unknown => call'.size \in Nat)
<1> DEFINE c  == [call EXCEPT !.act = a, !.start = s]
           c2 == [c EXCEPT !.src = After(local.data, off)]
<1>1. After(local.data, off) \in Seq(Block)
  BY AfterType DEF Typed, File
<1>2. c \in Calls /\ c.size = call.size /\ c.op = call.op
  BY DEF Typed, Calls
<1>3. c2 = [call EXCEPT !.act = a, !.start = s, !.src = After(local.data, off)]
  OBVIOUS
<1>4. pc' = "start" /\ held' = held /\ call' = c2
  BY <1>3 DEF PutFrom, Goto
<1> HIDE DEF c
<1>5. c2 \in Calls /\ c2.size = c.size /\ c2.op = c.op
  BY <1>1, <1>2 DEF Calls
<1> QED
  BY <1>2, <1>4, <1>5 DEF Typed

LEMMA PutActType ==
  ASSUME Typed, NEW a \in Answers \cup {"same"}, PutAct(a)
  PROVE  /\ pc' \in {"idle", "delete", "start"} /\ held' \subseteq {"fd", "data"}
         /\ call' \in Calls /\ (call'.size # Unknown => call'.size \in Nat)
<1> DEFINE c == [call EXCEPT !.act = a]
<1>1. c \in Calls /\ c.size = call.size
  BY DEF Typed, Calls, Acts
<1>2. \/ \E r : Return(r, {}) \/ Return(r, held) \/ Finish(r, c)
      \/ \E b \in Acts, s \in Nat, off \in Nat : PutFrom(b, s, off)
  <2>1. call.size # Unknown => call.size \in Nat
    BY DEF Typed
  <2>2. a \in Acts /\ "append" \in Acts /\ "resume" \in Acts
    BY DEF Acts, Answers
  <2>3. 0 \in Nat
    OBVIOUS
  <2> QED
    BY <2>1, <2>2, <2>3 DEF PutAct
<1>3. ASSUME NEW r, Return(r, {}) \/ Return(r, held) \/ Finish(r, c)
      PROVE  pc' \in {"idle", "delete"} /\ call' \in {c, NoCall} /\ held' \in {{}, held}
  BY <1>3 DEF Return, Finish
<1>4. ASSUME NEW b \in Acts, NEW s \in Nat, NEW off \in Nat, PutFrom(b, s, off)
      PROVE  /\ pc' = "start" /\ held' = held
             /\ call' \in Calls /\ (call'.size # Unknown => call'.size \in Nat)
  BY <1>4, PutFromType
<1>5. held \subseteq {"fd", "data"} /\ (call.size # Unknown => call.size \in Nat)
  BY DEF Typed, TypeOK
<1> HIDE DEF c
<1> QED
  BY <1>1, <1>2, <1>3, <1>4, <1>5, NoCallType

LEMMA TypedPutDecide == Typed /\ PutDecide => Typed'
<1> SUFFICES ASSUME Typed, PutDecide PROVE Typed'
  OBVIOUS
<1>1. PICK a \in PutChoices : PutAct(a)
  BY DEF PutDecide
<1>2. /\ pc' \in {"idle", "delete", "start"} /\ held' \subseteq {"fd", "data"}
      /\ call' \in Calls /\ (call'.size # Unknown => call'.size \in Nat)
  BY <1>1, PutChoiceType, PutActType
<1>3. has' \in [{"SIZE", "MDTM", "REST"} -> Availability] /\ UNCHANGED <<dir, server, local, remote, clock>>
  BY HasType DEF PutDecide
<1> QED
  BY <1>2, <1>3 DEF Typed, TypeOK, Calls

LEMMA TypedPut ==
  Typed /\ (PutStart \/ PutBlock \/ PutEnd \/ PutRename \/ PutDeleteOld \/ PutUtime \/ PutDelete)
  => Typed'
<1> SUFFICES ASSUME Typed, PutStart \/ PutBlock \/ PutEnd \/ PutRename \/ PutDeleteOld \/ PutUtime \/ PutDelete
             PROVE  Typed'
  OBVIOUS
<1> USE NoCallType
<1>0. Gone \in File /\ Dst \in Names
  BY GoneType, DstName
<1>1. CASE PutStart
  <2>1. [data |-> Kept(remote[Dst].data), mtime |-> Now] \in File
    BY <1>0, KeptType DEF Typed, TypeOK, File, Now, Calls
  <2>2. remote' \in [Names -> File]
    BY <1>0, <1>1, <2>1 DEF PutStart, Typed
  <2>3. has' \in [{"SIZE", "MDTM", "REST"} -> Availability]
    BY <1>1, HasType DEF PutStart, Typed, TypeOK
  <2>4. call' \in {call, NoCall} /\ pc' \in {"idle", "xfer"} /\ held' \subseteq {"fd", "data"}
    BY <1>1 DEF PutStart, Open, Return
  <2> QED
    BY <1>1, <2>2, <2>3, <2>4 DEF PutStart, Typed, TypeOK, Calls
<1>2. CASE PutBlock
  <2>1. Head(call.src) \in Block /\ Tail(call.src) \in Seq(Block)
    BY <1>2 DEF PutBlock, Typed, Calls
  <2>2. Grown(remote[Dst], Head(call.src)) \in File
    BY <1>0, <2>1, GrownType DEF Typed, TypeOK
  <2>3. remote' \in [Names -> File]
    BY <1>2, <2>2 DEF PutBlock, Typed
  <2>4. call' \in Calls /\ call'.size = call.size /\ call'.op = call.op /\ pc' = "xfer" /\ held' = held
    BY <1>2, <2>1 DEF PutBlock, Goto, Typed, Calls
  <2> QED
    BY <1>2, <2>3, <2>4 DEF PutBlock, Typed, TypeOK, Calls
<1>3. CASE PutEnd
  BY <1>3 DEF PutEnd, Stored, Return, Typed, TypeOK, Calls
<1>4. CASE PutRename
  <2>1. remote' \in [Names -> File]
    BY <1>0, <1>4 DEF PutRename, Typed, Names
  <2> QED
    BY <1>4, <2>1 DEF PutRename, Typed, TypeOK, Calls
<1>5. CASE PutDeleteOld
  <2>1. remote' \in [Names -> File]
    BY <1>0, <1>5 DEF PutDeleteOld, Typed, Names
  <2> QED
    BY <1>5, <2>1 DEF PutDeleteOld, Typed, TypeOK, Calls
<1>6. CASE PutUtime
  <2>1. remote' \in [Names -> File]
    BY <1>6 DEF PutUtime, Typed, Names, File
  <2>2. call' \in {call, NoCall} /\ pc' \in {"idle", "delete"} /\ held' = {}
    BY <1>6 DEF PutUtime, Finish, Return
  <2> QED
    BY <1>6, <2>1, <2>2 DEF PutUtime, Typed, TypeOK, Calls
<1>7. CASE PutDelete
  <2>1. call' = NoCall /\ pc' = "idle" /\ held' = {} /\ local' \in File
    BY <1>0, <1>7 DEF PutDelete, Return, Typed
  <2> QED
    BY <1>7, <2>1 DEF PutDelete, Typed, TypeOK, Calls
<1> QED
  BY <1>1, <1>2, <1>3, <1>4, <1>5, <1>6, <1>7
LEMMA TypedWorld == Typed /\ (Kill \/ RemoteReplaced \/ LocalEdited \/ Tick) => Typed'
<1> SUFFICES ASSUME Typed, Kill \/ RemoteReplaced \/ LocalEdited \/ Tick PROVE Typed'
  OBVIOUS
<1>0. clock \in Nat /\ \A n \in 0..MaxSize : Content(2 * (clock + 1), n) \in File
  BY ContentType, BoundsAssumption DEF Typed, TypeOK
<1>1. CASE Kill
  BY <1>1, NoCallType DEF Kill, Return, Typed, TypeOK, Calls
<1>2. CASE RemoteReplaced
  <2>1. remote' \in [Names -> File] /\ clock' \in Nat
    BY <1>0, <1>2 DEF RemoteReplaced, Typed, Names
  <2> QED
    BY <1>2, <2>1 DEF RemoteReplaced, Typed, TypeOK, Calls
<1>3. CASE LocalEdited
  <2>1. local' \in File /\ clock' \in Nat
    BY <1>0, <1>3 DEF LocalEdited, Typed
  <2> QED
    BY <1>3, <2>1 DEF LocalEdited, Typed, TypeOK, Calls
<1>4. CASE Tick
  BY <1>4 DEF Tick, Typed, TypeOK, Calls
<1> QED
  BY <1>1, <1>2, <1>3, <1>4

LEMMA TypedStep == Typed /\ [Next]_vars => Typed'
<1> SUFFICES ASSUME Typed, [Next]_vars PROVE Typed'
  OBVIOUS
<1>1. CASE UNCHANGED vars
  BY <1>1 DEF vars, Typed, TypeOK, Calls
<1>2. CASE Step
  BY <1>2, TypedBegin, TypedAsk, TypedGetDecide, TypedGet, TypedPutDecide, TypedPut DEF Step
<1>3. CASE Kill \/ RemoteReplaced \/ LocalEdited \/ Tick
  BY <1>3, TypedWorld
<1> QED
  BY <1>1, <1>2, <1>3 DEF Next

LEMMA AlwaysTyped == Spec => []Typed
BY TypedInit, TypedStep, PTL DEF Spec

(* The variables keep their types, and only a put under a temporary name   *)
(* that was not appended to is ever renamed (FTPPutOneF, io_put.c).        *)
THEOREM TypeCorrect == Spec => []TypeOK
<1>1. Typed => TypeOK
  BY DEF Typed
<1> QED
  BY <1>1, AlwaysTyped, PTL
-----------------------------------------------------------------------------
LEMMA HeldStep == HeldAtRest /\ [Next]_vars => HeldAtRest'
<1> SUFFICES ASSUME HeldAtRest, [Next]_vars PROVE HeldAtRest'
  OBVIOUS
<1>1. ASSUME NEW r, NEW h, Return(r, h), h = {} \/ r \in {"userCanceled", "asciiSeekErr"}
      PROVE  HeldAtRest'
  BY <1>1 DEF Return, HeldAtRest
<1>2. ASSUME NEW r, NEW c, Finish(r, c)
      PROVE  HeldAtRest'
  BY <1>2 DEF Finish, Return, HeldAtRest
<1>3. ASSUME pc' # "idle"
      PROVE  HeldAtRest'
  BY <1>3 DEF HeldAtRest
<1>4. CASE UNCHANGED <<pc, result, held>>
  BY <1>4 DEF HeldAtRest
<1>5. CASE Begin
  <2>1. Return("openFailed", {}) \/ pc' # "idle"
    BY <1>5 DEF Begin
  <2> QED
    BY <1>1, <1>3, <2>1
<1>6. CASE FTPMListOneFile \/ FTPFileSize \/ FTPFileModificationTime
  BY <1>3, <1>6 DEF FTPMListOneFile, FTPFileSize, FTPFileModificationTime, Goto
<1>7. CASE GetDecide
  <2>1. \/ \E r : Return(r, {})
        \/ \E r, c : Finish(r, c)
        \/ pc' = "start"
    BY <1>7 DEF GetDecide, GetAct, Open
  <2> QED
    BY <1>1, <1>2, <1>3, <2>1
<1>8. CASE GetStart \/ GetBlock \/ GetUtime \/ GetEnd \/ GetDelete
  <2>1. \/ \E r : Return(r, {})
        \/ \E r, c : Finish(r, c)
        \/ pc' \in {"xfer", "stamp"}
    BY <1>8 DEF GetStart, GetBlock, GetUtime, GetEnd, GetDelete, Open, Goto
  <2> QED
    BY <1>1, <1>2, <1>3, <2>1
<1>9. CASE PutDecide
  <2>1. \/ \E r : Return(r, {})
        \/ Return("userCanceled", held) \/ Return("asciiSeekErr", held)
        \/ \E r, c : Finish(r, c)
        \/ pc' = "start"
    BY <1>9 DEF PutDecide, PutAct, PutFrom, Goto
  <2> QED
    BY <1>1, <1>2, <1>3, <2>1
<1>10. CASE PutStart \/ PutBlock \/ PutEnd \/ PutRename \/ PutDeleteOld \/ PutUtime \/ PutDelete
  <2>1. \/ \E r : Return(r, {})
        \/ \E r, c : Finish(r, c)
        \/ pc' \in {"xfer", "rename", "utime", "old", "again"}
    BY <1>10 DEF PutStart, PutBlock, PutEnd, PutRename, PutDeleteOld, PutUtime, PutDelete, Open, Goto, Stored
  <2> QED
    BY <1>1, <1>2, <1>3, <2>1
<1>11. CASE Kill
  BY <1>1, <1>11 DEF Kill
<1> QED
  BY <1>4, <1>5, <1>6, <1>7, <1>8, <1>9, <1>10, <1>11
     DEF Next, Step, vars, RemoteReplaced, LocalEdited, Tick

(* However a get or a put of one file ends, the local file and the data    *)
(* connection are closed; only a canceled put, and one of a text that      *)
(* cannot be repositioned, leave the local file open (io_get.c, io_put.c). *)
THEOREM NothingLeftOpen == Spec => []HeldAtRest
<1>1. Init => HeldAtRest
  BY DEF Init, HeldAtRest
<1> QED
  BY <1>1, HeldStep, PTL DEF Spec
-----------------------------------------------------------------------------
(* What an upload under a temporary name has brought there: what has       *)
(* arrived and what is still to come are the local file, and what is about *)
(* to be renamed is all of it.                                             *)
Uploading == dir = "put" /\ call.op.tmp /\ call.act = "overwrite"
Upload ==
  /\ pc = "stamp" => dir = "get"
  /\ Uploading =>
       /\ pc = "start" => call.start = 0 /\ call.src = local.data
       /\ pc = "xfer" => remote["temp"].data \o call.src = local.data
       /\ pc \in {"rename", "old", "again"} => remote["temp"].data = local.data

LEMMA UploadDecide == Typed /\ Upload /\ PutDecide => Upload'
<1> SUFFICES ASSUME Typed, Upload, PutDecide PROVE Upload'
  OBVIOUS
<1>1. PICK a \in PutChoices : PutAct(a)
  BY DEF PutDecide
<1>2. \/ pc' \in {"idle", "delete"}
      \/ \E b, s, off : PutFrom(b, s, off) /\ (b = "overwrite" => s = 0 /\ off = 0)
  BY <1>1 DEF PutAct, Return, Finish
<1>3. CASE pc' \in {"idle", "delete"}
  BY <1>3 DEF Upload
<1>4. ASSUME NEW b, NEW s, NEW off, PutFrom(b, s, off), b = "overwrite" => s = 0 /\ off = 0
      PROVE  Upload'
  <2>1. pc' = "start" /\ call' = [call EXCEPT !.act = b, !.start = s, !.src = After(local.data, off)]
    BY <1>4 DEF PutFrom, Goto
  <2>2. call \in Calls /\ local' = local
    BY DEF Typed, PutDecide
  <2> DEFINE d == After(local.data, off)
  <2>3. b = "overwrite" => d = local.data
    BY <1>4, AfterNone DEF Typed, File
  <2> HIDE DEF d
  <2>4. call'.act = b /\ call'.start = s /\ call'.src = d
    BY <2>1, <2>2 DEF Calls, d
  <2> QED
    BY <1>4, <2>1, <2>2, <2>3, <2>4 DEF Upload, Uploading
<1> QED
  BY <1>2, <1>3, <1>4

LEMMA UploadStart == Typed /\ Upload /\ PutStart => Upload'
<1> SUFFICES ASSUME Typed, Upload, PutStart, Uploading', pc' = "xfer"
             PROVE  remote'["temp"].data \o call'.src = local'.data
  BY DEF Upload, PutStart, Open, Return
<1>1. call' = call /\ local' = local /\ dir' = dir
  BY DEF PutStart, Open, Return
<1>2. Uploading /\ call.start = 0 /\ call.src = local.data /\ Dst = "temp"
  BY <1>1 DEF Uploading, Upload, PutStart, Dst
<1>3. Kept(remote["temp"].data) = <<>>
  BY <1>2, KeptNone DEF Typed, File, Names, Uploading
<1>4. remote'["temp"].data = <<>>
  BY <1>2, <1>3 DEF PutStart, Open, Return, Typed, Names
<1>5. local.data \in Seq(Block)
  BY DEF Typed, File
<1> QED
  BY <1>1, <1>2, <1>4, <1>5

LEMMA UploadBlock == Typed /\ Upload /\ PutBlock => Upload'
<1> SUFFICES ASSUME Typed, Upload, PutBlock, Uploading'
             PROVE  remote'["temp"].data \o call'.src = local'.data
  BY DEF Upload, PutBlock, Goto
<1>1. call' = [call EXCEPT !.src = Tail(call.src)] /\ local' = local /\ dir' = dir /\ call.src # <<>>
  BY DEF PutBlock, Goto
<1>2. call'.op = call.op /\ call'.act = call.act /\ call'.src = Tail(call.src)
  BY <1>1 DEF Typed, Calls
<1>3. Uploading /\ Dst = "temp" /\ remote["temp"].data \o call.src = local.data
  BY <1>1, <1>2 DEF Uploading, Upload, PutBlock, Dst
<1>4. remote'["temp"].data = Append(remote["temp"].data, Head(call.src))
  BY <1>3 DEF PutBlock, Grown, Typed, Names, File
<1>5. remote["temp"].data \in Seq(Block) /\ call.src \in Seq(Block)
  BY DEF Typed, File, Names, Calls
<1> QED
  BY <1>1, <1>2, <1>3, <1>4, <1>5, Moved

LEMMA UploadEnd == Typed /\ Upload /\ PutEnd => Upload'
<1> SUFFICES ASSUME Typed, Upload, PutEnd, Uploading', pc' = "rename"
             PROVE  remote'["temp"].data = local'.data
  BY DEF Upload, PutEnd, Stored, Return
<1>1. call' = call /\ call.src = <<>> /\ local' = local /\ dir' = dir /\ remote' = remote
  BY DEF PutEnd, Stored, Return
<1>2. remote["temp"].data \o call.src = local.data
  BY <1>1 DEF Uploading, Upload, PutEnd
<1>3. remote["temp"].data \in Seq(Block)
  BY DEF Typed, File, Names
<1> QED
  BY <1>1, <1>2, <1>3

LEMMA UploadRename == Typed /\ Upload /\ (PutRename \/ PutDeleteOld) => Upload'
<1> SUFFICES ASSUME Typed, Upload, PutRename \/ PutDeleteOld, Uploading', pc' \in {"old", "again"}
             PROVE  remote'["temp"].data = local'.data
  BY DEF Upload, PutRename, PutDeleteOld
<1>1. call' = call /\ local' = local /\ dir' = dir /\ pc \in {"rename", "old", "again"}
  BY DEF PutRename, PutDeleteOld
<1>2. remote["temp"].data = local.data
  BY <1>1 DEF Uploading, Upload
<1>3. remote'["temp"] = remote["temp"]
  BY DEF PutRename, PutDeleteOld, Typed, Names
<1> QED
  BY <1>1, <1>2, <1>3

LEMMA UploadStep == Typed /\ Upload /\ [Next]_vars => Upload'
<1> SUFFICES ASSUME Typed, Upload, [Next]_vars PROVE Upload'
  OBVIOUS
<1>1. CASE UNCHANGED <<dir, local, remote, pc, call>>
  BY <1>1 DEF Upload, Uploading
<1>2. CASE GetDecide \/ GetStart \/ GetBlock \/ GetUtime \/ GetEnd \/ GetDelete \/ RemoteReplaced
  <2>1. dir = "get" /\ dir' = dir
    BY <1>2 DEF GetDecide, GetStart, GetBlock, GetUtime, GetEnd, GetDelete, RemoteReplaced, Upload
  <2> QED
    BY <2>1 DEF Upload, Uploading
<1>3. CASE \/ Begin \/ FTPMListOneFile \/ FTPFileSize \/ FTPFileModificationTime
           \/ PutUtime \/ PutDelete \/ Kill \/ LocalEdited
  <2>1. pc' \in {"idle", "size", "mdtm", "decide", "delete"}
    BY <1>3 DEF Begin, FTPMListOneFile, FTPFileSize, FTPFileModificationTime, PutUtime, PutDelete,
                Kill, LocalEdited, Goto, Return, Finish
  <2> QED
    BY <2>1 DEF Upload
<1> QED
  BY <1>1, <1>2, <1>3, UploadDecide, UploadStart, UploadBlock, UploadEnd, UploadRename
     DEF Next, Step, vars, Tick

LEMMA AlwaysUpload == Spec => [](Typed /\ Upload)
<1>1. Init => Upload
  BY DEF Init, Upload
<1> QED
  BY <1>1, TypedInit, TypedStep, UploadStep, PTL DEF Spec

(* The two steps that give the file's own name another content.            *)
LEMMA WholeStep ==
  Typed /\ Upload /\ [Next]_vars
  => ((dir = "put" /\ call.op.tmp /\ call.act = "overwrite" /\ remote'["file"].data # remote["file"].data)
      => remote'["file"].data \in {<<>>, local.data})
<1> SUFFICES ASSUME Typed, Upload, [Next]_vars, Uploading, remote'["file"].data # remote["file"].data
             PROVE  remote'["file"].data \in {<<>>, local.data}
  BY DEF Uploading
<1>1. Dst = "temp" /\ dir = "put" /\ remote \in [Names -> File]
  BY DEF Uploading, Dst, Typed
<1>2. CASE PutRename
  <2>1. remote' = [remote EXCEPT !["file"] = remote["temp"], !["temp"] = Gone]
    BY <1>2 DEF PutRename
  <2>2. remote'["file"] = remote["temp"]
    BY <1>1, <2>1 DEF Names
  <2>3. remote["temp"].data = local.data
    BY <1>2 DEF PutRename, Upload
  <2> QED
    BY <2>2, <2>3
<1>3. CASE PutDeleteOld
  BY <1>1, <1>3 DEF PutDeleteOld, Names, Gone
<1>4. CASE PutUtime
  BY <1>1, <1>4 DEF PutUtime, Names, File
<1>5. CASE PutStart \/ PutBlock
  BY <1>1, <1>5 DEF PutStart, PutBlock, Names
<1>6. CASE UNCHANGED remote
  BY <1>6
<1>7. ~(GetDecide \/ GetStart \/ GetBlock \/ GetUtime \/ GetEnd \/ GetDelete \/ RemoteReplaced)
  BY <1>1 DEF GetDecide, GetStart, GetBlock, GetUtime, GetEnd, GetDelete, RemoteReplaced, Upload
<1>8. Begin \/ FTPMListOneFile \/ FTPFileSize \/ FTPFileModificationTime \/ PutDecide \/ PutEnd
      \/ PutDelete \/ Kill \/ LocalEdited \/ Tick \/ UNCHANGED vars
      => UNCHANGED remote
  BY DEF Begin, FTPMListOneFile, FTPFileSize, FTPFileModificationTime, PutDecide, PutEnd,
         PutDelete, Kill, LocalEdited, Tick, vars
<1> QED
  BY <1>2, <1>3, <1>4, <1>5, <1>6, <1>7, <1>8 DEF Next, Step

(* Whatever fails, and wherever the process is killed, the file that is    *)
(* replaced through a temporary name is the old one, gone, or the whole    *)
(* new one (FTPPutOneF's renaming, io_put.c).                              *)
THEOREM TargetIsWhole == Spec => TargetWhole
BY AlwaysUpload, WholeStep, PTL DEF Spec, TargetWhole
-----------------------------------------------------------------------------
(* What can be resumed.  A copy that was resumed without comparing times   *)
(* can be taken for a later one: a server must tell the time of a file     *)
(* whenever the client has its size.  One that has MDTM does, one that     *)
(* answers neither MDTM nor MLST never lets the client stamp a copy.       *)
TimesTold == \A s \in Servers : s.mlst => s.mdtm

Odd(n)  == \E k \in Int : n = 2 * k + 1
Even(n) == \E k \in Int : n = 2 * k
File1   == remote["file"]

(* What the client knows of the server, and of the time of the file.       *)
Known ==
  /\ server.mdtm => has["MDTM"] # "notAvailable"
  /\ pc = "mdtm" => There(File1)
  /\ pc = "size" => call.mdtm = Unknown /\ call.size = Unknown
  /\ pc = "mdtm" => call.mdtm = Unknown
  /\ pc = "decide" /\ server.mdtm /\ call.op.resume /\ call.size # Unknown => call.mdtm # Unknown
  /\ ~server.mdtm => call.mdtm = Unknown
  /\ pc \in {"size", "mdtm", "decide"} => call.act = "bestGuess"
  /\ pc \notin {"rename", "old", "again", "utime"}

(* No file is newer than the clock; what the client writes has an odd      *)
(* time until it is stamped.                                               *)
Times ==
  /\ File1.mtime <= 2 * clock /\ (There(File1) => Even(File1.mtime))
  /\ call.mdtm <= 2 * clock
  /\ local.mtime <= Now /\ (~server.mdtm => Odd(local.mtime))

(* A copy that is not older than its source is a beginning of it, and a    *)
(* copy under way is one whatever its time.                                *)
Safe == server.mdtm \/ call.act = "overwrite"
Copied ==
  spoiled = {} =>
    /\ server.mdtm /\ There(local) /\ There(File1) /\ local.mtime >= File1.mtime =>
         IsPrefixOf(local.data, File1.data)
    /\ pc \in {"mdtm", "decide"} =>
         call.mdtm \in {Unknown, File1.mtime} /\ call.size \in {Unknown, Len(File1.data)}
    /\ pc = "start" /\ There(File1) /\ Safe =>
         call.start = Len(local.data) /\ IsPrefixOf(local.data, File1.data)
    /\ pc \in {"xfer", "stamp"} /\ Safe => local.data \o call.src = File1.data

Copying == TimesTold /\ (dir = "get" => Known /\ Times /\ Copied)

LEMMA PrefixNone ==
  ASSUME NEW d \in Seq(Block)
  PROVE  IsPrefixOf(<<>>, d)
BY DEF IsPrefixOf

LEMMA PrefixRest ==
  ASSUME NEW s \in Seq(Block), NEW d \in Seq(Block), IsPrefixOf(s, d)
  PROVE  s \o After(d, Len(s)) = d
<1>1. Len(s) \in Nat /\ Len(d) \in Nat /\ Len(s) <= Len(d)
  BY DEF IsPrefixOf
<1>2. CASE Len(s) = Len(d)
  <2>1. After(d, Len(s)) = <<>>
    BY <1>2 DEF After
  <2>2. s = d
    BY <1>2 DEF IsPrefixOf
  <2> QED
    BY <2>1, <2>2
<1>3. CASE Len(s) < Len(d)
  <2> DEFINE t == SubSeq(d, Len(s) + 1, Len(d))
  <2>1. After(d, Len(s)) = t
    BY <1>1, <1>3 DEF After
  <2>2. t \in Seq(Block) /\ Len(t) = Len(d) - Len(s)
    BY <1>1, <1>3
  <2>3. \A i \in 1 .. Len(t) : t[i] = d[Len(s) + i]
    BY <1>1, <1>3
  <2> HIDE DEF t
  <2>4. s \o t \in Seq(Block) /\ Len(s \o t) = Len(d)
    BY <1>1, <2>2
  <2>5. ASSUME NEW i \in 1 .. Len(d)
        PROVE  (s \o t)[i] = d[i]
    <3>1. CASE i <= Len(s)
      BY <3>1, <1>1, <2>2 DEF IsPrefixOf
    <3>2. CASE i > Len(s)
      <4>1. i - Len(s) \in 1 .. Len(t)
        BY <3>2, <1>1, <2>2
      <4>2. (s \o t)[i] = t[i - Len(s)]
        BY <3>2, <4>1, <1>1, <2>2
      <4>3. t[i - Len(s)] = d[Len(s) + (i - Len(s))]
        BY <4>1, <2>3
      <4>4. Len(s) + (i - Len(s)) = i
        BY <1>1
      <4> QED
        BY <4>2, <4>3, <4>4
    <3>3. i <= Len(s) \/ i > Len(s)
      BY <1>1
    <3> QED
      BY <3>1, <3>2, <3>3
  <2>6. s \o t = d
    <3>1. d \in Seq(Block)
      OBVIOUS
    <3> DEFINE u == s \o t
    <3>2. u \in Seq(Block) /\ Len(u) = Len(d) /\ \A i \in 1 .. Len(d) : u[i] = d[i]
      BY <2>4, <2>5
    <3> HIDE DEF u
    <3>3. u = d
      BY <3>1, <3>2
    <3> QED
      BY <3>3 DEF u
  <2> QED
    BY <2>1, <2>6
<1> QED
  BY <1>1, <1>2, <1>3

LEMMA PrefixSelf ==
  ASSUME NEW d \in Seq(Block)
  PROVE  IsPrefixOf(d, d)
BY DEF IsPrefixOf

LEMMA PrefixOfAll ==
  ASSUME NEW s \in Seq(Block), NEW t \in Seq(Block), NEW d, s \o t = d
  PROVE  IsPrefixOf(s, d)
BY DEF IsPrefixOf
(* The facts about a get that every step starts from.                      *)
LEMMA GetFacts ==
  ASSUME Typed, Copying, dir = "get"
  PROVE  /\ Known /\ Times /\ Copied /\ Dst = "file"
         /\ local \in File /\ File1 \in File /\ call \in Calls /\ clock \in Nat /\ Now = 2 * clock + 1
         /\ call.mdtm \in Int /\ local.mtime \in Int /\ File1.mtime \in Int
         /\ local.data \in Seq(Block) /\ File1.data \in Seq(Block) /\ Len(local.data) \in Nat
BY DEF Typed, TypeOK, Copying, Dst, File1, File, Calls, Names, Now

LEMMA CopyingInit == TimesTold /\ Init => Copying
<1> SUFFICES ASSUME TimesTold, Init, dir = "get" PROVE Known /\ Times /\ Copied
  BY DEF Copying
<1>1. PICK n \in 0..MaxSize : local = Gone /\ remote = [f \in Names |-> IF f = "file" THEN Content(2, n) ELSE Gone]
  BY DEF Init
<1>2. local.mtime = -1 /\ File1.mtime = 2 /\ clock = 1 /\ call.mdtm = -1 /\ pc = "idle" /\ has["MDTM"] = "unknown"
  BY <1>1 DEF Init, File1, Gone, Content, Unknown, Names, NoCall, Call
<1>3. -1 = 2 * (-1) + 1 /\ 2 = 2 * 1
  OBVIOUS
<1>4. Odd(local.mtime) /\ Even(File1.mtime)
  BY <1>2, <1>3 DEF Odd, Even
<1>5. Known
  BY <1>2 DEF Known, Unknown
<1>6. Times
  BY <1>2, <1>4 DEF Times, Now
<1>7. Copied
  BY <1>2 DEF Copied, There, Unknown
<1> QED
  BY <1>5, <1>6, <1>7

(* After the decision nothing more is learnt, and the local file is left   *)
(* alone, written, stamped or removed: what matters is its content.        *)
LEMMA Onward ==
  ASSUME Typed, Copying, dir = "get", UNCHANGED <<dir, server, remote, clock>>,
         has'["MDTM"] = has["MDTM"], pc' \in {"idle", "delete", "start", "xfer", "stamp"},
         call'.mdtm \in {call.mdtm, Unknown},
         local'.mtime \in {local.mtime, Unknown, Now, Stamped(local).mtime},
         Copied'
  PROVE  Copying'
<1>1. Known /\ Times /\ clock \in Nat /\ Now = 2 * clock + 1 /\ local.mtime \in Int /\ call.mdtm \in Int /\ local \in File
  BY GetFacts
<1>2. Stamped(local).mtime \in {local.mtime, call.mdtm} /\ (call.mdtm = Unknown => Stamped(local).mtime = local.mtime)
  BY <1>1 DEF Stamped, File
<1>3. Known'
  BY <1>1 DEF Known
<1>4. Odd(Now) /\ Odd(Unknown) /\ Unknown <= Now
  <2>1. Unknown = 2 * (-1) + 1 /\ clock \in Int
    BY <1>1 DEF Unknown
  <2> QED
    BY <2>1, <1>1 DEF Odd
<1>5. ~server.mdtm => local'.mtime \in {local.mtime, Unknown, Now}
  BY <1>1, <1>2 DEF Known
<1>6. (~server.mdtm => Odd(local'.mtime)) /\ local'.mtime <= Now
  <2>1. local.mtime <= Now /\ call.mdtm <= Now /\ Now <= Now
    BY <1>1 DEF Times
  <2>2. ~server.mdtm => Odd(local.mtime)
    BY <1>1 DEF Times
  <2> QED
    BY <1>2, <1>4, <1>5, <2>1, <2>2
<1>7. call'.mdtm <= 2 * clock /\ Now' = Now
  BY <1>1 DEF Times, Unknown, Now
<1>8. Times'
  BY <1>1, <1>6, <1>7 DEF Times, File1
<1> QED
  BY <1>3, <1>8 DEF Copying

LEMMA CopyingBegin == Typed /\ Copying /\ dir = "get" /\ Begin => Copying'
<1> SUFFICES ASSUME Typed, Copying, dir = "get", Begin PROVE Copying'
  OBVIOUS
<1>1. UNCHANGED <<dir, server, has, local, remote, clock, spoiled>>
  BY DEF Begin
<1>2. Known /\ Times /\ Copied /\ clock \in Nat
  BY GetFacts
<1>3. PICK op \in Requests :
        \/ pc' = "size" /\ call' = Call(op, Unknown)
        \/ There(File1) /\ pc' = "mdtm" /\ call' = Call(op, Len(File1.data))
        \/ ~op.resume /\ pc' = "decide" /\ call' = Call(op, Unknown)
  BY DEF Begin, File1
<1>4. \A n : Call(op, n).mdtm = Unknown /\ Call(op, n).size = n /\ Call(op, n).op = op
             /\ Call(op, n).act = "bestGuess"
  BY DEF Call
<1>5. call'.mdtm = Unknown /\ (pc' = "size" => call'.size = Unknown) /\ (pc' = "decide" => ~call'.op.resume)
      /\ call'.size \in {Unknown, Len(File1.data)} /\ call'.act = "bestGuess"
  BY <1>3, <1>4
<1>6. pc' \in {"size", "mdtm", "decide"} /\ (pc' = "mdtm" => There(File1))
  BY <1>3
<1>7. Known'
  BY <1>1, <1>2, <1>5, <1>6 DEF Known, File1
<1>8. Times'
  BY <1>1, <1>2, <1>5 DEF Times, File1, Now, Unknown
<1>9. Copied'
  BY <1>1, <1>2, <1>5, <1>6 DEF Copied, File1
<1> QED
  BY <1>1, <1>7, <1>8, <1>9 DEF Copying

LEMMA CopyingAsk ==
  Typed /\ Copying /\ dir = "get" /\ (FTPMListOneFile \/ FTPFileSize \/ FTPFileModificationTime) => Copying'
<1> SUFFICES ASSUME Typed, Copying, dir = "get", FTPMListOneFile \/ FTPFileSize \/ FTPFileModificationTime
             PROVE  Copying'
  OBVIOUS
<1>0. /\ UNCHANGED <<dir, server, local, remote, clock, spoiled>>
      /\ remote[Dst] = File1
  BY GetFacts DEF FTPMListOneFile, FTPFileSize, FTPFileModificationTime, File1
<1>1. Known /\ Times /\ Copied /\ clock \in Nat /\ call \in Calls /\ File1.mtime \in Int /\ Len(File1.data) \in Nat
  BY GetFacts
<1>2. server \in ServerKinds /\ (server.mlst => server.mdtm)
  BY ServersAssumption DEF Typed, TypeOK, Copying, TimesTold
<1>3. /\ server.mdtm => has'["MDTM"] # "notAvailable"
      /\ pc' \in {"mdtm", "decide"} /\ call'.op = call.op /\ call'.act = call.act
      /\ call'.mdtm \in {Unknown, File1.mtime}
      /\ call'.size \in {call.size, Unknown, Len(File1.data)}
      /\ pc' = "mdtm" => There(File1) /\ call'.mdtm = Unknown
      /\ pc' = "decide" /\ server.mdtm /\ call.op.resume /\ call'.size # Unknown => call'.mdtm # Unknown
      /\ ~server.mdtm => call'.mdtm = Unknown
  <2>1. CASE FTPMListOneFile
    <3>1. /\ call' = [call EXCEPT !.size = Len(File1.data), !.mdtm = File1.mtime]
          /\ pc' = "decide" /\ has' = has /\ server.mdtm /\ There(File1)
      BY <2>1, <1>0, <1>2 DEF FTPMListOneFile, Goto
    <3>2. call'.mdtm = File1.mtime /\ call'.op = call.op /\ call'.size = Len(File1.data) /\ call'.act = call.act
      <4> DEFINE n == Len(File1.data)
                 m == File1.mtime
      <4>1. call' = [call EXCEPT !.size = n, !.mdtm = m]
        BY <3>1
      <4> HIDE DEF n, m
      <4>2. call'.mdtm = m /\ call'.op = call.op /\ call'.size = n /\ call'.act = call.act
        BY <4>1, <1>1 DEF Calls
      <4> QED
        BY <4>2 DEF m, n
    <3>3. File1.mtime # Unknown /\ has'["MDTM"] # "notAvailable"
      BY <3>1, <1>1 DEF There, Known
    <3> QED
      BY <3>1, <3>2, <3>3
  <2>2. CASE FTPFileSize
    <3>1. has'["MDTM"] = has["MDTM"]
      BY <2>2 DEF FTPFileSize, Query, Typed, TypeOK
    <3>2. call.mdtm = Unknown /\ call.size = Unknown
      BY <2>2, <1>1 DEF FTPFileSize, Known
    <3>3. \/ There(File1) /\ pc' = "mdtm" /\ call' = [call EXCEPT !.size = Len(File1.data)]
          \/ pc' = "decide" /\ call' = call
      BY <2>2, <1>0 DEF FTPFileSize, Goto, Answered
    <3>4. call'.mdtm = Unknown /\ call'.op = call.op /\ (pc' = "decide" => call'.size = Unknown)
          /\ call'.size \in {Unknown, Len(File1.data)} /\ call'.act = call.act
      BY <3>2, <3>3, <1>1 DEF Calls
    <3> QED
      BY <3>1, <3>3, <3>4, <1>1 DEF Known
  <2>3. CASE FTPFileModificationTime
    <3>1. server.mdtm => has'["MDTM"] # "notAvailable"
      BY <2>3, <1>1 DEF FTPFileModificationTime, Query, Known, Typed, TypeOK
    <3>2. /\ pc = "mdtm" /\ pc' = "decide"
          /\ call' = IF Answered("MDTM", server.mdtm) THEN [call EXCEPT !.mdtm = File1.mtime] ELSE call
      BY <2>3, <1>0 DEF FTPFileModificationTime, Goto
    <3>3. Answered("MDTM", server.mdtm) <=> server.mdtm
      BY <3>2, <1>0, <1>1 DEF Answered, Known
    <3>4. call'.op = call.op /\ call'.size = call.size /\ call'.act = call.act
          /\ call'.mdtm = IF server.mdtm THEN File1.mtime ELSE Unknown
      BY <3>2, <3>3, <1>1 DEF Calls, Known
    <3>5. File1.mtime # Unknown
      BY <3>2, <1>1 DEF Known, There
    <3> QED
      BY <3>1, <3>2, <3>4, <3>5
  <2> QED
    BY <2>1, <2>2, <2>3
<1>4. Known'
  <2>1. call.act = "bestGuess"
    BY <1>1 DEF FTPMListOneFile, FTPFileSize, FTPFileModificationTime, Known
  <2> QED
    BY <1>0, <1>1, <1>3, <2>1 DEF Known, File1
<1>5. Times'
  BY <1>0, <1>1, <1>3 DEF Times, File1, Now, Unknown
<1>6. Copied'
  <2>1. pc \in {"size", "mdtm"} /\ (pc = "size" => call.size = Unknown)
    BY <1>1 DEF FTPMListOneFile, FTPFileSize, FTPFileModificationTime, Known
  <2> QED
    BY <1>0, <1>1, <1>3, <2>1 DEF Copied, File1
<1> QED
  BY <1>0, <1>4, <1>5, <1>6 DEF Copying
(* A decision to resume, made by comparing, rests on a beginning.          *)
LEMMA GuessRight ==
  ASSUME Typed, Copying, dir = "get", pc = "decide", server.mdtm, spoiled = {},
         There(local), There(File1), ~call.op.ask, NEW h, NEW c \in GetChoices(h), c[1] = "resume"
  PROVE  c[2] = Len(local.data) /\ IsPrefixOf(local.data, File1.data)
<1> DEFINE counted == {Len(local.data)} \cup (IF call.op.ascii THEN {Unknown} ELSE {})
<1>1. Known /\ Times /\ Copied /\ clock \in Nat /\ Now = 2 * clock + 1 /\ Len(local.data) \in Nat
      /\ local.mtime \in Int /\ File1.mtime \in Int /\ Recent \in Nat
  BY GetFacts, BoundsAssumption
<1>2. \/ \E a \in {Wanted(h)} \ {"bestGuess"} : c = <<a, Len(local.data)>>
      \/ Wanted(h) = "bestGuess" /\ \E n \in counted : c = <<GetGuess(h, n), n>>
  BY DEF GetChoices
<1>3. Wanted(h) # "resume" /\ (Wanted(h) = "bestGuess" => call.op.resume)
  BY DEF Wanted
<1>4. PICK n \in counted : c = <<GetGuess(h, n), n>>
  BY <1>2, <1>3
<1>5. call.op.resume /\ GetGuess(h, n) = "resume" /\ c[2] = n
  BY <1>2, <1>3, <1>4
<1>6. call.size # Unknown /\ n # Unknown
      /\ ~(TimesTell /\ call.mdtm < local.mtime) /\ ~(TimesTell /\ call.mdtm > local.mtime)
  BY <1>5 DEF GetGuess
<1>7. call.mdtm = File1.mtime /\ call.mdtm # Unknown
  BY <1>1, <1>5, <1>6 DEF Known, Copied
<1>8. local.mtime >= File1.mtime
  BY <1>1, <1>6, <1>7 DEF TimesTell, Times
<1>9. n = Len(local.data)
  BY <1>6
<1> QED
  BY <1>1, <1>5, <1>8, <1>9 DEF Copied

LEMMA CopyingDecide == Typed /\ Copying /\ GetDecide => Copying'
<1> SUFFICES ASSUME Typed, Copying, GetDecide PROVE Copying'
  OBVIOUS
<1> DEFINE h == FTPCheckForRestartModeAvailability
<1>0. dir = "get" /\ pc = "decide" /\ UNCHANGED <<dir, server, remote, clock>> /\ has' = h
  BY DEF GetDecide
<1>1. Known /\ Times /\ Copied /\ local \in File /\ call \in Calls /\ local.data \in Seq(Block)
      /\ File1.data \in Seq(Block) /\ Stamped(local).data = local.data
  BY <1>0, GetFacts, StampedType
<1>2. h["MDTM"] = has["MDTM"]
  BY DEF FTPCheckForRestartModeAvailability, Typed, TypeOK
<1>3. PICK c \in (IF There(local) THEN GetChoices(h) ELSE {<<"overwrite", 0>>}) :
        /\ GetAct(c[1], c[2])
        /\ spoiled' = IF c[1] = "overwrite" /\ pc' = "start" THEN {}
                      ELSE IF c[1] = "append" THEN spoiled \cup {"append"}
                      ELSE IF call.op.ask /\ c[1] = "resume" THEN spoiled \cup {"answer"}
                      ELSE spoiled
  BY DEF GetDecide
<1> DEFINE a == c[1]
           s == c[2]
           d == [call EXCEPT !.act = a, !.start = IF a = "resume" THEN s ELSE 0]
<1>4. d.mdtm = call.mdtm /\ d.act = a /\ d.start = (IF a = "resume" THEN s ELSE 0)
  BY <1>1 DEF Calls
<1> HIDE DEF h, d
<1>5. \/ /\ pc' \in {"idle", "delete"} /\ call' \in {d, NoCall}
         /\ local' = local \/ (a = "append" /\ local' = Stamped(local))
      \/ pc' = "start" /\ call' = d /\ local' = local /\ a \in {"resume", "append"}
      \/ pc' = "start" /\ call' = d /\ local' = [data |-> <<>>, mtime |-> Now] /\ a = "overwrite"
  <2>1. \A r : Finish(r, d) => pc' \in {"idle", "delete"} /\ call' \in {d, NoCall}
    BY DEF Finish, Return
  <2>2. \A r : Return(r, {}) => pc' = "idle" /\ call' = NoCall
    BY DEF Return
  <2>3. Open("start", d, {"fd"}) => pc' = "start" /\ call' = d
    BY DEF Open
  <2>4. GetAct(a, s)
    BY <1>3
  <2> QED
    BY <2>1, <2>2, <2>3, <2>4 DEF GetAct, d
<1>6. a = "append" => spoiled' # {}
  BY <1>3
<1>7. Copied'
  <2> SUFFICES ASSUME spoiled' = {} PROVE Copied'
    BY DEF Copied
  <2>1. CASE pc' = "start" /\ a = "overwrite"
    <3>1. local'.data = <<>> /\ call'.start = 0 /\ pc' = "start"
      BY <1>4, <1>5, <2>1
    <3> QED
      BY <3>1, <1>0, <1>1, PrefixNone DEF Copied, File1
  <2>2. CASE ~(pc' = "start" /\ a = "overwrite")
    <3>1. spoiled = {} /\ a # "append" /\ (a = "resume" => ~call.op.ask)
      BY <1>3, <1>6, <2>2
    <3>2. local' = local /\ pc' \in {"idle", "delete", "start"}
      BY <1>5, <2>2, <3>1
    <3>3. ASSUME pc' = "start", There(File1), server.mdtm
          PROVE  call'.start = Len(local.data) /\ IsPrefixOf(local.data, File1.data)
      <4>1. a = "resume" /\ call' = d
        BY <1>5, <2>2, <3>1, <3>3
      <4>2. There(local) /\ c \in GetChoices(h)
        <5>1. a # <<"overwrite", 0>>[1]
          BY <4>1
        <5> QED
          BY <1>3, <5>1
      <4>3. s = Len(local.data) /\ IsPrefixOf(local.data, File1.data)
        BY <1>0, <3>1, <3>3, <4>1, <4>2, GuessRight
      <4> QED
        BY <1>4, <4>1, <4>3
    <3>4. server.mdtm /\ There(local) /\ There(File1) /\ local.mtime >= File1.mtime
          => IsPrefixOf(local.data, File1.data)
      BY <1>1, <3>1 DEF Copied
    <3>5. pc' = "start" => call'.act # "overwrite"
      BY <1>4, <1>5, <2>2
    <3> QED
      BY <1>0, <3>2, <3>3, <3>4, <3>5 DEF Copied, Safe, File1
  <2> QED
    BY <2>1, <2>2
<1>8. local'.mtime \in {local.mtime, Unknown, Now, Stamped(local).mtime}
  BY <1>5
<1>9. pc' \in {"idle", "delete", "start"} /\ call'.mdtm \in {call.mdtm, Unknown}
  <2>1. NoCall.mdtm = Unknown
    BY DEF NoCall, Call
  <2> QED
    BY <1>4, <1>5, <2>1
<1> QED
  BY <1>0, <1>2, <1>7, <1>8, <1>9, Onward
LEMMA CopyingStart == Typed /\ Copying /\ GetStart => Copying'
<1> SUFFICES ASSUME Typed, Copying, GetStart PROVE Copying'
  OBVIOUS
<1>0. dir = "get" /\ pc = "start" /\ UNCHANGED <<dir, server, remote, clock>>
  BY DEF GetStart
<1>1. /\ Copied /\ call \in Calls /\ local \in File /\ NoCall.mdtm = Unknown
      /\ local.data \in Seq(Block) /\ File1.data \in Seq(Block)
  BY <1>0, GetFacts DEF NoCall, Call
<1>2. has'["MDTM"] = has["MDTM"]
  BY DEF GetStart, RestTried, Typed, TypeOK
<1>3. CASE There(remote["file"]) /\ pc' = "xfer"
  <2> DEFINE n == IF RestTaken THEN call.start ELSE 0
             rest == After(remote["file"].data, n)
  <2>1. call' = [call EXCEPT !.src = rest] /\ local' = local
        /\ spoiled' = IF call.start # 0 /\ ~RestTaken THEN spoiled \cup {"rest"} ELSE spoiled
    BY <1>3 DEF GetStart, Open, Return
  <2> HIDE DEF rest
  <2>2. call'.mdtm = call.mdtm /\ call'.src = rest /\ call'.act = call.act
    BY <1>1, <2>1 DEF Calls
  <2>3. Copied'
    <3> SUFFICES ASSUME Safe, spoiled' = {}
                 PROVE  local.data \o rest = File1.data /\ IsPrefixOf(local.data, File1.data)
      BY <1>0, <1>3, <2>1, <2>2 DEF Copied, Safe, File1
    <3>1. spoiled = {} /\ n = call.start
      BY <2>1
    <3>2. call.start = Len(local.data) /\ IsPrefixOf(local.data, File1.data)
      BY <1>0, <1>1, <1>3, <3>1 DEF Copied, File1
    <3> QED
      BY <1>1, <3>1, <3>2, PrefixRest DEF rest, File1
  <2> QED
    BY <1>0, <1>2, <1>3, <2>1, <2>2, <2>3, Onward
<1>4. CASE pc' = "idle"
  <2>1. call' = NoCall /\ local' \in {local, Gone} /\ spoiled' = spoiled
    BY <1>4 DEF GetStart, Open, Return
  <2>2. Copied'
    BY <1>0, <1>1, <1>4, <2>1 DEF Copied, File1, There, Gone
  <2> QED
    BY <1>0, <1>1, <1>2, <1>4, <2>1, <2>2, Onward DEF Gone
<1> QED
  BY <1>3, <1>4 DEF GetStart, Open, Return

LEMMA CopyingBlock == Typed /\ Copying /\ GetBlock => Copying'
<1> SUFFICES ASSUME Typed, Copying, GetBlock PROVE Copying'
  OBVIOUS
<1>0. dir = "get" /\ pc = "xfer" /\ pc' = "stamp" /\ call.src # <<>>
      /\ UNCHANGED <<dir, server, has, remote, clock, spoiled>>
      /\ local' = Grown(local, Head(call.src)) /\ call' = [call EXCEPT !.src = Tail(call.src)]
  BY DEF GetBlock, Goto
<1>1. /\ Copied /\ call \in Calls /\ local \in File
      /\ local.data \in Seq(Block) /\ call.src \in Seq(Block)
  BY <1>0, GetFacts DEF Calls
<1>2. call'.mdtm = call.mdtm /\ call'.src = Tail(call.src) /\ call'.act = call.act
  BY <1>0, <1>1 DEF Calls
<1>3. local'.mtime = Now /\ local'.data = Append(local.data, Head(call.src))
  BY <1>0 DEF Grown
<1>4. Copied'
  <2> SUFFICES ASSUME Safe, spoiled = {}
               PROVE  /\ local'.data \o call'.src = File1.data
                      /\ IsPrefixOf(local'.data, File1.data)
    BY <1>0, <1>2 DEF Copied, Safe, File1
  <2>1. local.data \o call.src = File1.data
    BY <1>0, <1>1 DEF Copied
  <2>2. Append(local.data, Head(call.src)) \o Tail(call.src) = File1.data
        /\ Append(local.data, Head(call.src)) \in Seq(Block) /\ Tail(call.src) \in Seq(Block)
    <3> DEFINE t == call.src
               l == local.data
    <3>1. t \in Seq(Block) /\ l \in Seq(Block) /\ t # <<>>
      BY <1>0, <1>1
    <3> HIDE DEF t, l
    <3>2. Append(l, Head(t)) \o Tail(t) = l \o t /\ Head(t) \in Block /\ Tail(t) \in Seq(Block)
      BY <3>1, Moved
    <3>3. Append(l, Head(t)) \in Seq(Block)
      BY <3>1, <3>2
    <3> QED
      BY <2>1, <3>2, <3>3 DEF t, l
  <2> QED
    BY <1>2, <1>3, <2>2, PrefixOfAll
<1> QED
  BY <1>0, <1>2, <1>3, <1>4, Onward

LEMMA CopyingEnd == Typed /\ Copying /\ (GetUtime \/ GetEnd) => Copying'
<1> SUFFICES ASSUME Typed, Copying, GetUtime \/ GetEnd PROVE Copying'
  OBVIOUS
<1>0. UNCHANGED <<dir, server, has, remote, clock, spoiled>> /\ local' = Stamped(local)
      /\ pc \in {"xfer", "stamp"}
  BY DEF GetUtime, GetEnd
<1>1. (pc' = "xfer" /\ call' = call) \/ (pc' \in {"idle", "delete"} /\ call' \in {call, NoCall})
  BY DEF GetUtime, GetEnd, Goto, Finish, Return
<1>2. NoCall.mdtm = Unknown /\ Stamped(local).data = local.data /\ local.data \in Seq(Block) /\ call.src \in Seq(Block)
  BY StampedType DEF NoCall, Call, Typed, TypeOK, File, Calls
<1>3. CASE dir = "get"
  <2>1. Copied'
    <3> SUFFICES ASSUME Safe, spoiled = {}
                 PROVE  local.data \o call.src = File1.data /\ IsPrefixOf(local.data, File1.data)
      BY <1>0, <1>1, <1>2 DEF Copied, Safe, File1
    <3>1. local.data \o call.src = File1.data
      BY <1>0, <1>3, GetFacts DEF Copied
    <3> QED
      BY <1>2, <3>1, PrefixOfAll
  <2> QED
    BY <1>0, <1>1, <1>2, <1>3, <2>1, Onward
<1>4. CASE dir # "get"
  BY <1>0, <1>4 DEF Copying
<1> QED
  BY <1>3, <1>4

(* The source is deleted, or the process killed.                           *)
LEMMA CopyingStop == Typed /\ Copying /\ dir = "get" /\ (GetDelete \/ Kill) => Copying'
<1> SUFFICES ASSUME Typed, Copying, dir = "get", GetDelete \/ Kill PROVE Copying'
  OBVIOUS
<1>0. UNCHANGED <<dir, server, has, local, clock, spoiled>> /\ pc' = "idle" /\ call' = NoCall
      /\ File1' \in {File1, Gone}
  BY DEF GetDelete, Kill, Return, File1, Typed, Names
<1>1. Known /\ Times /\ Copied /\ clock \in Nat /\ NoCall.mdtm = Unknown
  BY GetFacts DEF NoCall, Call
<1>2. Known'
  BY <1>0, <1>1 DEF Known
<1>3. Times'
  <2>1. Gone.mtime = -1 /\ ~There(Gone) /\ Now' = Now
    BY <1>0 DEF Gone, There, Unknown, Now
  <2>2. -1 <= 2 * clock
    BY <1>1
  <2> QED
    BY <1>0, <1>1, <2>1, <2>2 DEF Times, Unknown
<1>4. Copied'
  BY <1>0, <1>1 DEF Copied, There, Gone
<1> QED
  BY <1>0, <1>2, <1>3, <1>4 DEF Copying

LEMMA CopyingWorld == Typed /\ Copying /\ dir = "get" /\ (RemoteReplaced \/ Tick) => Copying'
<1> SUFFICES ASSUME Typed, Copying, dir = "get", RemoteReplaced \/ Tick PROVE Copying'
  OBVIOUS
<1>0. UNCHANGED <<dir, server, has, local, pc, call>> /\ clock' = clock + 1
  BY DEF RemoteReplaced, Tick
<1>1. Known /\ Times /\ Copied /\ clock \in Nat /\ Now = 2 * clock + 1
      /\ local.mtime \in Int /\ call.mdtm \in Int /\ File1.mtime \in Int
  BY GetFacts
<1>2. CASE RemoteReplaced
  <2>1. File1'.mtime = 2 * (clock + 1) /\ (spoiled' = {} => pc = "idle")
    BY <1>2 DEF RemoteReplaced, File1, Typed, Names, Content
  <2>2. There(File1)' /\ Even(File1'.mtime) /\ Now' = Now + 2
    BY <1>0, <1>1, <2>1 DEF There, Unknown, Even, Now
  <2>3. Known'
    BY <1>0, <1>1, <2>2 DEF Known
  <2>4. Times'
    BY <1>0, <1>1, <2>1, <2>2 DEF Times
  <2>5. Copied'
    BY <1>0, <1>1, <2>1 DEF Copied, Times
  <2> QED
    BY <1>0, <2>3, <2>4, <2>5 DEF Copying
<1>3. CASE Tick
  <2>1. File1' = File1 /\ spoiled' = spoiled /\ Now' = Now + 2
    BY <1>1, <1>3 DEF Tick, File1, Now
  <2>2. Known'
    BY <1>0, <1>1, <2>1 DEF Known
  <2>3. Times'
    BY <1>0, <1>1, <2>1 DEF Times
  <2>4. Copied'
    BY <1>0, <1>1, <2>1 DEF Copied, Safe
  <2> QED
    BY <1>0, <2>2, <2>3, <2>4 DEF Copying
<1> QED
  BY <1>2, <1>3

LEMMA CopyingStep == Typed /\ Copying /\ [Next]_vars => Copying'
<1> SUFFICES ASSUME Typed, Copying, [Next]_vars PROVE Copying'
  OBVIOUS
<1>1. dir' = dir
  BY DEF Next, Step, vars, Begin, FTPMListOneFile, FTPFileSize, FTPFileModificationTime, GetDecide,
         GetStart, GetBlock, GetUtime, GetEnd, GetDelete, PutDecide, PutStart, PutBlock, PutEnd,
         PutRename, PutDeleteOld, PutUtime, PutDelete, Kill, RemoteReplaced, LocalEdited, Tick
<1>2. CASE dir # "get"
  BY <1>1, <1>2 DEF Copying
<1>3. CASE dir = "get"
  <2>1. CASE UNCHANGED vars
    BY <2>1 DEF vars, Copying, Known, Times, Copied, Safe, File1, Now
  <2>2. ~(PutDecide \/ PutStart \/ PutBlock \/ PutEnd \/ PutDelete \/ LocalEdited)
    BY <1>3 DEF PutDecide, PutStart, PutBlock, PutEnd, PutDelete, LocalEdited
  <2>3. ~(PutRename \/ PutDeleteOld \/ PutUtime)
    BY <1>3, GetFacts DEF PutRename, PutDeleteOld, PutUtime, Known
  <2> QED
    BY <1>3, <2>1, <2>2, <2>3, CopyingBegin, CopyingAsk, CopyingDecide, CopyingStart, CopyingBlock,
       CopyingEnd, CopyingStop, CopyingWorld DEF Next, Step
<1> QED
  BY <1>2, <1>3
LEMMA CopyingTells == Typed /\ Copying => CopyResumable
<1> SUFFICES ASSUME Typed, Copying, dir = "get", spoiled = {}, There(local), There(File1),
                    local.mtime = File1.mtime
             PROVE  IsPrefixOf(local.data, File1.data)
  BY DEF CopyResumable, File1
<1>1. Times /\ Copied /\ local.mtime \in Int /\ File1.mtime \in Int
  BY GetFacts
<1>2. server.mdtm
  <2>1. ASSUME ~server.mdtm PROVE FALSE
    <3>1. PICK k \in Int : local.mtime = 2 * k + 1
      BY <1>1, <2>1 DEF Times, Odd
    <3>2. PICK j \in Int : File1.mtime = 2 * j
      BY <1>1 DEF Times, Even
    <3>3. 2 * k + 1 = 2 * j
      BY <3>1, <3>2
    <3> QED
      BY <3>1, <3>2, <3>3
  <2> QED
    BY <2>1
<1> QED
  BY <1>1, <1>2 DEF Copied

(* Wherever a get fails or is killed, what it leaves under the time stamp  *)
(* of the remote file is a beginning of it, so that resuming by time and   *)
(* size is right (FTPGetOneF and its guess, io_get.c); if every server     *)
(* that gives a size by MLST also answers MDTM.                            *)
THEOREM CopiesResume == TimesTold /\ Spec => []CopyResumable
BY CopyingInit, CopyingStep, CopyingTells, TypedInit, TypedStep, PTL DEF Spec
(* A decision that the copy is already whole, made by comparing.           *)
LEMMA SameRight ==
  ASSUME Typed, Copying, dir = "get", pc = "decide", spoiled = {},
         There(local), call.mdtm # Unknown, NEW h, NEW c \in GetChoices(h), c[1] = "same"
  PROVE  local.data = File1.data
<1> DEFINE counted == {Len(local.data)} \cup (IF call.op.ascii THEN {Unknown} ELSE {})
<1>1. Known /\ Times /\ Copied /\ clock \in Nat /\ Now = 2 * clock + 1
      /\ local.mtime \in Int /\ File1.mtime \in Int /\ Recent \in Nat
      /\ local.data \in Seq(Block) /\ File1.data \in Seq(Block)
  BY GetFacts, BoundsAssumption
<1>2. \/ \E a \in Answers \cup {Wanted(h)} : c = <<a, Len(local.data)>>
      \/ \E n \in counted : c = <<GetGuess(h, n), n>>
  BY DEF GetChoices
<1>3. Wanted(h) # "same" /\ "same" \notin Answers
  BY DEF Wanted, Answers
<1>4. PICK n \in counted : c = <<GetGuess(h, n), n>>
  BY <1>2, <1>3
<1>5. GetGuess(h, n) = "same"
  BY <1>4
<1>6. call.size # Unknown /\ n = call.size
      /\ ~(TimesTell /\ call.mdtm < local.mtime) /\ ~(TimesTell /\ call.mdtm > local.mtime)
  BY <1>5 DEF GetGuess
<1>7. call.mdtm = File1.mtime /\ call.size = Len(File1.data) /\ server.mdtm /\ There(File1)
  BY <1>1, <1>6 DEF Known, Copied, There
<1>8. local.mtime >= File1.mtime
  BY <1>1, <1>6, <1>7 DEF TimesTell, Times
<1>9. Len(local.data) = Len(File1.data)
  BY <1>6, <1>7
<1>10. IsPrefixOf(local.data, File1.data)
  BY <1>1, <1>7, <1>8 DEF Copied
<1> DEFINE u == local.data
           v == File1.data
<1>11. u \in Seq(Block) /\ v \in Seq(Block) /\ Len(u) = Len(v) /\ \A i \in 1 .. Len(u) : u[i] = v[i]
  BY <1>1, <1>9, <1>10 DEF IsPrefixOf
<1> HIDE DEF u, v
<1>12. u = v
  BY <1>11
<1> QED
  BY <1>12 DEF u, v

LEMMA GetDeliversStep ==
  Typed /\ Copying /\ [Next]_vars
  => ((dir = "get" /\ Done /\ spoiled' = {} /\ (call.mdtm # Unknown \/ call.act = "overwrite"))
      => local'.data = remote["file"].data)
<1> SUFFICES ASSUME Typed, Copying, [Next]_vars, dir = "get", Done, spoiled' = {},
                    call.mdtm # Unknown \/ call.act = "overwrite"
             PROVE  local'.data = File1.data
  BY DEF File1
<1>1. Known /\ Copied /\ local.data \in Seq(Block) /\ Stamped(local).data = local.data
  BY GetFacts, StampedType
<1>2. pc \in {"decide", "xfer"} /\ pc' \in {"idle", "delete"} /\ result' \in {"ok", "same"}
  BY <1>1 DEF Done, Known
<1>3. GetDecide \/ GetEnd
  <2>1. ~UNCHANGED pc
    BY <1>2
  <2> QED
    BY <1>2, <2>1 DEF Next, Step, vars, Begin, FTPMListOneFile, FTPFileSize, FTPFileModificationTime,
         GetStart, GetBlock, GetUtime, GetDelete, PutDecide, PutStart, PutBlock, PutEnd, PutRename,
         PutDeleteOld, PutUtime, PutDelete, Kill, Return, Goto, RemoteReplaced, LocalEdited, Tick
<1>4. CASE GetEnd
  <2>1. call.src = <<>> /\ local' = Stamped(local) /\ spoiled = {} /\ pc = "xfer"
    BY <1>2, <1>4 DEF GetEnd, Return
  <2>2. Safe
    BY <1>1 DEF Safe, Known
  <2>3. local.data \o <<>> = File1.data
    BY <1>1, <2>1, <2>2 DEF Copied
  <2> QED
    BY <1>1, <2>1, <2>3
<1>5. CASE GetDecide
  <2> DEFINE h == FTPCheckForRestartModeAvailability
  <2>1. PICK c \in (IF There(local) THEN GetChoices(h) ELSE {<<"overwrite", 0>>}) :
          /\ GetAct(c[1], c[2])
          /\ spoiled' = IF c[1] = "overwrite" /\ pc' = "start" THEN {}
                        ELSE IF c[1] = "append" THEN spoiled \cup {"append"}
                        ELSE IF call.op.ask /\ c[1] = "resume" THEN spoiled \cup {"answer"}
                        ELSE spoiled
    BY <1>5 DEF GetDecide
  <2>2. spoiled = {} /\ c[1] # "append" /\ (c[1] = "resume" => ~call.op.ask)
    BY <1>2, <2>1
  <2>3. \/ c[1] = "same" /\ local' = local
        \/ c[1] = "resume" /\ c[2] = call.size /\ local' = local
    <3> DEFINE d == [call EXCEPT !.act = c[1], !.start = IF c[1] = "resume" THEN c[2] ELSE 0]
    <3>1. \A r, x : Return(r, x) => result' = r
      BY DEF Return
    <3>2. \A r : Finish(r, d) => result' = r
      BY DEF Finish, Return
    <3>3. Open("start", d, {"fd"}) => pc' = "start"
      BY DEF Open
    <3> HIDE DEF h
    <3>4. GetAct(c[1], c[2])
      BY <2>1
    <3> QED
      BY <1>2, <2>2, <3>1, <3>2, <3>3, <3>4 DEF GetAct
  <2>4. There(local) /\ c \in GetChoices(h)
    <3>1. <<"overwrite", 0>>[1] = "overwrite"
      OBVIOUS
    <3> QED
      BY <2>1, <2>3, <3>1
  <2>5. pc = "decide"
    BY <1>5 DEF GetDecide
  <2>6. c[1] # "resume"
    <3> SUFFICES ASSUME c[1] = "resume" PROVE FALSE
      OBVIOUS
    <3> HIDE DEF h
    <3>1. PICK n \in {Len(local.data)} \cup (IF call.op.ascii THEN {Unknown} ELSE {}) :
            c = <<GetGuess(h, n), n>> /\ GetGuess(h, n) = "resume"
      <4>1. \/ c = <<Wanted(h), Len(local.data)>>
            \/ \E n \in {Len(local.data)} \cup (IF call.op.ascii THEN {Unknown} ELSE {}) :
                 c = <<GetGuess(h, n), n>>
        BY <2>2, <2>4 DEF GetChoices
      <4>2. Wanted(h) # "resume"
        BY DEF Wanted
      <4> QED
        BY <4>1, <4>2
    <3>2. c[2] # call.size
      BY <3>1 DEF GetGuess
    <3> QED
      BY <2>3, <3>2
  <2>7. c[1] = "same" /\ local' = local
    BY <2>3, <2>6
  <2>8. call.mdtm # Unknown
    BY <1>1, <2>5 DEF Known
  <2> QED
    BY <2>2, <2>4, <2>5, <2>7, <2>8, SameRight
<1> QED
  BY <1>3, <1>4, <1>5
(* A get that returns well has the file: unless it was asked to append or  *)
(* told where to resume, REST failed, the remote file was replaced while   *)
(* it was read, or no time could be compared (FTPGetOneF, io_get.c).       *)
THEOREM GetsDeliver == TimesTold /\ Spec => GetDelivers
BY CopyingInit, CopyingStep, GetDeliversStep, TypedInit, TypedStep, PTL DEF Spec, GetDelivers
-----------------------------------------------------------------------------
(* The put.  Nobody else writes the file there, so that what the client    *)
(* asked still holds when it decides; but an upload may have been broken   *)
(* off anywhere, and the local file edited since.                          *)
Target == remote[Dst]

PutKnown ==
  /\ server.mdtm => has["MDTM"] # "notAvailable"
  /\ pc = "mdtm" => There(Target) /\ call.mdtm = Unknown
  /\ pc = "size" => call.mdtm = Unknown /\ call.size = Unknown
  /\ pc = "mdtm" => call.size = Len(Target.data)
  /\ pc = "decide" =>
       /\ call.mdtm \in {Unknown, Target.mtime}
       /\ (call.mdtm = Unknown /\ ~call.op.resume) \/ call.size \in {Unknown, Len(Target.data)}
       /\ server.mdtm /\ call.op.resume /\ call.size # Unknown => call.mdtm # Unknown
  /\ ~server.mdtm => call.mdtm = Unknown
  /\ pc \in {"size", "mdtm", "decide"} => call.act = "bestGuess"
  /\ pc = "old" => result = "renameFailed"
  /\ pc = "utime" => result \in {"ok", "renameFailed"}
  /\ pc # "idle" => There(local)
  /\ pc # "stamp"

PutTimes ==
  /\ \A f \in Names : remote[f].mtime <= Now
  /\ local.mtime <= Now

(* A remote file that is not older than the local one is a beginning of it *)
(* and what is on its way is the rest.                                     *)
Stowed ==
  /\ server.mdtm /\ spoiled = {} /\ There(local) /\ There(File1) /\ File1.mtime >= local.mtime =>
       IsPrefixOf(File1.data, local.data)
  /\ pc = "start" /\ ~call.op.tmp /\ (call.act = "overwrite" \/ (server.mdtm /\ spoiled = {})) =>
       Kept(File1.data) \o call.src = local.data
  /\ pc = "xfer" /\ ~call.op.tmp /\ Safe /\ spoiled = {} => File1.data \o call.src = local.data
  /\ pc \in {"start", "xfer", "rename", "old", "again", "utime"} /\ call.op.tmp /\ spoiled = {} =>
       call.act = "overwrite"
  /\ pc = "utime" /\ result = "ok" /\ Safe /\ spoiled = {} => File1.data = local.data

Storing == TimesTold /\ (dir = "put" => PutKnown /\ PutTimes /\ Stowed)

LEMMA PutFacts ==
  ASSUME Typed, Storing, dir = "put"
  PROVE  /\ PutKnown /\ PutTimes /\ Stowed
         /\ local \in File /\ File1 \in File /\ Target \in File /\ call \in Calls
         /\ clock \in Nat /\ Now = 2 * clock + 1
         /\ call.mdtm \in Int /\ local.mtime \in Int /\ File1.mtime \in Int
         /\ local.data \in Seq(Block) /\ File1.data \in Seq(Block)
         /\ Len(local.data) \in Nat /\ Len(File1.data) \in Nat
BY DstName DEF Typed, TypeOK, Storing, File1, File, Calls, Names, Now, Target

LEMMA StoringInit == TimesTold /\ Init => Storing
<1> SUFFICES ASSUME TimesTold, Init, dir = "put" PROVE PutKnown /\ PutTimes /\ Stowed
  BY DEF Storing
<1>1. PICK n \in 0..MaxSize : local = Content(2, n) /\ remote = [f \in Names |-> Gone]
  BY DEF Init
<1>2. local.mtime = 2 /\ (\A f \in Names : remote[f].mtime = -1) /\ clock = 1 /\ call.mdtm = -1
      /\ pc = "idle" /\ has["MDTM"] = "unknown" /\ File1.mtime = -1
  BY <1>1 DEF Init, File1, Gone, Content, Unknown, Names, NoCall, Call
<1>3. PutKnown
  BY <1>2 DEF PutKnown, Unknown
<1>4. PutTimes
  BY <1>2 DEF PutTimes, Now
<1>5. Stowed
  BY <1>2 DEF Stowed, There, Unknown
<1> QED
  BY <1>3, <1>4, <1>5

LEMMA StoringBegin == Typed /\ Storing /\ dir = "put" /\ Begin => Storing'
<1> SUFFICES ASSUME Typed, Storing, dir = "put", Begin PROVE Storing'
  OBVIOUS
<1>1. UNCHANGED <<dir, server, has, local, remote, clock, spoiled>>
  BY DEF Begin
<1>2. PutKnown /\ PutTimes /\ Stowed /\ clock \in Nat
  BY PutFacts
<1>3. PICK op \in Requests :
        \/ pc' = "idle" /\ call' = NoCall
        \/ There(local) /\ pc' = "size" /\ call' = Call(op, Unknown)
        \/ There(local) /\ ~op.resume /\ pc' = "decide" /\ call' = Call(op, 0)
  BY DEF Begin, Return
<1>4. \A n : Call(op, n).mdtm = Unknown /\ Call(op, n).size = n /\ Call(op, n).op = op
             /\ Call(op, n).act = "bestGuess"
  BY DEF Call
<1>5. NoCall.mdtm = Unknown
  BY DEF NoCall, Call
<1>6. call'.mdtm = Unknown /\ (pc' = "size" => call'.size = Unknown) /\ (pc' = "decide" => ~call'.op.resume)
      /\ (pc' # "idle" => There(local) /\ call'.act = "bestGuess") /\ pc' \in {"idle", "size", "decide"}
  BY <1>3, <1>4, <1>5
<1>7. PutKnown'
  BY <1>1, <1>2, <1>6 DEF PutKnown, There
<1>8. PutTimes'
  BY <1>1, <1>2 DEF PutTimes, Now
<1>9. Stowed'
  BY <1>1, <1>2, <1>6 DEF Stowed, File1, There
<1> QED
  BY <1>1, <1>7, <1>8, <1>9 DEF Storing

LEMMA StoringAsk ==
  Typed /\ Storing /\ dir = "put" /\ (FTPMListOneFile \/ FTPFileSize \/ FTPFileModificationTime) => Storing'
<1> SUFFICES ASSUME Typed, Storing, dir = "put", FTPMListOneFile \/ FTPFileSize \/ FTPFileModificationTime
             PROVE  Storing'
  OBVIOUS
<1>0. UNCHANGED <<dir, server, local, remote, clock, spoiled>> /\ pc \in {"size", "mdtm"}
  BY DEF FTPMListOneFile, FTPFileSize, FTPFileModificationTime
<1>1. PutKnown /\ PutTimes /\ Stowed /\ clock \in Nat /\ call \in Calls
  BY PutFacts
<1>2. server \in ServerKinds /\ (server.mlst => server.mdtm)
  BY ServersAssumption DEF Typed, TypeOK, Storing, TimesTold
<1>3. /\ server.mdtm => has'["MDTM"] # "notAvailable"
      /\ pc' \in {"mdtm", "decide"} /\ call'.op = call.op /\ call'.act = call.act
      /\ call'.mdtm \in {Unknown, Target.mtime} /\ call'.size \in {Unknown, Len(Target.data)}
      /\ pc' = "mdtm" => There(Target) /\ call'.mdtm = Unknown /\ call'.size = Len(Target.data)
      /\ pc' = "decide" /\ server.mdtm /\ call'.size # Unknown => call'.mdtm # Unknown
      /\ ~server.mdtm => call'.mdtm = Unknown
  <2>1. CASE FTPMListOneFile
    <3> DEFINE n == Len(Target.data)
               m == Target.mtime
    <3>1. /\ call' = [call EXCEPT !.size = n, !.mdtm = m]
          /\ pc' = "decide" /\ has' = has /\ server.mdtm /\ There(Target)
      BY <2>1, <1>2 DEF FTPMListOneFile, Goto, Target
    <3>2. m # Unknown /\ (server.mdtm => has["MDTM"] # "notAvailable")
      BY <3>1, <1>1 DEF There, PutKnown
    <3> HIDE DEF n, m
    <3>3. call'.mdtm = m /\ call'.op = call.op /\ call'.size = n /\ call'.act = call.act
      BY <3>1, <1>1 DEF Calls
    <3> QED
      BY <3>1, <3>2, <3>3 DEF n, m
  <2>2. CASE FTPFileSize
    <3>1. has'["MDTM"] = has["MDTM"]
      BY <2>2 DEF FTPFileSize, Query, Typed, TypeOK
    <3>2. call.mdtm = Unknown /\ call.size = Unknown
      BY <2>2, <1>1 DEF FTPFileSize, PutKnown
    <3>3. \/ There(Target) /\ pc' = "mdtm" /\ call' = [call EXCEPT !.size = Len(Target.data)]
          \/ pc' = "decide" /\ call' = call
      BY <2>2 DEF FTPFileSize, Goto, Answered, Target
    <3>4. /\ call'.mdtm = Unknown /\ call'.op = call.op /\ call'.act = call.act
          /\ pc' = "decide" => call'.size = Unknown
          /\ pc' = "mdtm" => call'.size = Len(Target.data)
      BY <3>2, <3>3, <1>1 DEF Calls
    <3> QED
      BY <3>1, <3>3, <3>4, <1>1 DEF PutKnown
  <2>3. CASE FTPFileModificationTime
    <3>1. server.mdtm => has'["MDTM"] # "notAvailable"
      BY <2>3, <1>1 DEF FTPFileModificationTime, Query, PutKnown, Typed, TypeOK
    <3>2. /\ pc = "mdtm" /\ pc' = "decide"
          /\ call' = IF Answered("MDTM", server.mdtm) THEN [call EXCEPT !.mdtm = Target.mtime] ELSE call
      BY <2>3 DEF FTPFileModificationTime, Goto, Target
    <3>3. Answered("MDTM", server.mdtm) <=> server.mdtm
      BY <3>2, <1>1 DEF Answered, PutKnown, Target
    <3>4. call'.op = call.op /\ call'.size = call.size /\ call'.act = call.act
          /\ call'.mdtm = IF server.mdtm THEN Target.mtime ELSE Unknown
      BY <3>2, <3>3, <1>1 DEF Calls, PutKnown
    <3>5. Target.mtime # Unknown /\ call.size = Len(Target.data)
      BY <3>2, <1>1 DEF PutKnown, There
    <3> QED
      BY <3>1, <3>2, <3>4, <3>5
  <2> QED
    BY <2>1, <2>2, <2>3
<1>4. Target' = Target
  BY <1>0, <1>3 DEF Target, Dst
<1>5. PutKnown'
  BY <1>0, <1>1, <1>3, <1>4 DEF PutKnown, There
<1>6. PutTimes'
  BY <1>0, <1>1 DEF PutTimes, Now
<1>7. Stowed'
  BY <1>0, <1>1, <1>3 DEF Stowed, File1, There
<1> QED
  BY <1>0, <1>5, <1>6, <1>7 DEF Storing
(* What is left of a remote file, said of the values it depends on.        *)
KeptBy(act, start, old) ==
  IF act = "append" \/ (start # 0 /\ ~RestTaken) THEN old
  ELSE SubSeq(old, 1, IF start < Len(old) THEN start ELSE Len(old))

(* A put that is resumed goes on where the remote file ends.               *)
LEMMA ResumeRight ==
  ASSUME NEW old \in Seq(Block), NEW new \in Seq(Block), IsPrefixOf(old, new),
         NEW act, NEW start \in Nat, NEW off \in Nat,
         act = "append" \/ start = Len(old), off = Len(old)
  PROVE  KeptBy(act, start, old) \o After(new, off) = new
<1>1. KeptBy(act, start, old) = old
  <2>1. Len(old) \in Nat
    OBVIOUS
  <2>2. SubSeq(old, 1, Len(old)) = old
    OBVIOUS
  <2> QED
    BY <2>1, <2>2 DEF KeptBy
<1> QED
  BY <1>1, PrefixRest

LEMMA AnewRight ==
  ASSUME NEW old \in Seq(Block), NEW new \in Seq(Block), NEW act, act # "append"
  PROVE  KeptBy(act, 0, old) \o After(new, 0) = new
<1>1. KeptBy(act, 0, old) = <<>>
  BY DEF KeptBy
<1> QED
  BY <1>1, AfterNone

(* A decision to resume, made by comparing.                                *)
LEMMA PutGuessRight ==
  ASSUME Typed, Storing, dir = "put", pc = "decide", server.mdtm, spoiled = {}, ~call.op.tmp,
         ~call.op.ask, NEW a \in PutChoices, a = "resume"
  PROVE  call.size = Len(File1.data) /\ call.size # Unknown /\ IsPrefixOf(File1.data, local.data)
<1>1. PutKnown /\ Stowed /\ Target = File1
  BY PutFacts DEF Target, Dst, File1
<1>2. a = PutGuess /\ call.op.resume
  BY DEF PutChoices, Wanted
<1>3. call.size # Unknown /\ ~(call.mdtm # Unknown /\ local.mtime > call.mdtm)
  BY <1>2 DEF PutGuess
<1>4. call.mdtm # Unknown /\ call.mdtm = File1.mtime /\ call.size = Len(File1.data)
  BY <1>1, <1>2, <1>3 DEF PutKnown
<1>5. There(File1) /\ There(local) /\ File1.mtime >= local.mtime
  BY <1>1, <1>3, <1>4, PutFacts DEF There, PutKnown
<1> QED
  BY <1>1, <1>3, <1>4, <1>5 DEF Stowed

LEMMA StoringDecide == Typed /\ Storing /\ PutDecide => Storing'
<1> SUFFICES ASSUME Typed, Storing, PutDecide PROVE Storing'
  OBVIOUS
<1>0. dir = "put" /\ pc = "decide" /\ UNCHANGED <<dir, server, local, remote, clock>>
  BY DEF PutDecide
<1>1. /\ PutKnown /\ PutTimes /\ Stowed /\ call \in Calls /\ clock \in Nat
      /\ local.data \in Seq(Block) /\ File1.data \in Seq(Block) /\ Len(File1.data) \in Nat
      /\ NoCall.mdtm = Unknown /\ 0 \in Nat
  BY <1>0, PutFacts DEF NoCall, Call
<1>2. has'["MDTM"] = has["MDTM"]
  BY DEF PutDecide, FTPCheckForRestartModeAvailability, Typed, TypeOK
<1>3. PICK a \in PutChoices :
        /\ PutAct(a)
        /\ spoiled' = spoiled
                      \cup (IF a = "append" THEN {"append"} ELSE {})
                      \cup (IF a = "resume" /\ call.op.ask THEN {"answer"} ELSE {})
                      \cup (IF call.op.tmp /\ a # "overwrite" THEN {"temp"} ELSE {})
  BY DEF PutDecide
<1>4. CASE pc' \in {"idle", "delete"}
  <2>1. call'.mdtm \in {call.mdtm, Unknown}
    <3> DEFINE c == [call EXCEPT !.act = a]
    <3>1. c.mdtm = call.mdtm
      BY <1>1 DEF Calls
    <3>2. \A r : Finish(r, c) => call' \in {c, NoCall}
      BY DEF Finish, Return
    <3>3. \A r, x : Return(r, x) => call' = NoCall
      BY DEF Return
    <3>4. \A b, s, off : PutFrom(b, s, off) => pc' = "start"
      BY DEF PutFrom, Goto
    <3> HIDE DEF c
    <3>5. call' \in {c, NoCall}
      BY <1>3, <1>4, <3>2, <3>3, <3>4 DEF PutAct, c
    <3> QED
      BY <1>1, <3>1, <3>5
  <2>2. PutKnown'
    BY <1>0, <1>1, <1>2, <1>4, <2>1 DEF PutKnown
  <2>3. PutTimes'
    BY <1>0, <1>1 DEF PutTimes, Now
  <2>4. spoiled' = {} => spoiled = {}
    BY <1>3
  <2>5. Stowed'
    BY <1>0, <1>1, <1>4, <2>4 DEF Stowed, File1, There
  <2> QED
    BY <1>0, <2>2, <2>3, <2>5 DEF Storing
<1>5. CASE pc' = "start"
  <2>1. PICK b, s, off :
          /\ PutFrom(b, s, off)
          /\ \/ b = a /\ a \in {"append", "overwrite"} /\ s = 0 /\ off = 0
             \/ a = "resume" /\ b = "resume" /\ s = 0 /\ off = 0
             \/ a = "resume" /\ b = "resume" /\ s = call.size /\ off = call.size
             \/ a = "resume" /\ b = "append" /\ s = 0 /\ off = call.size
    <3>1. \A r, c : Finish(r, c) => pc' # "start"
      BY DEF Finish, Return
    <3>2. \A r, x : Return(r, x) => pc' # "start"
      BY DEF Return
    <3> QED
      BY <1>3, <1>5, <3>1, <3>2 DEF PutAct
  <2> DEFINE rest == After(local.data, off)
  <2>2. call' = [call EXCEPT !.act = b, !.start = s, !.src = rest]
    BY <2>1 DEF PutFrom, Goto
  <2> HIDE DEF rest
  <2>3. call'.act = b /\ call'.start = s /\ call'.src = rest /\ call'.op = call.op /\ call'.mdtm = call.mdtm
    BY <1>1, <2>2 DEF Calls
  <2>4. PutKnown'
    BY <1>0, <1>1, <1>2, <1>5, <2>3 DEF PutKnown, There
  <2>5. PutTimes'
    BY <1>0, <1>1 DEF PutTimes, Now
  <2>6. RestTaken' = RestTaken
    BY <1>0, <2>3 DEF RestTaken
  <2>7. Kept(File1.data)' = KeptBy(b, s, File1.data)
    BY <1>0, <2>3, <2>6 DEF Kept, KeptBy, File1
  <2>8. ASSUME ~call.op.tmp, b = "overwrite" \/ (server.mdtm /\ spoiled' = {})
        PROVE  KeptBy(b, s, File1.data) \o rest = local.data
    <3>1. CASE s = 0 /\ off = 0 /\ b # "append"
      BY <1>1, <3>1, AnewRight DEF rest
    <3>2. CASE ~(s = 0 /\ off = 0 /\ b # "append")
      <4>1. a # "append"
        <5>1. a = "append" => b = "append" /\ spoiled' # {}
          BY <1>3, <2>1
        <5> QED
          BY <5>1, <2>8
      <4>2. a = "resume" /\ b \in {"resume", "append"} /\ off = call.size /\ (b = "append" \/ s = call.size)
        BY <2>1, <3>2, <4>1
      <4>3. server.mdtm /\ spoiled = {} /\ ~call.op.ask
        BY <1>3, <2>8, <4>2
      <4>4. call.size = Len(File1.data) /\ IsPrefixOf(File1.data, local.data)
        BY <1>0, <2>8, <4>2, <4>3, PutGuessRight
      <4>5. s \in Nat /\ off \in Nat
        BY <1>1, <2>1, <4>2, <4>4
      <4>6. (b = "append" \/ s = Len(File1.data)) /\ off = Len(File1.data)
        BY <4>2, <4>4
      <4> DEFINE old == File1.data
                 new == local.data
      <4>7. old \in Seq(Block) /\ new \in Seq(Block) /\ IsPrefixOf(old, new)
            /\ (b = "append" \/ s = Len(old)) /\ off = Len(old)
        BY <1>1, <4>4, <4>6
      <4> HIDE DEF old, new
      <4>8. KeptBy(b, s, old) \o After(new, off) = new
        BY <4>5, <4>7, ResumeRight
      <4> QED
        BY <4>8 DEF rest, old, new
    <3> QED
      BY <3>1, <3>2
  <2>9. call.op.tmp /\ spoiled' = {} => b = "overwrite"
    BY <1>3, <2>1
  <2>10. spoiled' = {} => spoiled = {}
    BY <1>3
  <2>11. Stowed'
    <3>1. pc' = "start" /\ File1' = File1
      BY <1>0, <1>5 DEF File1
    <3>2. (server.mdtm /\ spoiled = {} /\ There(local) /\ There(File1) /\ File1.mtime >= local.mtime =>
             IsPrefixOf(File1.data, local.data))
      BY <1>1 DEF Stowed
    <3> QED
      BY <1>0, <2>3, <2>7, <2>8, <2>9, <2>10, <3>1, <3>2 DEF Stowed, There
  <2> QED
    BY <1>0, <2>4, <2>5, <2>11 DEF Storing
<1>6. pc' \in {"idle", "delete", "start"}
  <2>1. \A r, c : Finish(r, c) => pc' \in {"idle", "delete"}
    BY DEF Finish, Return
  <2>2. \A r, x : Return(r, x) => pc' = "idle"
    BY DEF Return
  <2>3. \A b, s, off : PutFrom(b, s, off) => pc' = "start"
    BY DEF PutFrom, Goto
  <2> QED
    BY <1>3, <2>1, <2>2, <2>3 DEF PutAct
<1> QED
  BY <1>4, <1>5, <1>6
LEMMA StoringStart == Typed /\ Storing /\ PutStart => Storing'
<1> SUFFICES ASSUME Typed, Storing, PutStart PROVE Storing'
  OBVIOUS
<1>0. dir = "put" /\ pc = "start" /\ UNCHANGED <<dir, server, local, clock>>
  BY DEF PutStart
<1>1. /\ PutKnown /\ PutTimes /\ Stowed /\ clock \in Nat /\ Now \in Int /\ NoCall.mdtm = Unknown
      /\ File1 \in File /\ Dst \in Names /\ remote \in [Names -> File]
  BY <1>0, PutFacts, DstName DEF NoCall, Call, Typed
<1>2. has'["MDTM"] = has["MDTM"]
  BY DEF PutStart, RestTried, Typed, TypeOK
<1>3. CASE pc' = "idle"
  <2>1. call' = NoCall /\ UNCHANGED <<remote, spoiled>>
    BY <1>3 DEF PutStart, Open, Return
  <2>2. PutKnown'
    BY <1>0, <1>1, <1>2, <1>3, <2>1 DEF PutKnown
  <2>3. PutTimes'
    BY <1>0, <1>1, <2>1 DEF PutTimes, Now
  <2>4. Stowed'
    BY <1>0, <1>1, <1>3, <2>1 DEF Stowed, File1, There
  <2> QED
    BY <1>0, <2>2, <2>3, <2>4 DEF Storing
<1>4. CASE pc' = "xfer"
  <2>1. call' = call /\ (spoiled' = IF call.act = "overwrite" /\ ~call.op.tmp THEN {} ELSE spoiled)
        /\ remote' = (IF There(remote[Dst]) /\ Kept(remote[Dst].data) = remote[Dst].data THEN remote
                      ELSE [remote EXCEPT ![Dst] = [data |-> Kept(remote[Dst].data), mtime |-> Now]])
    BY <1>4 DEF PutStart, Open, Return
  <2>2. PutKnown'
    BY <1>0, <1>1, <1>2, <1>4, <2>1 DEF PutKnown, There
  <2>3. PutTimes'
    BY <1>0, <1>1, <2>1 DEF PutTimes, Now
  <2>4. CASE call.op.tmp
    <3>1. Dst = "temp" /\ File1' = File1 /\ spoiled' = spoiled
      BY <1>0, <1>1, <2>1, <2>4 DEF Dst, File1, Names
    <3>2. Stowed'
      BY <1>0, <1>1, <1>4, <2>1, <2>4, <3>1 DEF Stowed, There
    <3> QED
      BY <1>0, <2>2, <2>3, <3>2 DEF Storing
  <2>5. CASE ~call.op.tmp
    <3>1. Dst = "file" /\ File1'.data = Kept(File1.data)
      BY <1>1, <2>1, <2>5 DEF Dst, File1, Names
    <3>2. ASSUME spoiled' = {}, Safe
          PROVE  Kept(File1.data) \o call.src = local.data /\ IsPrefixOf(Kept(File1.data), local.data)
      <4>1. call.act = "overwrite" \/ (server.mdtm /\ spoiled = {})
        BY <2>1, <2>5, <3>2 DEF Safe
      <4>2. Kept(File1.data) \o call.src = local.data
        BY <1>0, <1>1, <2>5, <4>1 DEF Stowed
      <4>3. Kept(File1.data) \in Seq(Block) /\ call.src \in Seq(Block)
        BY <1>1, KeptType DEF File, Typed, Calls
      <4> QED
        BY <4>2, <4>3, PrefixOfAll
    <3>3. Safe' = Safe
      BY <1>0, <2>1 DEF Safe
    <3>4. server.mdtm => Safe
      BY DEF Safe
    <3>5. Stowed'
      BY <1>0, <1>4, <2>1, <2>5, <3>1, <3>2, <3>3, <3>4 DEF Stowed
    <3> QED
      BY <1>0, <2>2, <2>3, <3>5 DEF Storing
  <2> QED
    BY <2>4, <2>5
<1> QED
  BY <1>3, <1>4 DEF PutStart, Open, Return

LEMMA StoringBlock == Typed /\ Storing /\ PutBlock => Storing'
<1> SUFFICES ASSUME Typed, Storing, PutBlock PROVE Storing'
  OBVIOUS
<1>0. dir = "put" /\ pc = "xfer" /\ pc' = "xfer" /\ call.src # <<>>
      /\ UNCHANGED <<dir, server, has, local, clock, spoiled, result>>
      /\ remote' = [remote EXCEPT ![Dst] = Grown(remote[Dst], Head(call.src))]
      /\ call' = [call EXCEPT !.src = Tail(call.src)]
  BY DEF PutBlock, Goto
<1>1. /\ PutKnown /\ PutTimes /\ Stowed /\ clock \in Nat /\ Now \in Int /\ call \in Calls
      /\ File1.data \in Seq(Block) /\ call.src \in Seq(Block)
      /\ Dst \in Names /\ remote \in [Names -> File]
  BY <1>0, PutFacts, DstName DEF Typed, Calls
<1>2. call'.op = call.op /\ call'.act = call.act /\ call'.mdtm = call.mdtm /\ call'.src = Tail(call.src)
  BY <1>0, <1>1 DEF Calls
<1>3. PutKnown'
  BY <1>0, <1>1, <1>2 DEF PutKnown, There
<1>4. PutTimes'
  BY <1>0, <1>1 DEF PutTimes, Now, Grown
<1>5. CASE call.op.tmp
  <2>1. File1' = File1
    BY <1>0, <1>1, <1>5 DEF Dst, File1, Names
  <2>2. Stowed'
    BY <1>0, <1>1, <1>2, <1>5, <2>1 DEF Stowed, There
  <2> QED
    BY <1>0, <1>3, <1>4, <2>2 DEF Storing
<1>6. CASE ~call.op.tmp
  <2> DEFINE t == call.src
             f == File1.data
  <2>1. File1'.data = Append(f, Head(t))
    BY <1>0, <1>1, <1>6 DEF Dst, File1, Names, Grown
  <2>2. t \in Seq(Block) /\ f \in Seq(Block) /\ t # <<>>
    BY <1>0, <1>1
  <2>3. (spoiled = {} /\ Safe) => f \o t = local.data
    BY <1>0, <1>1, <1>6 DEF Stowed
  <2> HIDE DEF t, f
  <2>4. Append(f, Head(t)) \o Tail(t) = f \o t /\ Head(t) \in Block /\ Tail(t) \in Seq(Block)
    BY <2>2, Moved
  <2>5. Append(f, Head(t)) \in Seq(Block)
    BY <2>2, <2>4
  <2>6. ASSUME spoiled = {}, Safe
        PROVE  Append(f, Head(t)) \o Tail(t) = local.data /\ IsPrefixOf(Append(f, Head(t)), local.data)
    BY <2>3, <2>4, <2>5, <2>6, PrefixOfAll
  <2>7. Safe' = Safe /\ (server.mdtm => Safe) /\ call'.src = Tail(t)
    BY <1>0, <1>2 DEF Safe, t
  <2>8. Stowed'
    BY <1>0, <1>2, <1>6, <2>1, <2>6, <2>7 DEF Stowed
  <2> QED
    BY <1>0, <1>3, <1>4, <2>8 DEF Storing
<1> QED
  BY <1>5, <1>6

LEMMA StoringEnd == Typed /\ Storing /\ PutEnd => Storing'
<1> SUFFICES ASSUME Typed, Storing, PutEnd PROVE Storing'
  OBVIOUS
<1>0. dir = "put" /\ pc = "xfer" /\ UNCHANGED <<dir, server, has, local, remote, clock, spoiled>>
  BY DEF PutEnd
<1>1. PutKnown /\ PutTimes /\ Stowed /\ clock \in Nat /\ NoCall.mdtm = Unknown /\ File1.data \in Seq(Block)
  BY <1>0, PutFacts DEF NoCall, Call
<1>2. \/ pc' = "idle" /\ call' = NoCall
      \/ /\ call' = call /\ call.src = <<>>
         /\ pc' = "rename" \/ (pc' = "utime" /\ result' = "ok" /\ (call.op.tmp => call.act = "append"))
  BY DEF PutEnd, Stored, Return
<1>3. PutKnown'
  BY <1>0, <1>1, <1>2 DEF PutKnown, There
<1>4. PutTimes'
  BY <1>0, <1>1 DEF PutTimes, Now
<1>5. File1' = File1 /\ File1.data \o <<>> = File1.data
  BY <1>0, <1>1 DEF File1
<1>6. CASE pc' = "idle"
  BY <1>0, <1>1, <1>3, <1>4, <1>5, <1>6 DEF Storing, Stowed, There
<1>7. CASE pc' # "idle"
  <2>1. call' = call /\ call.src = <<>> /\ pc' \in {"rename", "utime"}
        /\ (pc' = "utime" => (call.op.tmp => call.act = "append"))
    BY <1>2, <1>7
  <2>2. ASSUME pc' = "utime", Safe, spoiled = {} PROVE File1.data = local.data
    <3>1. ~call.op.tmp
      BY <1>0, <1>1, <2>1, <2>2 DEF Stowed
    <3> QED
      BY <1>0, <1>1, <1>5, <2>1, <2>2, <3>1 DEF Stowed
  <2>3. Safe' = Safe
    BY <1>0, <2>1 DEF Safe
  <2>4. Stowed'
    BY <1>0, <1>1, <1>5, <2>1, <2>2, <2>3 DEF Stowed, There
  <2> QED
    BY <1>0, <1>3, <1>4, <2>4 DEF Storing
<1> QED
  BY <1>6, <1>7
LEMMA StoringRename ==
  Typed /\ Upload /\ Storing /\ dir = "put" /\ (PutRename \/ PutDeleteOld) => Storing'
<1> SUFFICES ASSUME Typed, Upload, Storing, dir = "put", PutRename \/ PutDeleteOld PROVE Storing'
  OBVIOUS
<1>0. /\ UNCHANGED <<dir, server, has, local, clock, call>>
      /\ pc \in {"rename", "old", "again"} /\ pc' \in {"old", "again", "utime"}
      /\ pc' = "old" => result' = "renameFailed"
      /\ pc' = "utime" => result' \in {"ok", "renameFailed"}
  <2>1. pc = "old" => result = "renameFailed"
    BY PutFacts DEF PutKnown
  <2> QED
    BY <2>1 DEF PutRename, PutDeleteOld
<1>1. /\ PutKnown /\ PutTimes /\ Stowed /\ clock \in Nat /\ Now \in Int /\ call.op.tmp
      /\ local.data \in Seq(Block) /\ remote \in [Names -> File]
  BY <1>0, PutFacts DEF Typed, TypeOK
<1>2. PutKnown'
  BY <1>0, <1>1 DEF PutKnown, There
<1>3. \/ remote' = remote
      \/ remote' = [remote EXCEPT !["file"] = remote["temp"], !["temp"] = Gone]
      \/ remote' = [remote EXCEPT !["file"] = Gone]
  BY DEF PutRename, PutDeleteOld
<1>4. PutTimes'
  <2>1. Gone.mtime <= Now
    BY <1>1, PutFacts DEF Gone, Unknown
  <2> QED
    BY <1>0, <1>1, <1>3, <2>1 DEF PutTimes, Now, Names
<1>5. CASE PutRename /\ pc' = "utime" /\ result' = "ok"
  <2>1. remote' = [remote EXCEPT !["file"] = remote["temp"], !["temp"] = Gone]
        /\ spoiled' = IF call.act = "overwrite" THEN {} ELSE spoiled
    BY <1>5 DEF PutRename
  <2>2. File1' = remote["temp"]
    BY <1>1, <2>1 DEF File1, Names
  <2>3. ASSUME spoiled' = {} PROVE call.act = "overwrite" /\ File1'.data = local.data
    <3>1. call.act = "overwrite"
      BY <1>0, <1>1, <2>1, <2>3 DEF Stowed
    <3>2. remote["temp"].data = local.data
      BY <1>0, <1>1, <3>1 DEF Upload, Uploading
    <3> QED
      BY <2>2, <3>1, <3>2
  <2>5. IsPrefixOf(local.data, local.data)
    BY <1>1, PrefixSelf
  <2>6. Stowed'
    BY <1>0, <1>5, <2>3, <2>5 DEF Stowed
  <2> QED
    BY <1>0, <1>2, <1>4, <2>6 DEF Storing
<1>6. CASE ~(PutRename /\ pc' = "utime" /\ result' = "ok")
  <2>1. spoiled' = spoiled /\ File1' \in {File1, Gone} /\ (pc' = "utime" => result' # "ok")
    BY <1>0, <1>1, <1>6 DEF PutRename, PutDeleteOld, File1, Names, PutKnown
  <2>2. Stowed'
    BY <1>0, <1>1, <2>1 DEF Stowed, There, Gone
  <2> QED
    BY <1>0, <1>2, <1>4, <2>2 DEF Storing
<1> QED
  BY <1>5, <1>6

LEMMA StoringUtime == Typed /\ Storing /\ dir = "put" /\ (PutUtime \/ PutDelete \/ Kill) => Storing'
<1> SUFFICES ASSUME Typed, Storing, dir = "put", PutUtime \/ PutDelete \/ Kill PROVE Storing'
  OBVIOUS
<1>0. UNCHANGED <<dir, server, has, clock>> /\ pc' \in {"idle", "delete"} /\ call' \in {call, NoCall}
      /\ (pc' = "delete" => pc = "utime" /\ local' = local)
  BY DEF PutUtime, PutDelete, Kill, Finish, Return
<1>1. PutKnown /\ PutTimes /\ Stowed /\ clock \in Nat /\ Now \in Int /\ NoCall.mdtm = Unknown
      /\ remote \in [Names -> File] /\ File1 \in File /\ local \in File
  BY PutFacts DEF NoCall, Call, Typed
<1>2. PutKnown'
  BY <1>0, <1>1 DEF PutKnown, There
<1>3. CASE PutUtime
  <2>1. local' = local /\ pc = "utime"
        /\ remote' = (IF server.utime /\ There(remote["file"])
                        THEN [remote EXCEPT !["file"].mtime = local.mtime] ELSE remote)
        /\ spoiled' = (IF remote' # remote /\ result # "ok" THEN spoiled \cup {"stamped"} ELSE spoiled)
    BY <1>3 DEF PutUtime
  <2>2. PutTimes'
    BY <1>0, <1>1, <2>1 DEF PutTimes, Now, Names, File
  <2>3. File1'.data = File1.data /\ (remote' = remote => File1' = File1)
    BY <1>1, <2>1 DEF File1, Names, File
  <2>4. Stowed'
    <3> SUFFICES ASSUME spoiled' = {}, server.mdtm, There(local), There(File1'), File1'.mtime >= local.mtime
                 PROVE  IsPrefixOf(File1.data, local.data)
      BY <1>0, <2>1, <2>3 DEF Stowed, There
    <3>1. spoiled = {}
      BY <2>1
    <3>2. CASE result = "ok"
      <4>1. File1.data = local.data
        BY <1>1, <2>1, <3>1, <3>2 DEF Stowed, Safe
      <4>2. local.data \in Seq(Block)
        BY <1>1 DEF File
      <4> QED
        BY <4>1, <4>2, PrefixSelf
    <3>3. CASE result # "ok"
      BY <1>1, <2>1, <2>3, <3>1, <3>3 DEF Stowed
    <3> QED
      BY <3>2, <3>3
  <2> QED
    BY <1>0, <1>2, <2>2, <2>4 DEF Storing
<1>4. CASE PutDelete \/ Kill
  <2>1. local' \in {local, Gone} /\ UNCHANGED <<remote, spoiled>> /\ File1' = File1 /\ pc' = "idle"
    BY <1>4 DEF PutDelete, Kill, Return, File1
  <2>2. Gone.mtime = -1 /\ ~There(Gone) /\ -1 <= Now
    BY <1>1, PutFacts DEF Gone, There, Unknown
  <2>3. PutTimes'
    BY <1>0, <1>1, <2>1, <2>2 DEF PutTimes, Now
  <2>4. Stowed'
    BY <1>0, <1>1, <2>1, <2>2 DEF Stowed
  <2> QED
    BY <1>0, <1>2, <2>3, <2>4 DEF Storing
<1> QED
  BY <1>3, <1>4

LEMMA StoringWorld == Typed /\ Storing /\ dir = "put" /\ (LocalEdited \/ Tick) => Storing'
<1> SUFFICES ASSUME Typed, Storing, dir = "put", LocalEdited \/ Tick PROVE Storing'
  OBVIOUS
<1>0. UNCHANGED <<dir, server, has, remote, pc, call, result, spoiled>> /\ clock' = clock + 1
  BY DEF LocalEdited, Tick
<1>1. PutKnown /\ PutTimes /\ Stowed /\ clock \in Nat /\ Now = 2 * clock + 1 /\ Now' = Now + 2
      /\ local.mtime \in Int /\ File1.mtime \in Int /\ (\A f \in Names : remote[f].mtime \in Int)
      /\ File1.mtime <= Now /\ File1' = File1
  BY <1>0, PutFacts DEF Now, Typed, File, PutTimes, File1, Names
<1>2. CASE LocalEdited
  <2>1. local'.mtime = 2 * (clock + 1) /\ pc = "idle"
    BY <1>0, <1>2 DEF LocalEdited, Content
  <2>2. PutTimes'
    BY <1>0, <1>1, <2>1 DEF PutTimes
  <2>3. PutKnown'
    BY <1>0, <1>1, <2>1 DEF PutKnown
  <2>4. Stowed'
    BY <1>0, <1>1, <2>1 DEF Stowed
  <2> QED
    BY <1>0, <2>2, <2>3, <2>4 DEF Storing
<1>3. CASE Tick
  <2>1. local' = local
    BY <1>3 DEF Tick
  <2>2. PutTimes'
    BY <1>0, <1>1, <2>1 DEF PutTimes
  <2>3. PutKnown'
    BY <1>0, <1>1, <2>1 DEF PutKnown, There, Target, Dst
  <2>4. Stowed'
    BY <1>0, <1>1, <2>1 DEF Stowed, There, Safe, Kept, RestTaken
  <2> QED
    BY <1>0, <2>2, <2>3, <2>4 DEF Storing
<1> QED
  BY <1>2, <1>3

LEMMA StoringStep == Typed /\ Upload /\ Storing /\ [Next]_vars => Storing'
<1> SUFFICES ASSUME Typed, Upload, Storing, [Next]_vars PROVE Storing'
  OBVIOUS
<1>1. dir' = dir
  BY DEF Next, Step, vars, Begin, FTPMListOneFile, FTPFileSize, FTPFileModificationTime, GetDecide,
         GetStart, GetBlock, GetUtime, GetEnd, GetDelete, PutDecide, PutStart, PutBlock, PutEnd,
         PutRename, PutDeleteOld, PutUtime, PutDelete, Kill, RemoteReplaced, LocalEdited, Tick
<1>2. CASE dir # "put"
  BY <1>1, <1>2 DEF Storing
<1>3. CASE dir = "put"
  <2>1. CASE UNCHANGED vars
    <3>1. Kept(File1.data)' = Kept(File1.data)
      BY <2>1 DEF vars, Kept, RestTaken, File1
    <3>2. PutKnown' <=> PutKnown
      BY <2>1 DEF vars, PutKnown, Target, Dst, There
    <3>3. PutTimes' <=> PutTimes
      BY <2>1 DEF vars, PutTimes, Now
    <3>4. Stowed' <=> Stowed
      BY <2>1, <3>1 DEF vars, Stowed, Safe, File1, There
    <3> QED
      BY <2>1, <3>2, <3>3, <3>4 DEF vars, Storing
  <2>2. ~(GetDecide \/ GetStart \/ GetBlock \/ GetUtime \/ GetEnd \/ GetDelete \/ RemoteReplaced)
    BY <1>3, PutFacts DEF GetDecide, GetStart, GetBlock, GetUtime, GetEnd, GetDelete, RemoteReplaced, PutKnown
  <2>3. CASE Begin \/ FTPMListOneFile \/ FTPFileSize \/ FTPFileModificationTime
    BY <1>3, <2>3, StoringBegin, StoringAsk
  <2>4. CASE PutDecide \/ PutStart \/ PutBlock \/ PutEnd
    BY <2>4, StoringDecide, StoringStart, StoringBlock, StoringEnd
  <2>5. CASE PutRename \/ PutDeleteOld
    BY <1>3, <2>5, StoringRename
  <2>6. CASE PutUtime \/ PutDelete \/ Kill
    BY <1>3, <2>6, StoringUtime
  <2>7. CASE LocalEdited \/ Tick
    BY <1>3, <2>7, StoringWorld
  <2> QED
    BY <2>1, <2>2, <2>3, <2>4, <2>5, <2>6, <2>7 DEF Next, Step
<1> QED
  BY <1>2, <1>3

LEMMA PutDeliversStep ==
  Typed /\ Storing /\ [Next]_vars
  => ((dir = "put" /\ Done /\ spoiled' = {} /\ (call.mdtm # Unknown \/ call.act = "overwrite"))
      => remote'["file"].data = local.data)
<1> SUFFICES ASSUME Typed, Storing, [Next]_vars, dir = "put", Done, spoiled' = {},
                    call.mdtm # Unknown \/ call.act = "overwrite"
             PROVE  remote'["file"].data = local.data
  OBVIOUS
<1>1. PutKnown /\ Stowed /\ local.data \in Seq(Block) /\ File1.data \in Seq(Block)
      /\ remote \in [Names -> File] /\ local.mtime \in Int
  BY PutFacts DEF Typed
<1>2. pc \in {"decide", "xfer", "utime"} /\ pc' \in {"idle", "delete"} /\ result' \in {"ok", "same"}
  BY DEF Done
<1>3. PutDecide \/ PutUtime
  <2>1. ~UNCHANGED pc
    BY <1>2
  <2> QED
    BY <1>2, <2>1 DEF Next, Step, vars, Begin, FTPMListOneFile, FTPFileSize, FTPFileModificationTime,
         GetDecide, GetStart, GetBlock, GetUtime, GetEnd, GetDelete, PutStart, PutBlock, PutEnd, Stored,
         PutRename, PutDeleteOld, PutDelete, Kill, Return, Goto, RemoteReplaced, LocalEdited, Tick
<1>4. Safe
  BY <1>1 DEF Safe, PutKnown
<1>5. CASE PutUtime
  <2>1. result = "ok" /\ spoiled = {} /\ pc = "utime"
    <3>1. result # "ok" => result' = result
      BY <1>5 DEF PutUtime, Return
    <3>2. result # "same"
      BY <1>1, <1>5 DEF PutUtime, PutKnown
    <3> QED
      BY <1>2, <1>5, <3>1, <3>2 DEF PutUtime
  <2>2. File1.data = local.data
    BY <1>1, <1>4, <2>1 DEF Stowed
  <2> QED
    BY <1>1, <1>5, <2>2 DEF PutUtime, File1, Names, File
<1>6. CASE PutDecide
  <2>1. PICK a \in PutChoices :
          /\ PutAct(a)
          /\ spoiled' = spoiled
                        \cup (IF a = "append" THEN {"append"} ELSE {})
                        \cup (IF a = "resume" /\ call.op.ask THEN {"answer"} ELSE {})
                        \cup (IF call.op.tmp /\ a # "overwrite" THEN {"temp"} ELSE {})
    BY <1>6 DEF PutDecide
  <2>2. spoiled = {} /\ pc = "decide" /\ remote' = remote
    BY <1>6, <2>1 DEF PutDecide
  <2>3. a = "same" \/ (a = "resume" /\ call.size = Len(local.data))
    <3> DEFINE c == [call EXCEPT !.act = a]
    <3>1. \A r, x : Return(r, x) => result' = r
      BY DEF Return
    <3>2. \A r : Finish(r, c) => result' = r
      BY DEF Finish, Return
    <3>3. \A b, s, off : PutFrom(b, s, off) => pc' = "start"
      BY DEF PutFrom, Goto
    <3> HIDE DEF c
    <3> QED
      BY <1>2, <2>1, <3>1, <3>2, <3>3 DEF PutAct, c
  <2>4. ~call.op.tmp /\ (a = "resume" => ~call.op.ask)
    BY <2>1, <2>3
  <2>5. a = PutGuess
    BY <2>3, <2>4 DEF PutChoices, Wanted, Answers
  <2>6. a = "same" /\ Len(local.data) = call.size /\ ~(call.mdtm # Unknown /\ local.mtime > call.mdtm)
    BY <2>3, <2>5 DEF PutGuess
  <2>7. call.mdtm # Unknown /\ Target = File1
    BY <1>1, <2>2, <2>4 DEF PutKnown, Target, Dst, File1
  <2>8. call.mdtm = File1.mtime /\ call.size = Len(File1.data) /\ server.mdtm
    <3>1. Len(local.data) \in Nat
      BY <1>1
    <3> QED
      BY <1>1, <2>2, <2>6, <2>7, <3>1 DEF PutKnown, Unknown
  <2>9. There(File1) /\ There(local) /\ File1.mtime >= local.mtime
    BY <1>1, <2>2, <2>6, <2>7, <2>8, PutFacts DEF There, PutKnown
  <2>10. IsPrefixOf(File1.data, local.data)
    BY <1>1, <2>2, <2>8, <2>9 DEF Stowed
  <2> DEFINE u == File1.data
             v == local.data
  <2>11. u \in Seq(Block) /\ v \in Seq(Block) /\ Len(u) = Len(v) /\ \A i \in 1 .. Len(u) : u[i] = v[i]
    BY <1>1, <2>6, <2>8, <2>10 DEF IsPrefixOf
  <2> HIDE DEF u, v
  <2>12. u = v
    BY <2>11
  <2> QED
    BY <2>2, <2>12 DEF u, v, File1
<1> QED
  BY <1>3, <1>5, <1>6

(* The same of a put: what the server has under the name, when a put has   *)
(* returned well, is the local file (FTPPutOneF, io_put.c).                *)
THEOREM PutsDeliver == TimesTold /\ Spec => PutDelivers
<1>1. Init => Upload
  BY DEF Init, Upload
<1> QED
  BY <1>1, StoringInit, StoringStep, PutDeliversStep, TypedInit, TypedStep, UploadStep, PTL DEF Spec, PutDelivers
-----------------------------------------------------------------------------
(***************************************************************************)
(* StreamTransfer.                                                         *)
(***************************************************************************)
Kinds     == {"none", "getmem", "putmem", "gettar"}
Arguments == [kind : Kinds, start : Int, limit : 0..MaxBlocks, delete : BOOLEAN, next : Int,
              apart : BOOLEAN, ok : {"ok", "nothing"}]

(* The buffer holds what was read from the start on, and no more than was  *)
(* asked for.                                                              *)
Reading ==
  /\ rfile \in Int /\ buf \in Seq(Int) /\ Len(buf) <= MaxBlocks /\ arg \in Arguments
  /\ spc \in {"ssize", "sretr"} => buf = <<>>
  /\ spc = "sread" =>
       /\ arg.next = arg.start + Len(buf) /\ Len(buf) <= arg.limit
       /\ buf = Seg(arg.start, arg.next)
       /\ arg.next <= rfile \/ buf = <<>>

(* What is open and where the server is, when no transfer is under way.    *)
Closed ==
  /\ sopen \subseteq {"data", "pipe", "child"}
  /\ spc \in {"idle", "ssize", "sretr", "sdelete", "tcwd", "topen"} => sopen \subseteq left

Returned ==
  spc \notin {"topen", "tretr", "tread"} => rcwd = "start" \/ "cwd" \in left

LEMMA SegType ==
  ASSUME NEW a \in Int, NEW b \in Int
  PROVE  Seg(a, b) \in Seq(Int) /\ Len(Seg(a, b)) = (IF b < a THEN 0 ELSE b - a)
BY DEF Seg

LEMMA SegMore ==
  ASSUME NEW a \in Int, NEW b \in Int, a <= b
  PROVE  Append(Seg(a, b), b + 1) = Seg(a, b + 1)
<1> DEFINE s == Seg(a, b)
           t == Seg(a, b + 1)
<1>1. s \in Seq(Int) /\ t \in Seq(Int) /\ Len(s) = b - a /\ Len(t) = (b - a) + 1
  BY SegType
<1>2. \A i \in 1 .. (b - a) : s[i] = a + i
  BY DEF Seg
<1>3. \A i \in 1 .. (b - a) + 1 : t[i] = a + i
  BY DEF Seg
<1> HIDE DEF s, t
<1>4. Append(s, b + 1) \in Seq(Int) /\ Len(Append(s, b + 1)) = Len(t)
  BY <1>1
<1>5. ASSUME NEW i \in 1 .. Len(t) PROVE Append(s, b + 1)[i] = t[i]
  <2>1. CASE i = (b - a) + 1
    <3>1. Append(s, b + 1)[i] = b + 1
      BY <1>1, <2>1
    <3>2. t[i] = a + i /\ a + i = b + 1
      BY <1>1, <1>3, <2>1
    <3> QED
      BY <3>1, <3>2
  <2>2. CASE i # (b - a) + 1
    <3>1. i \in 1 .. (b - a)
      BY <1>1, <2>2
    <3>2. Append(s, b + 1)[i] = s[i]
      BY <1>1, <3>1
    <3> QED
      BY <1>1, <1>2, <1>3, <3>1, <3>2
  <2> QED
    BY <2>1, <2>2
<1>6. Append(s, b + 1) = t
  BY <1>1, <1>4, <1>5
<1> QED
  BY <1>6 DEF s, t

LEMMA SegNone ==
  ASSUME NEW a \in Int, NEW b \in Int, b <= a
  PROVE  Seg(a, b) = <<>>
BY DEF Seg
LEMMA NoArgType == NoArg \in Arguments
BY BlocksAssumption DEF NoArg, Arguments, Kinds

(* One field of the arguments after another.                               *)
LEMMA ArgumentsField ==
  ASSUME NEW c \in Arguments
  PROVE  /\ \A k \in Kinds : [c EXCEPT !.kind = k] \in Arguments
         /\ \A s \in Int : [c EXCEPT !.start = s] \in Arguments
         /\ \A n \in 0..MaxBlocks : [c EXCEPT !.limit = n] \in Arguments
         /\ \A d \in BOOLEAN : [c EXCEPT !.delete = d] \in Arguments
         /\ \A n \in Int : [c EXCEPT !.next = n] \in Arguments
         /\ \A d \in BOOLEAN : [c EXCEPT !.apart = d] \in Arguments
BY DEF Arguments

LEMMA ReadingInit == SInit => Reading
<1>1. MaxBlocks \in Nat
  BY BlocksAssumption
<1> QED
  BY <1>1, NoArgType DEF SInit, Reading, Missing

LEMMA ReadingStep == Reading /\ [SNext]_svars => Reading'
<1> SUFFICES ASSUME Reading, [SNext]_svars PROVE Reading'
  OBVIOUS
<1>0. MaxBlocks \in Nat /\ NoArg \in Arguments /\ NoArg.kind = "none"
  BY BlocksAssumption, NoArgType DEF NoArg
<1>1. CASE UNCHANGED <<rfile, buf, arg, spc>>
  BY <1>1 DEF Reading
(* Every return, and whatever else does not read.                          *)
<1>2. ASSUME rfile' \in Int, buf' \in {buf, <<>>}, arg' \in Arguments,
             spc' \notin {"sread"}, spc' \in {"ssize", "sretr"} => buf' = <<>>
      PROVE  Reading'
  <2>1. <<>> \in Seq(Int) /\ Len(<<>>) = 0
    OBVIOUS
  <2>2. CASE buf' = buf
    BY <1>2, <2>2 DEF Reading
  <2>3. CASE buf' = <<>>
    <3>1. buf' \in Seq(Int) /\ Len(buf') <= MaxBlocks
      BY <1>0, <2>1, <2>3
    <3> QED
      BY <1>2, <2>3, <3>1 DEF Reading
  <2> QED
    BY <1>2, <2>2, <2>3
<1>3. CASE GetMemBegin
  <2>1. PICK s \in 0..MaxBlocks, n \in 1..MaxBlocks, d \in BOOLEAN :
          LET a == [NoArg EXCEPT !.kind = "getmem", !.start = s, !.limit = n, !.delete = d]
          IN  \/ spc' = "idle" /\ arg' = NoArg
              \/ spc' = "ssize" /\ arg' = a
    BY <1>3 DEF GetMemBegin, SReturn
  <2>2. [NoArg EXCEPT !.kind = "getmem", !.start = s, !.limit = n, !.delete = d] \in Arguments
    <3> DEFINE c1 == [NoArg EXCEPT !.kind = "getmem"]
               c2 == [c1 EXCEPT !.start = s]
               c3 == [c2 EXCEPT !.limit = n]
               c4 == [c3 EXCEPT !.delete = d]
    <3>1. c4 = [NoArg EXCEPT !.kind = "getmem", !.start = s, !.limit = n, !.delete = d]
      OBVIOUS
    <3>2. c1 \in Arguments
      BY <1>0, ArgumentsField DEF Kinds
    <3> HIDE DEF c1
    <3>3. c2 \in Arguments
      BY <1>0, <3>2, ArgumentsField
    <3> HIDE DEF c2
    <3>4. c3 \in Arguments
      BY <1>0, <3>3, ArgumentsField
    <3> HIDE DEF c3
    <3>5. c4 \in Arguments
      BY <3>4, ArgumentsField
    <3> QED
      BY <3>1, <3>5
  <2>4. arg' \in Arguments /\ spc' \in {"idle", "ssize"}
    BY <1>0, <2>1, <2>2
  <2> QED
    BY <1>2, <1>3, <2>4 DEF GetMemBegin, Reading
<1>4. CASE GetMemSize
  <2>1. arg' \in {NoArg, arg, [arg EXCEPT !.ok = "nothing"]} /\ spc' \in {"idle", "sdelete", "sretr"}
        /\ buf = <<>> /\ UNCHANGED <<rfile, buf>>
    BY <1>4 DEF GetMemSize, SGoto, SReturn, Reading
  <2>2. arg' \in Arguments
    BY <1>0, <2>1 DEF Reading, Arguments
  <2> QED
    BY <1>2, <2>1, <2>2 DEF Reading
<1>5. CASE GetMemStart
  <2>1. UNCHANGED <<rfile, buf>> /\ buf = <<>>
    BY <1>5 DEF GetMemStart, Reading
  <2>2. CASE spc' = "idle" /\ arg' = NoArg
    BY <1>0, <1>2, <2>1, <2>2 DEF Reading
  <2>3. CASE spc' = "sread" /\ arg' = [arg EXCEPT !.next = arg.start]
    <3>1. arg' \in Arguments /\ arg'.next = arg.start /\ arg'.start = arg.start /\ arg.start \in Int
          /\ arg'.limit \in 0..MaxBlocks
      BY <2>3 DEF Reading, Arguments
    <3>2. Seg(arg.start, arg.start) = <<>>
      BY <3>1, SegNone
    <3> QED
      BY <1>0, <2>1, <2>3, <3>1, <3>2 DEF Reading
  <2> QED
    BY <1>5, <2>2, <2>3 DEF GetMemStart, SGoto, SReturn
<1>6. CASE GetMemBlock
  <2> DEFINE n == arg.next
  <2>1. spc = "sread" /\ spc' = "sread" /\ rfile' = rfile /\ n < rfile /\ Len(buf) < arg.limit
        /\ buf' = Append(buf, n + 1) /\ arg' = [arg EXCEPT !.next = n + 1]
    BY <1>6 DEF GetMemBlock, SGoto
  <2>2. n \in Int /\ arg.start \in Int /\ arg.limit \in 0..MaxBlocks /\ buf \in Seq(Int)
        /\ n = arg.start + Len(buf) /\ buf = Seg(arg.start, n) /\ rfile \in Int
    BY <2>1 DEF Reading, Arguments
  <2> HIDE DEF n
  <2>3. arg' \in Arguments /\ arg'.next = n + 1 /\ arg'.start = arg.start /\ arg'.limit = arg.limit
    <3>1. arg \in Arguments /\ n + 1 \in Int
      BY <2>2 DEF Reading
    <3>2. arg' \in Arguments
      BY <2>1, <3>1, ArgumentsField
    <3> QED
      BY <2>1, <3>1, <3>2 DEF Arguments
  <2>4. buf' \in Seq(Int) /\ Len(buf') = Len(buf) + 1
    BY <2>1, <2>2
  <2>5. buf' = Seg(arg.start, n + 1)
    BY <2>1, <2>2, SegMore, SMTT(30)
  <2>6. arg'.next = arg'.start + Len(buf') /\ Len(buf') <= arg'.limit /\ arg'.next <= rfile'
    <3>1. Len(buf) \in Nat
      BY <2>2
    <3>2. Len(buf) < arg.limit /\ n < rfile /\ rfile' = rfile
      BY <2>1
    <3>3. n + 1 = arg.start + (Len(buf) + 1) /\ Len(buf) + 1 <= arg.limit /\ n + 1 <= rfile
      BY <1>0, <2>2, <3>1, <3>2
    <3> QED
      BY <2>3, <2>4, <3>2, <3>3
  <2>7. Len(buf') <= MaxBlocks
    BY <1>0, <2>2, <2>3, <2>4, <2>6
  <2> QED
    BY <2>1, <2>2, <2>3, <2>4, <2>5, <2>6, <2>7 DEF Reading
<1>7. CASE GetMemEnd \/ GetMemDelete \/ PutMemRefused \/ PutMemEnd \/ GetTarChdir \/ OpenTar \/ GetTarStart \/ GetTarEnd
  <2>1. arg' \in {NoArg, arg} /\ buf' = buf /\ rfile' \in {rfile, Missing}
        /\ spc' \in {"idle", "sdelete", "topen", "tretr", "tread"}
    BY <1>7 DEF GetMemEnd, GetMemDelete, PutMemRefused, PutMemEnd, GetTarChdir, OpenTar, GetTarStart,
                GetTarEnd, SReturn, SGoto, SFinish
  <2> QED
    BY <1>0, <1>2, <2>1 DEF Reading, Missing
<1>8. CASE PutMemBegin
  <2>1. PICK n \in 0..MaxBlocks, s \in {rfile, 0} :
          arg' = [NoArg EXCEPT !.kind = "putmem", !.limit = n, !.start = s]
    BY <1>8 DEF PutMemBegin
  <2>2. [NoArg EXCEPT !.kind = "putmem", !.limit = n, !.start = s] \in Arguments
    <3> DEFINE c1 == [NoArg EXCEPT !.kind = "putmem"]
               c2 == [c1 EXCEPT !.limit = n]
               c3 == [c2 EXCEPT !.start = s]
    <3>1. c3 = [NoArg EXCEPT !.kind = "putmem", !.limit = n, !.start = s]
      OBVIOUS
    <3>2. c1 \in Arguments
      BY <1>0, ArgumentsField DEF Kinds
    <3> HIDE DEF c1
    <3>3. c2 \in Arguments
      BY <1>0, <3>2, ArgumentsField
    <3> HIDE DEF c2
    <3>4. c3 \in Arguments
      BY <1>0, <3>3, ArgumentsField DEF Reading
    <3> QED
      BY <3>1, <3>4
  <2>3. arg' \in Arguments /\ arg'.start \in Int
    BY <2>1, <2>2 DEF Arguments
  <2>4. rfile' = arg'.start /\ buf' = <<>> /\ spc' = "swrite"
    BY <1>8 DEF PutMemBegin
  <2> QED
    BY <1>2, <2>3, <2>4
<1>9. CASE PutMemBlock
  <2>1. arg' = [arg EXCEPT !.next = arg.next + 1] /\ buf' = buf /\ rfile' = rfile + 1 /\ spc' = "swrite"
    BY <1>9 DEF PutMemBlock, SGoto
  <2>2. arg' \in Arguments /\ rfile' \in Int
    BY <2>1 DEF Reading, Arguments
  <2> QED
    BY <1>2, <2>1, <2>2
<1>10. CASE GetTarBegin
  <2>1. PICK p \in BOOLEAN : arg' \in {NoArg, [NoArg EXCEPT !.kind = "gettar", !.apart = p]}
    BY <1>10 DEF GetTarBegin, SReturn
  <2>2. [NoArg EXCEPT !.kind = "gettar", !.apart = p] \in Arguments
    <3> DEFINE c1 == [NoArg EXCEPT !.kind = "gettar"]
               c2 == [c1 EXCEPT !.apart = p]
    <3>1. c2 = [NoArg EXCEPT !.kind = "gettar", !.apart = p]
      OBVIOUS
    <3>2. c1 \in Arguments
      BY <1>0, ArgumentsField DEF Kinds
    <3> HIDE DEF c1
    <3>3. c2 \in Arguments
      BY <3>2, ArgumentsField
    <3> QED
      BY <3>1, <3>3
  <2>3. arg' \in Arguments
    BY <1>0, <2>1, <2>2
  <2>4. spc' \in {"idle", "tcwd", "topen"} /\ UNCHANGED <<rfile, buf>>
    BY <1>10 DEF GetTarBegin, SReturn
  <2> QED
    BY <1>2, <2>3, <2>4 DEF Reading
<1> QED
  BY <1>1, <1>3, <1>4, <1>5, <1>6, <1>7, <1>8, <1>9, <1>10 DEF SNext, svars

(* FTPGetFileToMemory, at its end.                                         *)
LEMMA MemDeliversStep ==
  ASSUME Reading, [SNext]_svars, spc = "sread", spc' # "sread", sresult' = "ok"
  PROVE  buf = Seg(arg.start, Least(arg.start + arg.limit, rfile))
<1>1. GetMemEnd /\ (arg.next >= rfile \/ Len(buf) = arg.limit)
  BY DEF SNext, svars, GetMemBegin, GetMemSize, GetMemStart, GetMemBlock, GetMemEnd, GetMemDelete,
         PutMemBegin, PutMemRefused, PutMemBlock, PutMemEnd, GetTarBegin, GetTarChdir, OpenTar,
         GetTarStart, GetTarEnd, SReturn, SGoto
<1> DEFINE from == arg.start
           to   == arg.next
           most == arg.limit
<1>2. /\ from \in Int /\ to \in Int /\ most \in Nat /\ rfile \in Int /\ Len(buf) \in Nat
      /\ to = from + Len(buf) /\ Len(buf) <= most /\ buf = Seg(from, to)
      /\ to <= rfile \/ buf = <<>>
  BY BlocksAssumption DEF Reading, Arguments
<1>3. to >= rfile \/ Len(buf) = most
  BY <1>1
<1> HIDE DEF from, to, most
<1>4. CASE to <= rfile
  <2>1. Least(from + most, rfile) = to
    BY <1>2, <1>3, <1>4 DEF Least
  <2> QED
    BY <1>2, <2>1 DEF from, most
<1>5. CASE buf = <<>> /\ ~(to <= rfile)
  <2>1. Least(from + most, rfile) \in Int /\ Least(from + most, rfile) <= from
    BY <1>2, <1>5 DEF Least
  <2>2. Seg(from, Least(from + most, rfile)) = <<>>
    BY <1>2, <2>1, SegNone
  <2> QED
    BY <1>5, <2>2 DEF from, most
<1> QED
  BY <1>2, <1>4, <1>5

LEMMA ClosedInit == SInit => Closed /\ Returned
BY DEF SInit, Closed, Returned

(* A call that holds something is at a place from which every way leads    *)
(* through the closing.                                                    *)
LEMMA ClosedStep == Closed /\ [SNext]_svars => Closed'
<1> SUFFICES ASSUME Closed, [SNext]_svars PROVE Closed'
  OBVIOUS
<1>1. CASE UNCHANGED svars
  BY <1>1 DEF Closed, svars
<1>2. CASE GetMemBegin \/ GetMemSize \/ GetMemDelete \/ PutMemRefused
  BY <1>2 DEF Closed, GetMemBegin, GetMemSize, GetMemDelete, PutMemRefused, SReturn, SGoto
<1>3. CASE GetMemStart
  BY <1>3 DEF Closed, GetMemStart, SReturn, SGoto
<1>4. CASE GetMemBlock \/ PutMemBlock
  BY <1>4 DEF Closed, GetMemBlock, PutMemBlock, SGoto
<1>5. CASE GetMemEnd \/ PutMemEnd \/ GetTarEnd
  BY <1>5 DEF Closed, GetMemEnd, PutMemEnd, GetTarEnd
<1>6. CASE PutMemBegin
  BY <1>6 DEF Closed, PutMemBegin
<1>7. CASE GetTarBegin
  <2>1. sopen \subseteq left \ {"cwd"} /\ UNCHANGED sopen /\ left' = left \ {"cwd"}
    BY <1>7 DEF GetTarBegin, Closed
  <2> QED
    BY <2>1 DEF Closed
<1>8. CASE GetTarChdir
  BY <1>8 DEF Closed, GetTarChdir
<1>9. CASE OpenTar
  BY <1>9 DEF Closed, OpenTar, GoBack, SReturn, SGoto
<1>10. CASE GetTarStart
  BY <1>10 DEF Closed, GetTarStart, GoBack, SReturn, SGoto
<1> QED
  BY <1>1, <1>2, <1>3, <1>4, <1>5, <1>6, <1>7, <1>8, <1>9, <1>10 DEF SNext

LEMMA ReturnedStep == Returned /\ [SNext]_svars => Returned'
<1> SUFFICES ASSUME Returned, [SNext]_svars PROVE Returned'
  OBVIOUS
<1>1. CASE UNCHANGED <<rcwd, left>> /\ spc \notin {"topen", "tretr", "tread"}
  BY <1>1 DEF Returned
<1>2. CASE UNCHANGED <<rcwd, left, spc>>
  BY <1>2 DEF Returned
<1>3. CASE GetMemStart
  BY <1>3 DEF Returned, GetMemStart
<1>4. CASE GetTarBegin
  BY <1>4 DEF Returned, GetTarBegin
<1>5. CASE GetTarChdir
  BY <1>5 DEF Returned, GetTarChdir, SReturn, SGoto
<1>6. CASE OpenTar
  BY <1>6 DEF Returned, OpenTar, GoBack, SReturn, SGoto
<1>7. CASE GetTarStart
  BY <1>7 DEF Returned, GetTarStart, GoBack, SReturn, SGoto
<1>8. CASE GetTarEnd
  BY <1>8 DEF Returned, GetTarEnd, GoBack
<1>9. CASE GetMemBegin \/ GetMemSize \/ GetMemBlock \/ GetMemEnd \/ GetMemDelete \/ PutMemBegin
           \/ PutMemRefused \/ PutMemBlock \/ PutMemEnd
  BY <1>1, <1>9 DEF GetMemBegin, GetMemSize, GetMemBlock, GetMemEnd, GetMemDelete, PutMemBegin,
                    PutMemRefused, PutMemBlock, PutMemEnd
<1> QED
  BY <1>2, <1>3, <1>4, <1>5, <1>6, <1>7, <1>8, <1>9 DEF SNext, svars
-----------------------------------------------------------------------------
(* The buffer of FTPGetFileToMemory is never overrun, and what it holds is *)
(* what the remote file has from the starting point on (io_getmem.c).      *)
THEOREM BufferNeverOverrun == SSpec => [](Reading /\ BufferExact)
<1>1. Reading => BufferExact
  BY DEF Reading, BufferExact
<1> QED
  BY <1>1, ReadingInit, ReadingStep, PTL DEF SSpec

(* Nothing is held between two calls, of files or of streams, no buffer is *)
(* overrun, and the server is where the caller left it (io_get.c,          *)
(* io_put.c, io_getmem.c, io_gettar.c).                                    *)
THEOREM AllTidy == Spec /\ SSpec => []Tidy
<1>1. Closed => NothingHeld
  BY DEF Closed, NothingHeld
<1>2. Returned => BackHome
  BY DEF Returned, BackHome
<1>3. SSpec => []Closed
  BY ClosedInit, ClosedStep, PTL DEF SSpec
<1>4. SSpec => []Returned
  BY ClosedInit, ReturnedStep, PTL DEF SSpec
<1>5. HeldAtRest /\ NothingHeld /\ BufferExact /\ BackHome => Tidy
  BY DEF Tidy
<1> QED
  BY <1>1, <1>2, <1>3, <1>4, <1>5, NothingLeftOpen, BufferNeverOverrun, PTL

(* Every transfer that returns well has delivered: the file got, the file  *)
(* put, the part of a file read into memory (io_get.c, io_put.c,           *)
(* io_getmem.c).                                                           *)
THEOREM AllDeliver == TimesTold /\ Spec /\ SSpec => Delivers
<1>1. ASSUME Reading, [SNext]_svars
      PROVE  [(spc = "sread" /\ spc' # "sread" /\ sresult' = "ok")
              => buf = Seg(arg.start, Least(arg.start + arg.limit, rfile))]_svars
  BY <1>1, MemDeliversStep
<1>2. SSpec => MemDelivers
  BY <1>1, BufferNeverOverrun, PTL DEF SSpec, MemDelivers
<1> QED
  BY <1>2, GetsDeliver, PutsDeliver DEF Delivers
-----------------------------------------------------------------------------
(***************************************************************************)
(* Induction over the numbers, with a set in the place of a predicate.     *)
(***************************************************************************)
LEMMA ByNat ==
    ASSUME NEW Q, 0 \in Q, \A n \in Nat : n \in Q => n + 1 \in Q
    PROVE  \A n \in Nat : n \in Q
<1>1. SUFFICES ASSUME Nat \ Q # {} PROVE FALSE
  OBVIOUS
<1>2. PICK x \in Nat \ Q : \A y \in Nat \ Q : ~(<<y, x>> \in OpToRel(<, Nat))
  BY <1>1, NatLessThanWellFounded, WFMin
<1>3. \A y \in Nat : y < x => y \in Q
  BY <1>2 DEF OpToRel
<1>4. x \in Nat /\ x \notin Q
  OBVIOUS
<1>5. x # 0
  BY <1>4
<1>6. x - 1 \in Nat /\ x - 1 < x /\ (x - 1) + 1 = x
  BY <1>4, <1>5
<1>7. x - 1 \in Q
  BY <1>3, <1>6
<1>8. QED
  BY <1>4, <1>6, <1>7

(***************************************************************************)
(* FlattenSeq, one sequence after another.                                 *)
(***************************************************************************)
IsFlat(f, ss, n) == f = [i \in 1..n |-> IF i = 1 THEN ss[i] ELSE f[i - 1] \o ss[i]]

LEMMA FlatExists == ASSUME NEW ss PROVE \A n \in Nat : \E f : IsFlat(f, ss, n)
<1> DEFINE Q == {n \in Nat : \E f : IsFlat(f, ss, n)}
<1>1. 0 \in Q
  <2>1. IsFlat([i \in 1..0 |-> 0], ss, 0)
    BY DEF IsFlat
  <2>2. QED
    BY <2>1
<1>2. ASSUME NEW n \in Nat, n \in Q PROVE n + 1 \in Q
  <2>1. PICK f : IsFlat(f, ss, n)
    BY <1>2
  <2> DEFINE last == IF n = 0 THEN ss[1] ELSE f[n] \o ss[n + 1]
             g == [i \in 1 .. n + 1 |-> IF i = n + 1 THEN last ELSE f[i]]
             h == [i \in 1 .. n + 1 |-> IF i = 1 THEN ss[i] ELSE g[i - 1] \o ss[i]]
  <2>2. ASSUME NEW i \in 1 .. n + 1 PROVE g[i] = h[i]
    <3>1. CASE i = n + 1 /\ n = 0
      BY <3>1
    <3>2. CASE i = n + 1 /\ n # 0
      <4>1. n \in 1 .. n + 1 /\ n # n + 1 /\ g[n] = f[n] /\ i - 1 = n /\ i # 1
        BY <3>2
      <4>2. g[i] = f[n] \o ss[n + 1]
        BY <3>2
      <4>3. h[i] = g[n] \o ss[n + 1]
        BY <3>2, <4>1
      <4>4. QED
        BY <4>1, <4>2, <4>3
    <3>3. CASE i # n + 1 /\ i = 1
      BY <2>1, <3>3 DEF IsFlat
    <3>4. CASE i # n + 1 /\ i # 1
      <4>1. i - 1 \in 1 .. n + 1 /\ i - 1 # n + 1 /\ g[i - 1] = f[i - 1] /\ i \in 1..n
        BY <3>4
      <4>2. f[i] = f[i - 1] \o ss[i]
        BY <2>1, <3>4, <4>1 DEF IsFlat
      <4>3. QED
        BY <3>4, <4>1, <4>2
    <3>5. QED
      BY <3>1, <3>2, <3>3, <3>4
  <2>3. g = h
    BY <2>2
  <2>4. IsFlat(g, ss, n + 1)
    BY <2>3 DEF IsFlat
  <2>5. QED
    BY <2>4
<1> HIDE DEF Q
<1>3. \A n \in Nat : n \in Q
  BY <1>1, <1>2, ByNat
<1>4. QED
  BY <1>3 DEF Q

LEMMA FlatSame ==
    ASSUME NEW ss, NEW tt, NEW f, NEW g, NEW n \in Nat, NEW m \in Nat, n <= m,
           IsFlat(f, ss, n), IsFlat(g, tt, m), \A i \in 1..n : ss[i] = tt[i]
    PROVE  \A i \in 1..n : f[i] = g[i]
<1> DEFINE Q == {i \in Nat : i \in 1..n => f[i] = g[i]}
<1>1. 0 \in Q
  OBVIOUS
<1>2. ASSUME NEW i \in Nat, i \in Q PROVE i + 1 \in Q
  <2>1. CASE i + 1 \in 1..n /\ i # 0
    <3>1. i \in 1..n /\ i + 1 \in 1..m /\ i + 1 # 1 /\ (i + 1) - 1 = i
      BY <2>1
    <3>2. f[i + 1] = f[i] \o ss[i + 1]
      BY <2>1, <3>1 DEF IsFlat
    <3>3. g[i + 1] = g[i] \o tt[i + 1]
      BY <3>1 DEF IsFlat
    <3>4. f[i + 1] = g[i + 1]
      BY <1>2, <2>1, <3>1, <3>2, <3>3
    <3>5. QED
      BY <3>4
  <2>2. CASE i + 1 \in 1..n /\ i = 0
    <3>1. f[1] = ss[1] /\ g[1] = tt[1]
      BY <2>2 DEF IsFlat
    <3>2. QED
      BY <2>2, <3>1
  <2>3. QED
    BY <2>1, <2>2
<1> HIDE DEF Q
<1>3. \A i \in Nat : i \in Q
  BY <1>1, <1>2, ByNat
<1>4. QED
  BY <1>3 DEF Q

LEMMA FlatTyped ==
    ASSUME NEW S, NEW ss, NEW f, NEW n \in Nat, IsFlat(f, ss, n), \A i \in 1..n : ss[i] \in Seq(S)
    PROVE  \A i \in 1..n : f[i] \in Seq(S)
<1> DEFINE Q == {i \in Nat : i \in 1..n => f[i] \in Seq(S)}
<1>1. 0 \in Q
  OBVIOUS
<1>2. ASSUME NEW i \in Nat, i \in Q PROVE i + 1 \in Q
  <2>1. CASE i + 1 \in 1..n /\ i # 0
    <3>1. i \in 1..n /\ i + 1 # 1 /\ (i + 1) - 1 = i
      BY <2>1
    <3>2. f[i + 1] = f[i] \o ss[i + 1]
      BY <2>1, <3>1 DEF IsFlat
    <3>3. f[i] \in Seq(S) /\ ss[i + 1] \in Seq(S)
      BY <1>2, <2>1, <3>1
    <3>4. f[i] \o ss[i + 1] \in Seq(S)
      BY <3>3
    <3>5. f[i + 1] \in Seq(S) /\ i + 1 \in Nat
      BY <3>2, <3>4
    <3> HIDE <3>2, <3>4
    <3>6. QED
      BY <3>5
  <2>2. CASE i + 1 \in 1..n /\ i = 0
    <3>1. f[1] = ss[1]
      BY <2>2 DEF IsFlat
    <3>2. QED
      BY <2>2, <3>1
  <2>3. QED
    BY <2>1, <2>2
<1> HIDE DEF Q
<1>3. \A i \in Nat : i \in Q
  BY <1>1, <1>2, ByNat
<1>4. QED
  BY <1>3 DEF Q

LEMMA FlattenIs ==
    ASSUME NEW S, NEW n \in Nat, NEW ss \in [1..n -> Seq(S)]
    PROVE  \E f : IsFlat(f, ss, n) /\ FlattenSeq(ss) = IF n = 0 THEN <<>> ELSE f[n]
<1>1. Len(ss) = n
  OBVIOUS
<1>2. CASE n = 0
  <2>1. FlattenSeq(ss) = ss /\ ss = <<>>
    BY <1>1, <1>2 DEF FlattenSeq
  <2>2. \E f : IsFlat(f, ss, n)
    BY FlatExists
  <2>3. QED
    BY <1>2, <2>1, <2>2
<1>3. CASE n # 0
  <2> DEFINE F == CHOOSE f : f = [i \in 1..Len(ss) |-> IF i = 1 THEN ss[i] ELSE f[i - 1] \o ss[i]]
  <2>1. FlattenSeq(ss) = F[Len(ss)]
    BY <1>1, <1>3 DEF FlattenSeq
  <2>2. \E f : f = [i \in 1..Len(ss) |-> IF i = 1 THEN ss[i] ELSE f[i - 1] \o ss[i]]
    BY <1>1, FlatExists DEF IsFlat
  <2>3. F = [i \in 1..Len(ss) |-> IF i = 1 THEN ss[i] ELSE F[i - 1] \o ss[i]]
    BY <2>2
  <2> HIDE DEF F
  <2>4. IsFlat(F, ss, n)
    BY <1>1, <2>3 DEF IsFlat
  <2>5. QED
    BY <1>1, <1>3, <2>1, <2>4
<1>4. QED
  BY <1>2, <1>3

(* The joined sequences are one.                                           *)
LEMMA FlattenTyped ==
    ASSUME NEW S, NEW n \in Nat, NEW ss \in [1..n -> Seq(S)] PROVE FlattenSeq(ss) \in Seq(S)
<1>1. PICK f : IsFlat(f, ss, n) /\ FlattenSeq(ss) = IF n = 0 THEN <<>> ELSE f[n]
  BY FlattenIs
<1>2. \A i \in 1..n : f[i] \in Seq(S)
  BY <1>1, FlatTyped
<1>3. QED
  BY <1>1, <1>2

(* A further one comes behind the others.                                  *)
LEMMA FlattenMore ==
    ASSUME NEW S, NEW n \in Nat, NEW ss \in [1..n -> Seq(S)], NEW tt \in [1 .. n + 1 -> Seq(S)],
           \A i \in 1..n : ss[i] = tt[i]
    PROVE  FlattenSeq(tt) = FlattenSeq(ss) \o tt[n + 1]
<1>1. PICK f : IsFlat(f, ss, n) /\ FlattenSeq(ss) = IF n = 0 THEN <<>> ELSE f[n]
  BY FlattenIs
<1>2. PICK g : IsFlat(g, tt, n + 1) /\ FlattenSeq(tt) = g[n + 1]
  <2>1. n + 1 \in Nat /\ n + 1 # 0
    OBVIOUS
  <2>2. PICK g : IsFlat(g, tt, n + 1) /\ FlattenSeq(tt) = IF n + 1 = 0 THEN <<>> ELSE g[n + 1]
    BY <2>1, FlattenIs
  <2>3. QED
    BY <2>1, <2>2
<1>3. CASE n = 0
  <2>1. g[1] = tt[1] /\ tt[1] \in Seq(S)
    BY <1>2, <1>3 DEF IsFlat
  <2>2. QED
    BY <1>1, <1>2, <1>3, <2>1
<1>4. CASE n # 0
  <2>1. g[n + 1] = g[n] \o tt[n + 1]
    <3>1. n + 1 \in 1 .. n + 1 /\ n + 1 # 1 /\ (n + 1) - 1 = n
      BY <1>4
    <3>2. QED
      BY <1>2, <3>1 DEF IsFlat
  <2>2. f[n] = g[n]
    <3>1. PICK m \in Nat : m = n + 1
      OBVIOUS
    <3>2. n <= m /\ n \in 1..n /\ IsFlat(f, ss, n) /\ IsFlat(g, tt, m) /\ \A i \in 1..n : ss[i] = tt[i]
      BY <1>1, <1>2, <1>4, <3>1
    <3> HIDE <3>1
    <3>4. \A i \in 1..n : f[i] = g[i]
      BY <3>2, FlatSame
    <3>5. QED
      BY <3>2, <3>4
  <2>3. QED
    BY <1>1, <1>2, <1>4, <2>1, <2>2
<1>5. QED
  BY <1>3, <1>4
-----------------------------------------------------------------------------
(***************************************************************************)
(* Texts.                                                                  *)
(***************************************************************************)
Chars == STRING \cup {CR, LF}

RecTo(s, n)  == FlattenSeq([i \in 1..n |-> ReceivedOf(s, i)])
SentTo(s, n) == FlattenSeq([i \in 1..n |-> SentOf(s, i)])

LEMMA ReceivedOfTyped ==
    ASSUME NEW s \in Seq(Chars), NEW i \in 1..Len(s) PROVE ReceivedOf(s, i) \in Seq(Chars)
<1>1. s[i] \in Chars /\ LF \in Chars
  BY DEF Chars
<1>2. <<s[i]>> \in Seq(Chars) /\ <<LF>> \in Seq(Chars) /\ <<>> \in Seq(Chars)
  BY <1>1
<1>3. QED
  BY <1>2 DEF ReceivedOf

LEMMA SentOfTyped ==
    ASSUME NEW s \in Seq(Chars), NEW i \in 1..Len(s) PROVE SentOf(s, i) \in Seq(Chars)
<1>1. s[i] \in Chars /\ LF \in Chars /\ CR \in Chars
  BY DEF Chars
<1>2. <<s[i]>> \in Seq(Chars) /\ <<CR, LF>> \in Seq(Chars) /\ <<>> \in Seq(Chars)
  BY <1>1
<1>3. QED
  BY <1>2 DEF SentOf

LEMMA RecTyped ==
    ASSUME NEW s \in Seq(Chars), NEW n \in 0..Len(s)
    PROVE  RecTo(s, n) \in Seq(Chars) /\ RecTo(s, 0) = <<>> /\ Received(s) = RecTo(s, Len(s))
<1>1. \A i \in 1..n : ReceivedOf(s, i) \in Seq(Chars)
  BY ReceivedOfTyped
<1>2. [i \in 1..n |-> ReceivedOf(s, i)] \in [1..n -> Seq(Chars)]
  BY <1>1
<1>3. RecTo(s, n) \in Seq(Chars)
  BY <1>2, FlattenTyped DEF RecTo
<1>4. RecTo(s, 0) = <<>>
  <2> DEFINE e == [i \in 1..0 |-> ReceivedOf(s, i)]
  <2>1. Len(e) = 0 /\ e = <<>>
    OBVIOUS
  <2> HIDE DEF e
  <2>2. FlattenSeq(e) = <<>>
    BY <2>1 DEF FlattenSeq
  <2>3. QED
    BY <2>2 DEF RecTo, e
<1>5. QED
  BY <1>3, <1>4 DEF RecTo, Received

LEMMA RecMore ==
    ASSUME NEW s \in Seq(Chars), NEW n \in Nat, n + 1 <= Len(s)
    PROVE  RecTo(s, n + 1) = RecTo(s, n) \o ReceivedOf(s, n + 1)
<1> DEFINE ss == [i \in 1..n |-> ReceivedOf(s, i)]
           tt == [i \in 1 .. n + 1 |-> ReceivedOf(s, i)]
<1>1. \A i \in 1 .. n + 1 : ReceivedOf(s, i) \in Seq(Chars)
  BY ReceivedOfTyped
<1>2. ss \in [1..n -> Seq(Chars)] /\ tt \in [1 .. n + 1 -> Seq(Chars)]
  BY <1>1
<1>3. (\A i \in 1..n : ss[i] = tt[i]) /\ tt[n + 1] = ReceivedOf(s, n + 1)
  OBVIOUS
<1> HIDE DEF ss, tt
<1>4. FlattenSeq(tt) = FlattenSeq(ss) \o tt[n + 1]
  BY <1>2, <1>3, FlattenMore
<1>5. QED
  BY <1>3, <1>4 DEF RecTo, ss, tt

LEMMA SentTyped ==
    ASSUME NEW s \in Seq(Chars), NEW n \in 0..Len(s)
    PROVE  SentTo(s, n) \in Seq(Chars) /\ SentTo(s, 0) = <<>> /\ Sent(s) = SentTo(s, Len(s))
<1>1. \A i \in 1..n : SentOf(s, i) \in Seq(Chars)
  BY SentOfTyped
<1>2. [i \in 1..n |-> SentOf(s, i)] \in [1..n -> Seq(Chars)]
  BY <1>1
<1>3. SentTo(s, n) \in Seq(Chars)
  BY <1>2, FlattenTyped DEF SentTo
<1>4. SentTo(s, 0) = <<>>
  <2> DEFINE e == [i \in 1..0 |-> SentOf(s, i)]
  <2>1. Len(e) = 0 /\ e = <<>>
    OBVIOUS
  <2> HIDE DEF e
  <2>2. FlattenSeq(e) = <<>>
    BY <2>1 DEF FlattenSeq
  <2>3. QED
    BY <2>2 DEF SentTo, e
<1>5. QED
  BY <1>3, <1>4 DEF SentTo, Sent

LEMMA SentMore ==
    ASSUME NEW s \in Seq(Chars), NEW n \in Nat, n + 1 <= Len(s)
    PROVE  SentTo(s, n + 1) = SentTo(s, n) \o SentOf(s, n + 1)
<1> DEFINE ss == [i \in 1..n |-> SentOf(s, i)]
           tt == [i \in 1 .. n + 1 |-> SentOf(s, i)]
<1>1. \A i \in 1 .. n + 1 : SentOf(s, i) \in Seq(Chars)
  BY SentOfTyped
<1>2. ss \in [1..n -> Seq(Chars)] /\ tt \in [1 .. n + 1 -> Seq(Chars)]
  BY <1>1
<1>3. (\A i \in 1..n : ss[i] = tt[i]) /\ tt[n + 1] = SentOf(s, n + 1)
  OBVIOUS
<1> HIDE DEF ss, tt
<1>4. FlattenSeq(tt) = FlattenSeq(ss) \o tt[n + 1]
  BY <1>2, <1>3, FlattenMore
<1>5. QED
  BY <1>3, <1>4 DEF SentTo, ss, tt

(* How many CRs in a row end at a place.                                   *)
Row(s, i) == Cardinality(CRsTo(s, i))

LEMMA RowMore ==
    ASSUME NEW s, NEW i \in Nat
    PROVE  /\ Row(s, i) \in Nat
           /\ s[i + 1] = CR => Row(s, i + 1) = Row(s, i) + 1
           /\ s[i + 1] # CR => Row(s, i + 1) = 0
           /\ Row(s, 0) = 0
<1>1. CRsTo(s, i) \subseteq 1..i /\ IsFiniteSet(1..i)
  BY FS_Interval DEF CRsTo
<1>2. IsFiniteSet(CRsTo(s, i))
  BY <1>1, FS_Subset
<1>3. Row(s, i) \in Nat
  BY <1>2, FS_CardinalityType DEF Row
<1>4. ASSUME s[i + 1] = CR PROVE Row(s, i + 1) = Row(s, i) + 1
  <2>1. CRsTo(s, i + 1) = CRsTo(s, i) \cup {i + 1}
    BY <1>4 DEF CRsTo
  <2>2. i + 1 \notin CRsTo(s, i)
    BY <1>1
  <2>3. QED
    BY <1>2, <2>1, <2>2, FS_AddElement DEF Row
<1>5. ASSUME s[i + 1] # CR PROVE Row(s, i + 1) = 0
  <2>1. CRsTo(s, i + 1) = {}
    BY <1>5 DEF CRsTo
  <2>2. QED
    BY <2>1, FS_EmptySet DEF Row
<1>6. Row(s, 0) = 0
  <2>1. CRsTo(s, 0) = {}
    BY DEF CRsTo
  <2>2. QED
    BY <2>1, FS_EmptySet DEF Row
<1>7. QED
  BY <1>3, <1>4, <1>5, <1>6
-----------------------------------------------------------------------------
(***************************************************************************)
(* FTPGetOneF.  The CRs that are held back are the last ones read, and     *)
(* what has been written is what the text up to them stands for.  The CRs  *)
(* before a place that a pass begins at with a CR are even in number.      *)
(***************************************************************************)
Passed(r) ==
    /\ r.at \in pos .. lim /\ r.crs \in 0..2 /\ r.crs <= r.at
    /\ \A k \in r.at - r.crs + 1 .. r.at : text[k] = CR
    /\ tout \o r.out = RecTo(text, r.at - r.crs) /\ r.out \in Seq(Chars)
    /\ r.crs > 0 \/ Has(text, r.at + 1, CR) => Row(text, r.at - r.crs) % 2 = 0

GInv ==
    tkind = "get" =>
      /\ pos \in 0..Len(text) /\ lim \in pos..Len(text) /\ tout \in Seq(Chars)
      /\ tdone = "no" => Passed(Pass(pos, crs, <<>>))
      /\ tdone \in {"no", "ok"}
      /\ tdone = "ok" => tout = Received(text)

LEMMA PassedIs ==
    ASSUME pos \in Nat, lim \in Nat, NEW a \in pos..lim, NEW h \in 0..2, NEW o \in Seq(Chars), NEW m \in Nat, m + h = a,
           \A k \in m + 1 .. a : text[k] = CR, tout \o o = RecTo(text, m),
           h > 0 \/ Has(text, a + 1, CR) => Row(text, m) % 2 = 0
    PROVE  Passed(Pass(a, h, o))
<1>1. a - h = m /\ h <= a /\ a \in Nat
  OBVIOUS
<1>2. QED
  BY <1>1 DEF Passed, Pass

LEMMA JoinNone == ASSUME NEW S, NEW s \in Seq(S) PROVE s \o <<>> = s
  OBVIOUS

LEMMA JoinTwo ==
    ASSUME NEW S, NEW s \in Seq(S), NEW c \in S, NEW d \in S
    PROVE  (s \o <<c>>) \o <<d>> = s \o <<c, d>>
<1> DEFINE u == (s \o <<c>>) \o <<d>>
           v == s \o <<c, d>>
<1>1. u \in Seq(S) /\ v \in Seq(S) /\ Len(u) = Len(s) + 2 /\ Len(v) = Len(s) + 2 /\ Len(s) \in Nat
  OBVIOUS
<1>2. ASSUME NEW i \in 1 .. Len(s) + 2 PROVE u[i] = v[i]
  <2>1. CASE i <= Len(s)
    BY <2>1
  <2>2. CASE i = Len(s) + 1
    BY <2>2
  <2>3. CASE i = Len(s) + 2
    BY <2>3
  <2>4. QED
    BY <1>1, <2>1, <2>2, <2>3
<1> HIDE DEF u, v
<1>3. u = v
  BY <1>1, <1>2, SeqEqual
<1>4. QED
  BY <1>3 DEF u, v

LEMMA TwoHeld ==
    ASSUME text \in Seq(Chars), tout \in Seq(Chars), NEW m \in Nat, m + 2 \in pos..lim, pos \in Nat,
           lim \in 0..Len(text), text[m + 1] = CR, text[m + 2] = CR,
           Row(text, m) % 2 = 0, tout = RecTo(text, m)
    PROVE  Passed(AfterTwo(m + 2))
<1> DEFINE r == AfterTwo(m + 2)
<1>0. /\ RecTo(text, m) \in Seq(Chars)
      /\ RecTo(text, m + 1) = RecTo(text, m) \o ReceivedOf(text, m + 1)
      /\ RecTo(text, m + 2) = RecTo(text, m + 1) \o ReceivedOf(text, m + 2)
  <2>1. m + 1 \in Nat /\ m + 1 <= Len(text) /\ m + 2 <= Len(text) /\ (m + 1) + 1 = m + 2
    OBVIOUS
  <2>2. RecTo(text, m + 2) = RecTo(text, m + 1) \o ReceivedOf(text, m + 2)
    BY <2>1, RecMore
  <2>3. QED
    BY <2>1, <2>2, RecMore, RecTyped
<1>1. Row(text, m + 1) % 2 = 1 /\ Row(text, m + 2) % 2 = 0
  <2>1. Row(text, m) \in Nat /\ Row(text, m + 1) = Row(text, m) + 1
    BY RowMore
  <2>2. m + 1 \in Nat /\ (m + 1) + 1 = m + 2
    OBVIOUS
  <2>3. Row(text, m + 2) = Row(text, m + 1) + 1
    BY <2>2, RowMore
  <2>4. QED
    BY <2>1, <2>3
<1>2. CASE m + 2 = lim
  <2>1. r = Pass(m + 2, 2, <<>>)
    BY <1>2 DEF AfterTwo
  <2>3. \A k \in m + 1 .. m + 2 : text[k] = CR
    OBVIOUS
  <2>4. tout \o <<>> = RecTo(text, m) /\ <<>> \in Seq(Chars) /\ 2 \in 0..2 /\ lim \in Nat
    BY JoinNone
  <2> HIDE DEF r
  <2>5. Passed(Pass(m + 2, 2, <<>>))
    BY <2>3, <2>4, PassedIs
  <2>6. QED
    BY <2>1, <2>5 DEF r
<1>3. CASE m + 2 # lim /\ text[m + 3] = LF
  <2>0. m + 3 <= lim /\ m + 3 <= Len(text) /\ (m + 2) + 1 = m + 3 /\ m + 2 \in Nat
    BY <1>3
  <2>1. r = Pass(m + 3, 0, Lines(1))
    BY <1>3, <2>0 DEF AfterTwo
  <2>2. r = Pass(m + 3, 0, <<LF>>)
    BY <2>1 DEF Lines
  <2>3. Belongs(text, m + 1) /\ Belongs(text, m + 2)
    BY <1>1, <1>3, <2>0 DEF Belongs, Has, Row
  <2>4. ReceivedOf(text, m + 1) = <<>> /\ ReceivedOf(text, m + 2) = <<>>
    BY <2>3 DEF ReceivedOf
  <2>5. ReceivedOf(text, m + 3) = <<LF>>
    BY <1>3 DEF ReceivedOf, CR, LF
  <2>6. RecTo(text, m + 3) = RecTo(text, m + 2) \o ReceivedOf(text, m + 3)
    BY <2>0, RecMore
  <2> HIDE DEF r
  <2>7. RecTo(text, m + 3) = tout \o <<LF>>
    <3>1. RecTo(text, m + 1) = tout
      BY <1>0, <2>4, JoinNone
    <3>2. RecTo(text, m + 2) = tout
      BY <1>0, <2>4, <3>1, JoinNone
    <3>3. QED
      BY <2>5, <2>6, <3>2
  <2>8. Row(text, m + 3) = 0
    BY <1>3, <2>0, RowMore DEF CR, LF
  <2>9. <<LF>> \in Seq(Chars) /\ 0 \in 0..2 /\ m + 3 \in pos..lim /\ m + 3 \in Nat /\ lim \in Nat
    BY <2>0 DEF Chars
  <2>10. \A k \in (m + 3) + 1 .. m + 3 : text[k] = CR
    OBVIOUS
  <2>a. (0 > 0 \/ Has(text, (m + 3) + 1, CR) => Row(text, m + 3) % 2 = 0) /\ (m + 3) + 0 = m + 3
    BY <2>8
  <2>11. Passed(Pass(m + 3, 0, <<LF>>))
    BY <2>a, <2>7, <2>8, <2>9, <2>10, PassedIs
  <2>12. QED
    BY <2>2, <2>11 DEF r
<1>4. CASE m + 2 # lim /\ text[m + 3] # LF
  <2>0. m + 3 <= lim /\ m + 3 <= Len(text) /\ (m + 2) + 1 = m + 3 /\ m + 2 \in Nat
    BY <1>4
  <2>1. r = Pass(m + 2, 0, Lines(2))
    BY <1>4, <2>0 DEF AfterTwo
  <2>2. r = Pass(m + 2, 0, <<LF, LF>>)
    BY <2>1 DEF Lines
  <2>3. ~Belongs(text, m + 1) /\ ~Belongs(text, m + 2)
    BY <1>1, <1>4, <2>0 DEF Belongs, Has, Row, CR, LF
  <2>4. ReceivedOf(text, m + 1) = <<LF>> /\ ReceivedOf(text, m + 2) = <<LF>>
    BY <2>3 DEF ReceivedOf
  <2>5. LF \in Chars
    BY DEF Chars
  <2> HIDE DEF r
  <2>6. RecTo(text, m + 2) = tout \o <<LF, LF>>
    <3>1. RecTo(text, m + 1) = tout \o <<LF>> /\ RecTo(text, m + 2) = RecTo(text, m + 1) \o <<LF>>
      BY <1>0, <2>4
    <3>2. (tout \o <<LF>>) \o <<LF>> = tout \o <<LF, LF>>
      BY <2>5, JoinTwo
    <3>3. QED
      BY <3>1, <3>2
  <2>7. <<LF, LF>> \in Seq(Chars) /\ 0 \in 0..2 /\ m + 2 \in Nat /\ lim \in Nat
    BY <2>5
  <2>10. \A k \in (m + 2) + 1 .. m + 2 : text[k] = CR
    OBVIOUS
  <2>a. (0 > 0 \/ Has(text, (m + 2) + 1, CR) => Row(text, m + 2) % 2 = 0) /\ (m + 2) + 0 = m + 2
    BY <1>1
  <2>11. Passed(Pass(m + 2, 0, <<LF, LF>>))
    BY <2>a, <1>1, <2>6, <2>7, <2>10, PassedIs
  <2>8. Passed(r)
    BY <2>2, <2>11
  <2>9. QED
    BY <2>8 DEF r
<1>5. QED
  BY <1>2, <1>3, <1>4

LEMMA OneHeld ==
    ASSUME text \in Seq(Chars), tout \in Seq(Chars), NEW m \in Nat, m + 1 \in pos..lim, pos \in Nat,
           lim \in 0..Len(text), text[m + 1] = CR,
           Row(text, m) % 2 = 0, tout = RecTo(text, m)
    PROVE  Passed(AfterOne(m + 1))
<1> DEFINE r == AfterOne(m + 1)
<1>0. /\ RecTo(text, m) \in Seq(Chars) /\ m + 1 <= Len(text)
      /\ RecTo(text, m + 1) = RecTo(text, m) \o ReceivedOf(text, m + 1)
  <2>1. m + 1 <= Len(text) /\ m \in 0..Len(text)
    OBVIOUS
  <2>2. QED
    BY <2>1, RecMore, RecTyped
<1>2. CASE m + 1 = lim
  <2>1. r = Pass(m + 1, 1, <<>>)
    BY <1>2 DEF AfterOne
  <2>3. \A k \in m + 1 .. m + 1 : text[k] = CR
    OBVIOUS
  <2>4. tout \o <<>> = RecTo(text, m) /\ <<>> \in Seq(Chars) /\ 1 \in 0..2 /\ lim \in Nat
    BY JoinNone
  <2> HIDE DEF r
  <2>5. Passed(Pass(m + 1, 1, <<>>))
    BY <2>3, <2>4, PassedIs
  <2>6. QED
    BY <2>1, <2>5 DEF r
<1>3. CASE m + 1 # lim /\ text[m + 2] = CR
  <2>0. m + 2 \in pos..lim /\ (m + 1) + 1 = m + 2
    BY <1>3
  <2>1. r = AfterTwo(m + 2)
    BY <1>3, <2>0 DEF AfterOne
  <2>2. Passed(AfterTwo(m + 2))
    BY <1>3, <2>0, TwoHeld
  <2>3. QED
    BY <2>1, <2>2
<1>4. CASE m + 1 # lim /\ text[m + 2] = LF
  <2>0. m + 2 <= lim /\ m + 2 <= Len(text) /\ (m + 1) + 1 = m + 2 /\ m + 1 \in Nat
    BY <1>4
  <2>1. r = Pass(m + 2, 0, Lines(1))
    BY <1>4, <2>0 DEF AfterOne, CR, LF
  <2>2. r = Pass(m + 2, 0, <<LF>>)
    BY <2>1 DEF Lines
  <2>3. Belongs(text, m + 1)
    BY <1>4, <2>0 DEF Belongs, Has
  <2>4. ReceivedOf(text, m + 1) = <<>>
    BY <2>3 DEF ReceivedOf
  <2>5. ReceivedOf(text, m + 2) = <<LF>>
    BY <1>4 DEF ReceivedOf, CR, LF
  <2>6. RecTo(text, m + 2) = RecTo(text, m + 1) \o ReceivedOf(text, m + 2)
    BY <2>0, RecMore
  <2> HIDE DEF r
  <2>7. RecTo(text, m + 2) = tout \o <<LF>>
    <3>1. RecTo(text, m + 1) = tout
      BY <1>0, <2>4, JoinNone
    <3>2. QED
      BY <2>5, <2>6, <3>1
  <2>8. Row(text, m + 2) = 0
    BY <1>4, <2>0, RowMore DEF CR, LF
  <2>9. <<LF>> \in Seq(Chars) /\ 0 \in 0..2 /\ m + 2 \in pos..lim /\ m + 2 \in Nat /\ lim \in Nat
    BY <2>0 DEF Chars
  <2>10. \A k \in (m + 2) + 1 .. m + 2 : text[k] = CR
    OBVIOUS
  <2>a. (0 > 0 \/ Has(text, (m + 2) + 1, CR) => Row(text, m + 2) % 2 = 0) /\ (m + 2) + 0 = m + 2
    BY <2>8
  <2>11. Passed(Pass(m + 2, 0, <<LF>>))
    BY <2>a, <2>7, <2>8, <2>9, <2>10, PassedIs
  <2>12. QED
    BY <2>2, <2>11 DEF r
<1>5. CASE m + 1 # lim /\ text[m + 2] # LF /\ text[m + 2] # CR
  <2>0. m + 2 <= lim /\ m + 2 <= Len(text) /\ (m + 1) + 1 = m + 2 /\ m + 1 \in Nat
    BY <1>5
  <2>1. r = Pass(m + 1, 0, Lines(1))
    BY <1>5, <2>0 DEF AfterOne
  <2>2. r = Pass(m + 1, 0, <<LF>>)
    BY <2>1 DEF Lines
  <2>3. ~Belongs(text, m + 1)
    BY <1>5, <2>0 DEF Belongs, Has
  <2>4. ReceivedOf(text, m + 1) = <<LF>>
    BY <2>3 DEF ReceivedOf
  <2> HIDE DEF r
  <2>5. <<LF>> \in Seq(Chars) /\ 0 \in 0..2 /\ lim \in Nat
    BY DEF Chars
  <2>6. ~Has(text, (m + 1) + 1, CR)
    BY <1>5, <2>0 DEF Has
  <2>7. tout \o <<LF>> = RecTo(text, m + 1)
    BY <1>0, <2>4
  <2>10. \A k \in (m + 1) + 1 .. m + 1 : text[k] = CR
    OBVIOUS
  <2>a. (0 > 0 \/ Has(text, (m + 1) + 1, CR) => Row(text, m + 1) % 2 = 0) /\ (m + 1) + 0 = m + 1
    BY <2>6
  <2>11. Passed(Pass(m + 1, 0, <<LF>>))
    BY <2>a, <2>0, <2>5, <2>6, <2>7, <2>10, PassedIs
  <2>12. QED
    BY <2>2, <2>11 DEF r
<1>6. QED
  BY <1>2, <1>3, <1>4, <1>5

LEMMA PassedOn ==
    ASSUME text \in Seq(Chars), GInv, tkind = "get", tdone = "no", pos < lim
    PROVE  Passed(GetPass)
<1> DEFINE m == pos - crs
<1>1. /\ pos \in Nat /\ lim \in 0..Len(text) /\ pos + 1 <= lim /\ tout \in Seq(Chars)
      /\ crs \in 0..2 /\ m \in Nat /\ tout \o <<>> = RecTo(text, m)
      /\ \A k \in m + 1 .. pos : text[k] = CR
      /\ crs > 0 \/ Has(text, pos + 1, CR) => Row(text, m) % 2 = 0
  BY DEF GInv, Passed, Pass
<1>2. tout = RecTo(text, m)
  BY <1>1
<1> HIDE DEF m
<1>3. CASE crs = 2
  <2>1. m + 2 = pos
    BY <1>1, <1>3 DEF m
  <2>2. text[m + 1] = CR /\ text[m + 2] = CR
    BY <1>1, <2>1
  <2>3. Passed(AfterTwo(m + 2))
    BY <1>1, <1>2, <1>3, <2>1, <2>2, TwoHeld
  <2>4. QED
    BY <1>3, <2>1, <2>3 DEF GetPass
<1>4. CASE crs = 1
  <2>1. m + 1 = pos
    BY <1>1, <1>4 DEF m
  <2>2. text[m + 1] = CR
    BY <1>1, <2>1
  <2>3. Passed(AfterOne(m + 1))
    BY <1>1, <1>2, <1>4, <2>1, <2>2, OneHeld
  <2>4. QED
    BY <1>4, <2>1, <2>3 DEF GetPass
<1>5. CASE crs = 0 /\ text[pos + 1] = CR
  <2>1. m = pos
    BY <1>1, <1>5 DEF m
  <2>2. Row(text, m) % 2 = 0
    BY <1>1, <1>5 DEF Has
  <2>3. Passed(AfterOne(m + 1))
    BY <1>1, <1>2, <1>5, <2>1, <2>2, OneHeld
  <2>4. QED
    BY <1>5, <2>1, <2>3 DEF GetPass
<1>6. CASE crs = 0 /\ text[pos + 1] # CR
  <2> DEFINE c == text[pos + 1]
  <2>0. pos + 1 <= Len(text) /\ c \in Chars /\ m = pos
    BY <1>1, <1>6 DEF m
  <2>1. GetPass = Pass(pos + 1, 0, <<c>>)
    BY <1>6 DEF GetPass
  <2>2. ReceivedOf(text, pos + 1) = <<c>>
    BY <1>6 DEF ReceivedOf
  <2>3. RecTo(text, pos + 1) = RecTo(text, pos) \o <<c>>
    BY <1>1, <2>0, <2>2, RecMore
  <2>4. Row(text, pos + 1) = 0
    BY <1>1, <1>6, RowMore
  <2>5. <<c>> \in Seq(Chars)
    BY <2>0
  <2> HIDE DEF c
  <2>6. Passed(Pass(pos + 1, 0, <<c>>))
    BY <1>1, <1>2, <2>0, <2>3, <2>4, <2>5 DEF Passed, Pass
  <2>7. QED
    BY <2>1, <2>6
<1>7. QED
  BY <1>1, <1>3, <1>4, <1>5, <1>6

TypedText == text \in Seq(Chars) /\ tkind \in {"get", "put", "size", "seek"}

LEMMA TypedTextInit == TInit => TypedText
<1> SUFFICES ASSUME TInit PROVE TypedText
  OBVIOUS
<1>1. text \in Seq(STRING) /\ tkind \in {"get", "put", "size", "seek"}
  BY BlockAssumption DEF TInit
<1>2. text \in Seq(Chars)
  BY <1>1 DEF Chars
<1>3. QED
  BY <1>1, <1>2 DEF TypedText

LEMMA TextStays == [TNext]_tvars => UNCHANGED <<text, tkind, pipe, skip>>
  BY DEF TNext, tvars, GetBlockOfText, GetText, GetTextEnd, PutText, PutTextEnd, CountBlock, CountEnd,
         SeekBlock, SeekEnd

LEMMA GInvInit == TInit /\ TypedText => GInv
<1> SUFFICES ASSUME TInit, TypedText, tkind = "get" PROVE GInv
  BY DEF GInv
<1>1. pos = 0 /\ lim = 0 /\ tout = <<>> /\ crs = 0 /\ tdone = "no"
  BY DEF TInit
<1>2. RecTo(text, 0) = <<>> /\ Row(text, 0) = 0 /\ tout \in Seq(Chars) /\ Len(text) \in Nat
  BY <1>1, RecTyped, RowMore DEF TypedText
<1>3. Passed(Pass(0, 0, <<>>))
  <2>1. tout \o <<>> = RecTo(text, 0)
    BY <1>1, <1>2, JoinNone
  <2>2. (\A k \in 0 + 1 .. 0 : text[k] = CR) /\ 0 + 0 = 0 /\ 0 \in 0..2 /\ 0 \in pos..lim /\ 0 \in Nat
    BY <1>1
  <2>3. 0 > 0 \/ Has(text, 0 + 1, CR) => Row(text, 0) % 2 = 0
    BY <1>2
  <2>4. pos \in Nat /\ lim \in Nat /\ <<>> \in Seq(Chars)
    BY <1>1
  <2>5. QED
    BY <2>1, <2>2, <2>3, <2>4, PassedIs
<1>4. QED
  BY <1>1, <1>2, <1>3 DEF GInv

(* A pass leaves what Passed says of it.                                   *)
LEMMA GetTextSafe == ASSUME TypedText, GInv, GetText PROVE GInv'
<1> DEFINE r == GetPass
<1>1. /\ tkind = "get" /\ tdone = "no" /\ pos < lim /\ pos' = r.at /\ crs' = r.crs /\ tout' = tout \o r.out
      /\ UNCHANGED <<tkind, text, lim, tdone>>
  BY DEF GetText
<1>2. Passed(r)
  BY <1>1, PassedOn DEF TypedText
<1> HIDE DEF r
<1>3. /\ pos \in 0..Len(text) /\ lim \in pos..Len(text) /\ tout \in Seq(Chars) /\ Len(text) \in Nat
  BY <1>1 DEF GInv, TypedText
<1>4. /\ r.at \in pos..lim /\ r.crs \in 0..2 /\ r.crs <= r.at /\ r.out \in Seq(Chars)
      /\ \A k \in r.at - r.crs + 1 .. r.at : text[k] = CR
      /\ tout \o r.out = RecTo(text, r.at - r.crs)
      /\ r.crs > 0 \/ Has(text, r.at + 1, CR) => Row(text, r.at - r.crs) % 2 = 0
  BY <1>2 DEF Passed
<1>5. tout' \in Seq(Chars)
  <2>1. PICK o \in Seq(Chars) : o = r.out
    BY <1>4
  <2>2. tout \o o \in Seq(Chars)
    BY <1>3
  <2>3. QED
    BY <1>1, <2>1, <2>2
<1>6. pos' \in 0..Len(text) /\ lim' \in pos'..Len(text)
  BY <1>1, <1>3, <1>4
<1>7. Passed(Pass(pos, crs, <<>>))'
  <2>1. tout' \o <<>> = RecTo(text, pos' - crs')
    BY <1>1, <1>4, <1>5, JoinNone
  <2>2. /\ pos' \in pos'..lim' /\ crs' \in 0..2 /\ crs' <= pos' /\ <<>> \in Seq(Chars)
    BY <1>1, <1>4, <1>6
  <2>3. QED
    BY <1>1, <1>4, <2>1, <2>2 DEF Passed, Pass, RecTo, Has, Row, CRsTo, ReceivedOf, Belongs
<1>8. QED
  BY <1>1, <1>5, <1>6, <1>7 DEF GInv

LEMMA GetTextEndSafe == ASSUME TypedText, GInv, GetTextEnd PROVE GInv'
<1>1. /\ tkind = "get" /\ tdone = "no" /\ pos = Len(text) /\ tout' = tout \o Lines(crs) /\ tdone' = "ok"
      /\ UNCHANGED <<tkind, text, pos, lim>>
  BY DEF GetTextEnd, AtEnd
<1>2. /\ text \in Seq(Chars) /\ tout \in Seq(Chars) /\ pos \in Nat /\ lim \in pos..Len(text)
      /\ crs \in 0..2 /\ crs <= pos /\ tout = RecTo(text, pos - crs)
      /\ \A k \in pos - crs + 1 .. pos : text[k] = CR
  <2>1. tout \o <<>> = tout
    BY <1>1, JoinNone DEF GInv
  <2>2. QED
    BY <1>1, <2>1 DEF GInv, Passed, Pass, TypedText
<1>3. LF \in Chars /\ <<LF>> \in Seq(Chars) /\ <<LF, LF>> \in Seq(Chars)
  BY DEF Chars
<1>4. tout \o Lines(crs) = RecTo(text, pos) /\ tout \o Lines(crs) \in Seq(Chars)
  <2>1. CASE crs = 0
    <3>1. Lines(crs) = <<>>
      BY <2>1 DEF Lines
    <3>2. tout \o <<>> = tout /\ pos - crs = pos
      BY <1>2, <2>1, JoinNone
    <3>3. QED
      BY <1>2, <3>1, <3>2
  <2>2. CASE crs = 1
    <3>1. Lines(crs) = <<LF>>
      BY <2>2 DEF Lines
    <3>2. PICK m \in Nat : m + 1 = pos
      BY <1>2, <2>2
    <3>3. text[m + 1] = CR /\ ~Belongs(text, m + 1) /\ m = pos - crs
      BY <1>1, <1>2, <2>2, <3>2 DEF Belongs, Has
    <3>a. ReceivedOf(text, m + 1) = <<LF>> /\ m + 1 <= Len(text)
      BY <1>1, <3>2, <3>3 DEF ReceivedOf
    <3>4. RecTo(text, m + 1) = RecTo(text, m) \o <<LF>>
      BY <1>2, <3>a, RecMore
    <3>5. QED
      BY <1>2, <1>3, <3>1, <3>2, <3>3, <3>4
  <2>3. CASE crs = 2
    <3>1. Lines(crs) = <<LF, LF>>
      BY <2>3 DEF Lines
    <3>2. PICK m \in Nat : m + 2 = pos
      BY <1>2, <2>3
    <3>3. text[m + 1] = CR /\ text[m + 2] = CR /\ m = pos - crs
      BY <1>2, <2>3, <3>2
    <3>4. ~Belongs(text, m + 1) /\ ~Belongs(text, m + 2)
      BY <1>1, <1>2, <3>2, <3>3 DEF Belongs, Has, CR, LF
    <3>a. ReceivedOf(text, m + 1) = <<LF>> /\ m + 1 <= Len(text)
      BY <1>1, <3>2, <3>3, <3>4 DEF ReceivedOf
    <3>5. RecTo(text, m + 1) = RecTo(text, m) \o <<LF>>
      BY <1>2, <3>a, RecMore
    <3>6. m + 1 \in Nat /\ (m + 1) + 1 = m + 2 /\ m + 2 <= Len(text)
      BY <1>1, <3>2
    <3>7. RecTo(text, m + 2) = RecTo(text, m + 1) \o <<LF>>
      BY <1>2, <3>3, <3>4, <3>6, RecMore DEF ReceivedOf
    <3>8. (tout \o <<LF>>) \o <<LF>> = tout \o <<LF, LF>>
      BY <1>2, <1>3, JoinTwo
    <3>9. RecTo(text, m + 2) = tout \o <<LF, LF>>
      BY <1>2, <3>3, <3>5, <3>7, <3>8
    <3>10. tout \o <<LF, LF>> \in Seq(Chars)
      BY <1>2, <1>3
    <3>11. QED
      BY <3>1, <3>2, <3>9, <3>10
  <2>4. crs = 0 \/ crs = 1 \/ crs = 2
    BY <1>2
  <2>5. QED
    BY <2>1, <2>2, <2>3, <2>4
<1>5. Received(text) = RecTo(text, pos)
  BY <1>1, <1>2, RecTyped
<1>6. QED
  BY <1>1, <1>2, <1>4, <1>5 DEF GInv, Received, ReceivedOf, Belongs, Has, CRsTo

LEMMA GInvStep == ASSUME TypedText, GInv, [TNext]_tvars PROVE GInv'
<1>1. CASE GetText
  BY <1>1, GetTextSafe
<1>2. CASE GetTextEnd
  BY <1>2, GetTextEndSafe
<1>3. CASE GetBlockOfText
  <2>1. /\ tkind = "get" /\ pos = lim /\ lim' \in pos + 1 .. Len(text) /\ tdone = "no"
        /\ UNCHANGED <<text, pos, tout, crs, tdone, tkind>>
    BY <1>3 DEF GetBlockOfText, Blocks
  <2>2. pos \in 0..Len(text) /\ tout \in Seq(Chars) /\ Passed(Pass(pos, crs, <<>>)) /\ Len(text) \in Nat
    BY <2>1 DEF GInv, TypedText
  <2>3. Passed(Pass(pos, crs, <<>>))'
    BY <2>1, <2>2 DEF Passed, Pass, RecTo, Has, Row, CRsTo, ReceivedOf, Belongs
  <2>4. QED
    BY <2>1, <2>2, <2>3 DEF GInv
<1>4. CASE UNCHANGED tvars
  BY <1>4 DEF tvars, GInv, Passed, Pass, RecTo, Has, Row, CRsTo, ReceivedOf, Belongs, Received
<1>5. CASE PutText \/ PutTextEnd \/ CountBlock \/ CountEnd \/ SeekBlock \/ SeekEnd
  <2>1. tkind' = tkind
    BY TextStays
  <2>2. CASE tkind = "get"
    <3>1. tdone = "lone" /\ PutTextEnd
      BY <1>5, <2>2 DEF PutText, PutTextEnd, CountBlock, CountEnd, SeekBlock, SeekEnd
    <3>2. QED
      BY <2>2, <3>1 DEF GInv
  <2>3. QED
    BY <2>1, <2>2 DEF GInv
<1>6. QED
  BY <1>1, <1>2, <1>3, <1>4, <1>5 DEF TNext
-----------------------------------------------------------------------------
(***************************************************************************)
(* FTPPutOneF.  What has been sent is what the text read stands for, but   *)
(* for a CR at its end.                                                    *)
(***************************************************************************)
Waits(n) == IF n > 0 /\ text[n] = CR THEN n - 1 ELSE n

PInv ==
    tkind = "put" =>
      /\ pos \in 0..Len(text) /\ tout \in Seq(Chars) /\ lone \in BOOLEAN /\ pipe \in BOOLEAN
      /\ tdone \in {"no", "lone", "ok"}
      /\ lastch = IF pos = 0 THEN "none" ELSE text[pos]
      /\ lone => ~NoCR(Len(text))
      /\ tdone = "no" => ~lone /\ tout = SentTo(text, Waits(pos))
      /\ tdone = "lone" =>
           /\ lone /\ pos > 0 /\ text[pos] = CR
           /\ ~pipe => pos = Len(text) /\ (pos = 1 \/ text[pos - 1] # CR => tout = SentTo(text, pos - 1))
      /\ tdone = "ok" => PutTranslates

CrLf == <<CR, LF>>

LEMMA CrLfTyped == CrLf \in Seq(Chars) /\ CR \in Chars /\ LF \in Chars /\ CR # LF
  BY DEF CrLf, Chars, CR, LF

LEMMA PutCharTyped ==
    ASSUME TypedText, pos \in Nat, NEW i \in pos + 1 .. Len(text) PROVE PutChar(i) \in Seq(Chars)
<1>1. text[i] \in Chars
  BY DEF TypedText
<1>2. <<text[i]>> \in Seq(Chars) /\ <<>> \in Seq(Chars)
  BY <1>1
<1>3. QED
  BY <1>2, CrLfTyped DEF PutChar, CrLf

LEMMA TranslatedNone == ASSUME pos \in Nat PROVE Translated(pos) = <<>>
<1> DEFINE e == [i \in 1..0 |-> PutChar(pos + i)]
<1>1. Len(e) = 0 /\ e = <<>> /\ pos - pos = 0
  OBVIOUS
<1>2. Translated(pos) = FlattenSeq(e)
  BY <1>1 DEF Translated
<1> HIDE DEF e
<1>3. FlattenSeq(e) = <<>>
  BY <1>1 DEF FlattenSeq
<1>4. QED
  BY <1>2, <1>3

LEMMA TranslatedMore ==
    ASSUME TypedText, pos \in Nat, NEW k \in Nat, pos <= k, k + 1 <= Len(text)
    PROVE  /\ Translated(k) \in Seq(Chars)
           /\ Translated(k + 1) = Translated(k) \o PutChar(k + 1)
<1>0. PICK n \in Nat : n = k - pos /\ n + 1 = (k + 1) - pos /\ pos + (n + 1) = k + 1
  OBVIOUS
<1> DEFINE ss == [i \in 1..n |-> PutChar(pos + i)]
           tt == [i \in 1 .. n + 1 |-> PutChar(pos + i)]
<1>1. ASSUME NEW i \in 1 .. n + 1 PROVE PutChar(pos + i) \in Seq(Chars)
  <2>1. pos + i \in pos + 1 .. Len(text)
    BY <1>0 DEF TypedText
  <2>2. QED
    BY <2>1, PutCharTyped
<1>2. ss \in [1..n -> Seq(Chars)]
  <2>1. \A i \in 1..n : PutChar(pos + i) \in Seq(Chars)
    BY <1>1
  <2>2. QED
    BY <2>1
<1>a. tt \in [1 .. n + 1 -> Seq(Chars)]
  <2>1. \A i \in 1 .. n + 1 : PutChar(pos + i) \in Seq(Chars)
    BY <1>1
  <2>2. QED
    BY <2>1
<1>3. (\A i \in 1..n : ss[i] = tt[i]) /\ tt[n + 1] = PutChar(k + 1)
  BY <1>0
<1>4. Translated(k) = FlattenSeq(ss) /\ Translated(k + 1) = FlattenSeq(tt)
  BY <1>0 DEF Translated
<1> HIDE DEF ss, tt
<1>5. FlattenSeq(tt) = FlattenSeq(ss) \o tt[n + 1]
  BY <1>2, <1>a, <1>3, FlattenMore
<1>6. FlattenSeq(ss) \in Seq(Chars)
  BY <1>2, FlattenTyped
<1>8. QED
  BY <1>3, <1>4, <1>5, <1>6

(* A CR that the next character makes the beginning of an end of line.     *)
Half(k) == k > pos /\ text[k] = CR /\ Has(text, k + 1, LF)

LEMMA JoinThree ==
    ASSUME NEW S, NEW s \in Seq(S), NEW t \in Seq(S), NEW u \in Seq(S)
    PROVE  (s \o t) \o u = s \o (t \o u) /\ s \o t \in Seq(S)
  BY ConcatAssociative, ConcatProperties

(* A block, translated character by character behind what was sent.        *)
Behind(start, k) == start \o Translated(k) = SentTo(text, k) \o (IF Half(k) THEN CrLf ELSE <<>>)

LEMMA BehindMore ==
    ASSUME TypedText, pos \in Nat, NEW start \in Seq(Chars), NEW k \in Nat, pos <= k, k + 1 <= Len(text),
           Behind(start, k)
    PROVE  Behind(start, k + 1)
<1>0. text \in Seq(Chars) /\ Len(text) \in Nat /\ k \in 0..Len(text) /\ k + 1 \in 0..Len(text)
      /\ k + 1 \in 1..Len(text) /\ k + 1 \in pos + 1 .. Len(text)
  BY DEF TypedText
<1> DEFINE A == SentTo(text, k)
           T == Translated(k)
           P == PutChar(k + 1)
           O == SentOf(text, k + 1)
           N == SentTo(text, k + 1)
<1>1. T \in Seq(Chars) /\ Translated(k + 1) = T \o P
  BY TranslatedMore
<1>2. A \in Seq(Chars) /\ N \in Seq(Chars)
  BY <1>0, SentTyped
<1>3. N = A \o O
  BY <1>0, SentMore
<1>4. P \in Seq(Chars) /\ O \in Seq(Chars)
  BY <1>0, PutCharTyped, SentOfTyped
<1>5. start \o T = A \o (IF Half(k) THEN CrLf ELSE <<>>)
  BY DEF Behind
<1>p. P = IF text[k + 1] = CR THEN CrLf
          ELSE IF text[k + 1] = LF THEN IF k > pos /\ text[k] = CR THEN <<>> ELSE CrLf
          ELSE <<text[k + 1]>>
  <2>1. (k + 1) - 1 = k /\ (k + 1 > pos + 1 <=> k > pos)
    OBVIOUS
  <2>2. QED
    BY <2>1 DEF PutChar, CrLf
<1>o. O = IF EndsLine(text, k + 1) THEN CrLf ELSE IF text[k + 1] = CR THEN <<>> ELSE <<text[k + 1]>>
  BY DEF SentOf, CrLf
<1>e. EndsLine(text, k + 1) <=> text[k + 1] = LF \/ (text[k + 1] = CR /\ ~Half(k + 1))
  BY DEF EndsLine, Half
<1>h. Half(k) <=> k > pos /\ text[k] = CR /\ text[k + 1] = LF
  BY <1>0 DEF Half, Has
<1>g. Half(k + 1) => text[k + 1] = CR
  BY DEF Half
<1> HIDE DEF A, T, P, O, N
<1>6. start \o Translated(k + 1) = (start \o T) \o P
  <2>1. T \in Seq(Chars) /\ P \in Seq(Chars)
    BY <1>1, <1>4
  <2>2. (start \o T) \o P = start \o (T \o P)
    BY <2>1, JoinThree
  <2>3. QED
    BY <1>1, <2>2
<1>7. A \o <<>> = A /\ N \o <<>> = N /\ (A \o CrLf) \o <<>> = A \o CrLf
  BY <1>2, CrLfTyped
<1>8. start \o Translated(k + 1) = N \o (IF Half(k + 1) THEN CrLf ELSE <<>>)
  <2>1. CASE text[k + 1] = CR /\ Half(k + 1)
    <3>1. ~Half(k) /\ start \o T = A /\ P = CrLf /\ O = <<>> /\ N = A
      BY <1>3, <1>5, <1>7, <1>p, <1>o, <1>e, <1>h, <2>1, CrLfTyped
    <3>2. QED
      BY <1>6, <2>1, <3>1
  <2>2. CASE text[k + 1] = CR /\ ~Half(k + 1)
    <3>1. ~Half(k) /\ start \o T = A /\ P = CrLf /\ O = CrLf
      BY <1>5, <1>7, <1>p, <1>o, <1>e, <1>h, <2>2, CrLfTyped
    <3>2. QED
      BY <1>3, <1>6, <1>7, <2>2, <3>1
  <2>3. CASE text[k + 1] = LF /\ Half(k)
    <3>1. ~Half(k + 1) /\ start \o T = A \o CrLf /\ P = <<>> /\ O = CrLf
      BY <1>5, <1>7, <1>p, <1>o, <1>e, <1>h, <1>g, <2>3, CrLfTyped
    <3>2. QED
      BY <1>3, <1>6, <1>7, <3>1
  <2>4. CASE text[k + 1] = LF /\ ~Half(k)
    <3>1. ~Half(k + 1) /\ start \o T = A /\ P = CrLf /\ O = CrLf
      BY <1>5, <1>7, <1>p, <1>o, <1>e, <1>h, <1>g, <2>4, CrLfTyped
    <3>2. QED
      BY <1>3, <1>6, <1>7, <3>1
  <2>5. CASE text[k + 1] # LF /\ text[k + 1] # CR
    <3>1. ~Half(k + 1) /\ ~Half(k) /\ start \o T = A /\ P = O
      BY <1>5, <1>7, <1>p, <1>o, <1>e, <1>h, <1>g, <2>5, CrLfTyped
    <3>2. QED
      BY <1>3, <1>6, <1>7, <3>1
  <2>6. QED
    BY <1>g, <2>1, <2>2, <2>3, <2>4, <2>5
<1>9. QED
  BY <1>8 DEF Behind, N

LEMMA BlockSent ==
    ASSUME TypedText, pos \in Nat, pos <= Len(text), NEW start \in Seq(Chars), start = SentTo(text, pos)
    PROVE  \A k \in pos .. Len(text) : Behind(start, k)
<1>0. Len(text) \in Nat
  BY DEF TypedText
<1> DEFINE Q == {n \in Nat : pos + n <= Len(text) => Behind(start, pos + n)}
<1>2. 0 \in Q
  <2>1. Translated(pos) = <<>>
    BY TranslatedNone
  <2>2. ~Half(pos) /\ pos + 0 = pos
    BY DEF Half
  <2>3. Behind(start, pos)
    BY <2>1, <2>2 DEF Behind
  <2>4. QED
    BY <2>2, <2>3
<1>3. ASSUME NEW n \in Nat, n \in Q PROVE n + 1 \in Q
  <2>1. CASE pos + (n + 1) <= Len(text)
    <3>1. PICK k \in Nat : k = pos + n
      OBVIOUS
    <3>2. k + 1 = pos + (n + 1) /\ pos <= k /\ k + 1 <= Len(text) /\ pos + n <= Len(text)
      BY <1>0, <2>1, <3>1
    <3>3. Behind(start, k)
      BY <1>3, <3>1, <3>2
    <3>4. Behind(start, k + 1)
      BY <3>2, <3>3, BehindMore
    <3>5. Behind(start, pos + (n + 1)) /\ n + 1 \in Nat
      BY <3>2, <3>4
    <3>6. QED
      BY <3>5
  <2>2. CASE ~(pos + (n + 1) <= Len(text))
    BY <2>2
  <2>3. QED
    BY <2>1, <2>2
<1> HIDE DEF Q
<1>4. \A n \in Nat : n \in Q
  BY <1>2, <1>3, ByNat
<1>5. ASSUME NEW k \in pos .. Len(text) PROVE Behind(start, k)
  <2>1. PICK n \in Nat : pos + n = k
    <3>1. k - pos \in Nat /\ pos + (k - pos) = k
      BY <1>0
    <3>2. QED
      BY <3>1
  <2>2. n \in Q /\ k <= Len(text)
    BY <1>4, <1>0
  <2>3. pos + n <= Len(text) => Behind(start, pos + n)
    BY <2>2 DEF Q
  <2>4. QED
    BY <2>1, <2>2, <2>3
<1>6. QED
  BY <1>5

LEMMA PInvInit == TInit /\ TypedText => PInv
<1> SUFFICES ASSUME TInit, TypedText, tkind = "put" PROVE PInv
  BY DEF PInv
<1>1. pos = 0 /\ tout = <<>> /\ lastch = "none" /\ lone = FALSE /\ tdone = "no" /\ pipe \in BOOLEAN
  BY BlockAssumption DEF TInit
<1>2. SentTo(text, 0) = <<>> /\ tout \in Seq(Chars) /\ Len(text) \in Nat
  BY <1>1, SentTyped DEF TypedText
<1>3. Waits(pos) = 0 /\ tout = SentTo(text, Waits(pos)) /\ pos \in 0..Len(text)
  BY <1>1, <1>2 DEF Waits
<1>4. QED
  BY <1>1, <1>2, <1>3 DEF PInv

(* What precedes a block, when its first character is known.               *)
LEMMA BlockBegins ==
    ASSUME TypedText, PInv, tkind = "put", tdone = "no", pos + 1 <= Len(text)
    PROVE  tout \o (IF lastch = CR /\ text[pos + 1] # LF THEN CrLf ELSE <<>>) = SentTo(text, pos)
<1>1. /\ pos \in Nat /\ text \in Seq(Chars) /\ tout \in Seq(Chars)
      /\ tout = SentTo(text, Waits(pos)) /\ lastch = IF pos = 0 THEN "none" ELSE text[pos]
  BY DEF PInv, TypedText
<1>2. CASE pos > 0 /\ text[pos] = CR
  <2>1. PICK m \in Nat : m + 1 = pos /\ m = pos - 1
    BY <1>1, <1>2
  <2>2. lastch = CR /\ tout = SentTo(text, m) /\ m + 1 <= Len(text)
    BY <1>1, <1>2, <2>1 DEF Waits, TypedText
  <2>3. SentTo(text, m + 1) = tout \o SentOf(text, m + 1)
    BY <1>1, <2>2, SentMore
  <2>4. CASE text[pos + 1] = LF
    <3>1. SentOf(text, pos) = <<>>
      BY <1>2, <2>4, CrLfTyped DEF SentOf, EndsLine, Has
    <3>2. QED
      BY <2>1, <2>3, <2>4, <3>1
  <2>5. CASE text[pos + 1] # LF
    <3>1. SentOf(text, pos) = CrLf
      BY <1>2, <2>5 DEF SentOf, EndsLine, Has, CrLf
    <3>2. QED
      BY <2>1, <2>2, <2>3, <2>5, <3>1
  <2>6. QED
    BY <2>4, <2>5
<1>3. CASE ~(pos > 0 /\ text[pos] = CR)
  <2>1. lastch # CR /\ Waits(pos) = pos
    BY <1>1, <1>3 DEF Waits, CR
  <2>2. QED
    BY <1>1, <2>1, JoinNone
<1>4. QED
  BY <1>2, <1>3

LEMMA PutTextSafe == ASSUME TypedText, PInv, PutText PROVE PInv'
<1>1. /\ tkind = "put" /\ tdone = "no"
      /\ UNCHANGED <<tkind, pipe, text>>
  BY DEF PutText
<1>2. /\ pos \in 0..Len(text) /\ Len(text) \in Nat /\ text \in Seq(Chars) /\ tout \in Seq(Chars) /\ pipe \in BOOLEAN
      /\ ~lone /\ tout = SentTo(text, Waits(pos))
  BY <1>1 DEF PInv, TypedText
<1>3. PICK e \in Blocks :
       LET end == IF text[e] = CR THEN e - 1 ELSE e IN
       /\ pos' = e /\ lastch' = text[e]
       /\ IF end = pos THEN lone' = TRUE /\ tdone' = "lone" /\ UNCHANGED tout
          ELSE /\ tout' = tout \o (IF lastch = CR /\ text[pos + 1] # LF THEN <<CR, LF>> ELSE <<>>)
                               \o Translated(end)
               /\ UNCHANGED <<lone, tdone>>
  BY DEF PutText
<1>4. e \in pos + 1 .. Len(text) /\ (pipe \/ e = pos + BlockSize \/ e = Len(text))
  BY DEF Blocks
<1>5. CASE text[e] = CR /\ e - 1 = pos
  <2>1. lone' = TRUE /\ tdone' = "lone" /\ tout' = tout /\ pos' = e /\ lastch' = CR
    BY <1>3, <1>5
  <2>2. ~pipe => e = Len(text)
    <3>1. BlockSize \in Nat /\ BlockSize # 0 /\ BlockSize # 1
      BY BlockAssumption
    <3>2. QED
      BY <1>2, <1>4, <1>5, <3>1
  <2>3. e = 1 \/ text[e - 1] # CR => tout = SentTo(text, e - 1)
    BY <1>2, <1>4, <1>5 DEF Waits
  <2>4. ~NoCR(Len(text))
    BY <1>2, <1>4, <1>5 DEF NoCR
  <2>5. ~NoCR(Len(text))'
    BY <1>1, <2>4 DEF NoCR
  <2>6. e \in 0..Len(text) /\ e > 0 /\ e # 0
    BY <1>2, <1>4
  <2>7. (tout = SentTo(text, e - 1)) => (tout' = SentTo(text', pos' - 1))
    BY <1>1, <2>1
  <2>8. QED
    BY <1>1, <1>2, <1>5, <2>1, <2>2, <2>3, <2>5, <2>6, <2>7
    DEF PInv, SentTo, SentOf, EndsLine, Has
<1>6. CASE ~(text[e] = CR /\ e - 1 = pos)
  <2> DEFINE w == IF text[e] = CR THEN e - 1 ELSE e
             start == tout \o (IF lastch = CR /\ text[pos + 1] # LF THEN CrLf ELSE <<>>)
  <2>1. w # pos /\ w \in pos .. Len(text) /\ w = Waits(e) /\ w > pos
    BY <1>2, <1>4, <1>6 DEF Waits
  <2>2. tout' = start \o Translated(w) /\ lone' = lone /\ tdone' = tdone /\ pos' = e /\ lastch' = text[e]
    BY <1>3, <2>1 DEF CrLf
  <2>3. start = SentTo(text, pos)
    BY <1>1, <1>2, <1>4, BlockBegins
  <2>4. ~Half(w)
    BY <1>2, <1>4, CrLfTyped DEF Half, Has
  <2> HIDE DEF w, start
  <2>5. start \in Seq(Chars)
    BY <1>2, <2>3, SentTyped
  <2>6. Behind(start, w)
    BY <1>2, <2>1, <2>3, <2>5, BlockSent
  <2>7. SentTo(text, w) \in Seq(Chars)
    <3>1. w \in 0..Len(text)
      BY <1>2, <2>1
    <3>2. QED
      BY <1>2, <3>1, SentTyped
  <2>8. tout' = SentTo(text, w)
    BY <2>2, <2>4, <2>6, <2>7, JoinNone DEF Behind
  <2>9. Waits(pos)' = w
    BY <1>1, <2>1, <2>2 DEF Waits
  <2>10. tout' = SentTo(text, Waits(pos))'
    BY <1>1, <2>8, <2>9 DEF SentTo, SentOf, EndsLine, Has
  <2>11. e \in 0..Len(text) /\ e # 0
    BY <1>2, <1>4
  <2>12. tout' \in Seq(Chars)
    BY <2>7, <2>8
  <2>13. QED
    BY <1>1, <1>2, <2>2, <2>10, <2>11, <2>12 DEF PInv
<1>7. QED
  BY <1>5, <1>6

LEMMA PutTextEndSafe == ASSUME TypedText, PInv, tkind = "put", PutTextEnd PROVE PInv'
<1>1. /\ tdone' = "ok" /\ tout' = tout \o (IF lastch = CR THEN CrLf ELSE <<>>)
      /\ UNCHANGED <<tkind, pipe, text, pos, lone, lastch>> /\ (AtEnd \/ tdone = "lone")
  BY DEF PutTextEnd, CrLf
<1>2. /\ pos \in 0..Len(text) /\ Len(text) \in Nat /\ text \in Seq(Chars) /\ tout \in Seq(Chars)
      /\ lone \in BOOLEAN /\ lastch = IF pos = 0 THEN "none" ELSE text[pos]
      /\ pipe \in BOOLEAN
  BY DEF PInv, TypedText
<1>3. tout' \in Seq(Chars)
  BY <1>1, <1>2, CrLfTyped
<1>4. Sent(text) = SentTo(text, Len(text))
  BY <1>2, SentTyped
<1>5. ASSUME NEW m \in Nat, m + 1 = Len(text), text[m + 1] = CR
      PROVE  Sent(text) = SentTo(text, m) \o CrLf
  <2>1. SentOf(text, m + 1) = CrLf
    BY <1>5 DEF SentOf, EndsLine, Has, CrLf
  <2>a. m + 1 <= Len(text)
    BY <1>2, <1>5
  <2>2. SentTo(text, m + 1) = SentTo(text, m) \o CrLf
    BY <1>2, <2>1, <2>a, SentMore
  <2>3. QED
    BY <1>4, <1>5, <2>2
<1>6. ASSUME ~lone PROVE tout' = Sent(text)
  <2>1. tdone = "no" /\ pos = Len(text) /\ tout = SentTo(text, Waits(pos))
    BY <1>1, <1>6 DEF PInv, AtEnd
  <2>2. CASE pos > 0 /\ text[pos] = CR
    <3>1. PICK m \in Nat : m + 1 = pos /\ m = pos - 1
      BY <1>2, <2>2
    <3>2. lastch = CR /\ tout = SentTo(text, m)
      BY <1>2, <2>1, <2>2, <3>1 DEF Waits
    <3>3. QED
      BY <1>1, <1>5, <2>1, <2>2, <3>1, <3>2
  <2>3. CASE ~(pos > 0 /\ text[pos] = CR)
    <3>1. lastch # CR /\ Waits(pos) = pos
      BY <1>2, <2>3 DEF Waits, CR
    <3>2. QED
      BY <1>1, <1>2, <1>4, <2>1, <3>1, JoinNone
  <2>4. QED
    BY <2>2, <2>3
<1>7. ASSUME lone, ~pipe, Len(text) = 1 \/ text[Len(text) - 1] # CR PROVE tout' = Sent(text)
  <2>1. tdone = "lone"
    BY <1>1, <1>7 DEF PInv, AtEnd
  <2>2. pos > 0 /\ text[pos] = CR /\ pos = Len(text) /\ tout = SentTo(text, pos - 1)
    BY <1>7, <2>1 DEF PInv
  <2>3. PICK m \in Nat : m + 1 = pos /\ m = pos - 1
    BY <1>2, <2>2
  <2>4. lastch = CR
    BY <1>2, <2>2
  <2>5. QED
    BY <1>1, <1>5, <2>2, <2>3, <2>4
<1>8. PutTranslates'
  BY <1>1, <1>6, <1>7 DEF PutTranslates, Ended, Sent, SentOf, EndsLine, Has
<1>9. lone => ~NoCR(Len(text))'
  BY <1>1 DEF PInv, NoCR
<1>10. QED
  BY <1>1, <1>2, <1>3, <1>8, <1>9 DEF PInv

LEMMA PInvStep == ASSUME TypedText, PInv, [TNext]_tvars PROVE PInv'
<1>1. CASE PutText
  BY <1>1, PutTextSafe
<1>2. CASE PutTextEnd /\ tkind = "put"
  BY <1>2, PutTextEndSafe
<1>3. CASE PutTextEnd /\ tkind # "put"
  BY <1>3, TextStays DEF PInv
<1>4. CASE UNCHANGED tvars
  BY <1>4 DEF tvars, PInv, Waits, NoCR, SentTo, SentOf, EndsLine, Has, PutTranslates, Ended, Sent
<1>5. CASE GetBlockOfText \/ GetText \/ GetTextEnd \/ CountBlock \/ CountEnd \/ SeekBlock \/ SeekEnd
  <2>1. tkind # "put" /\ tkind' = tkind
    BY <1>5, TextStays DEF GetBlockOfText, GetText, GetTextEnd, CountBlock, CountEnd, SeekBlock, SeekEnd
  <2>2. QED
    BY <2>1 DEF PInv
<1>6. QED
  BY <1>1, <1>2, <1>3, <1>4, <1>5 DEF TNext
-----------------------------------------------------------------------------
(***************************************************************************)
(* There and back: a text without a CR, sent and then received.            *)
(***************************************************************************)
EndsPlain(t) == t # <<>> => t[Len(t)] # CR

LEMMA RecPrefix ==
    ASSUME NEW t \in Seq(Chars), NEW u \in Seq(Chars), Len(t) <= Len(u), \A i \in 1..Len(t) : u[i] = t[i], EndsPlain(t)
    PROVE  RecTo(u, Len(t)) = Received(t)
<1> DEFINE n == Len(t)
<1>0. n \in Nat /\ Len(u) \in Nat
  OBVIOUS
<1>1. ASSUME NEW i \in 1..n PROVE ReceivedOf(u, i) = ReceivedOf(t, i)
  <2>1. u[i] = t[i]
    OBVIOUS
  <2>2. CRsTo(u, i) = CRsTo(t, i)
    BY <1>0 DEF CRsTo
  <2>3. i = n => t[i] # CR
    BY <1>0 DEF EndsPlain
  <2>4. i # n => i + 1 \in 1..n /\ u[i + 1] = t[i + 1]
    BY <1>0
  <2>5. i + 1 = n => t[i + 1] # CR
    BY <1>0 DEF EndsPlain
  <2>6. i # n /\ i + 1 # n => i + 2 \in 1..n /\ u[i + 2] = t[i + 2]
    BY <1>0
  <2>7. t[i] = CR => (Belongs(u, i) <=> Belongs(t, i))
    BY <1>0, <2>2, <2>3, <2>4, <2>5, <2>6 DEF Belongs, Has
  <2>8. QED
    BY <2>1, <2>7 DEF ReceivedOf
<1>2. [i \in 1..n |-> ReceivedOf(u, i)] = [i \in 1..n |-> ReceivedOf(t, i)]
  BY <1>1
<1>3. QED
  BY <1>2 DEF RecTo, Received

(* What one more character adds to what is received.                       *)
LEMMA RecOne ==
    ASSUME NEW t \in Seq(Chars), EndsPlain(t), NEW c \in Chars, c # CR
    PROVE  Received(t \o <<c>>) = Received(t) \o <<c>> /\ EndsPlain(t \o <<c>>)
<1>0. <<c>> \in Seq(Chars) /\ t \o <<c>> \in Seq(Chars)
  <2>1. <<c>> \in Seq(Chars)
    OBVIOUS
  <2>2. QED
    BY <2>1, ConcatProperties
<1>1. PICK u \in Seq(Chars) : u = t \o <<c>>
  BY <1>0
<1>2. PICK n \in Nat : n = Len(t)
  OBVIOUS
<1>3. Len(u) = n + 1 /\ u[n + 1] = c /\ \A i \in 1..n : u[i] = t[i]
  BY <1>1, <1>2
<1>4. EndsPlain(u)
  BY <1>3 DEF EndsPlain
<1>5. RecTo(u, n) = Received(t)
  BY <1>2, <1>3, RecPrefix
<1>6. ReceivedOf(u, n + 1) = <<c>>
  BY <1>3 DEF ReceivedOf
<1>7. RecTo(u, n + 1) = Received(t) \o <<c>>
  <2>1. n + 1 <= Len(u)
    BY <1>3
  <2>2. RecTo(u, n + 1) = RecTo(u, n) \o ReceivedOf(u, n + 1)
    BY <2>1, RecMore
  <2>3. QED
    BY <1>5, <1>6, <2>2
<1>8. Received(u) = RecTo(u, n + 1)
  BY <1>3, RecTyped
<1>9. QED
  BY <1>1, <1>4, <1>7, <1>8

(* And an end of line.                                                     *)
LEMMA RecLine ==
    ASSUME NEW t \in Seq(Chars), EndsPlain(t)
    PROVE  Received(t \o CrLf) = Received(t) \o <<LF>> /\ EndsPlain(t \o CrLf)
<1>0. t \o CrLf \in Seq(Chars)
  BY CrLfTyped, ConcatProperties
<1>1. PICK u \in Seq(Chars) : u = t \o CrLf
  BY <1>0
<1>2. PICK n \in Nat : n = Len(t)
  OBVIOUS
<1>3. Len(u) = n + 2 /\ u[n + 1] = CR /\ u[n + 2] = LF /\ \A i \in 1..n : u[i] = t[i]
  BY <1>1, <1>2, CrLfTyped DEF CrLf
<1>4. EndsPlain(u)
  BY <1>3, CrLfTyped DEF EndsPlain
<1>5. RecTo(u, n) = Received(t) /\ Received(t) \in Seq(Chars)
  <2>1. Received(t) \in Seq(Chars)
    BY RecTyped
  <2>2. QED
    BY <1>2, <1>3, <2>1, RecPrefix
<1>6. ReceivedOf(u, n + 1) = <<>> /\ ReceivedOf(u, n + 2) = <<LF>>
  <2>1. (n + 1) + 1 = n + 2 /\ n + 2 <= Len(u)
    BY <1>3
  <2>2. Belongs(u, n + 1)
    BY <1>3, <2>1 DEF Belongs, Has
  <2>3. QED
    BY <1>3, <2>2, CrLfTyped DEF ReceivedOf
<1>7. RecTo(u, n + 1) = Received(t)
  <2>1. n + 1 <= Len(u)
    BY <1>3
  <2>2. RecTo(u, n + 1) = RecTo(u, n) \o ReceivedOf(u, n + 1)
    BY <2>1, RecMore
  <2>3. QED
    BY <1>5, <1>6, <2>2, JoinNone
<1>8. RecTo(u, n + 2) = Received(t) \o <<LF>>
  <2>1. n + 1 \in Nat /\ (n + 1) + 1 = n + 2 /\ n + 2 <= Len(u)
    BY <1>3
  <2>2. RecTo(u, n + 2) = RecTo(u, n + 1) \o ReceivedOf(u, n + 2)
    BY <2>1, RecMore
  <2>3. QED
    BY <1>6, <1>7, <2>2
<1>9. Received(u) = RecTo(u, n + 2)
  BY <1>3, RecTyped
<1>10. QED
  BY <1>1, <1>4, <1>8, <1>9

LEMMA OneMore ==
    ASSUME NEW S, NEW s \in Seq(S), NEW n \in Nat, n + 1 <= Len(s)
    PROVE  SubSeq(s, 1, n + 1) = SubSeq(s, 1, n) \o <<s[n + 1]>> /\ SubSeq(s, 1, n) \in Seq(S)
<1>1. s[n + 1] \in S /\ Len(s) \in Nat
  OBVIOUS
<1>2. SubSeq(s, 1, n) \in Seq(S) /\ Len(SubSeq(s, 1, n)) = n /\ \A i \in 1..n : SubSeq(s, 1, n)[i] = s[i]
  BY <1>1
<1> DEFINE u == SubSeq(s, 1, n + 1)
           v == SubSeq(s, 1, n) \o <<s[n + 1]>>
<1>3. u \in Seq(S) /\ v \in Seq(S) /\ Len(u) = n + 1 /\ Len(v) = n + 1
  BY <1>1, <1>2
<1>4. ASSUME NEW i \in 1 .. n + 1 PROVE u[i] = v[i]
  <2>1. CASE i <= n
    BY <1>1, <1>2, <2>1
  <2>2. CASE i = n + 1
    BY <1>1, <1>2, <2>2
  <2>3. QED
    BY <2>1, <2>2
<1> HIDE DEF u, v
<1>5. u = v
  BY <1>3, <1>4, SeqEqual
<1>6. QED
  BY <1>2, <1>5 DEF u, v

BackTo(s, n) == Received(SentTo(s, n)) = SubSeq(s, 1, n) /\ EndsPlain(SentTo(s, n))

LEMMA BackMore ==
    ASSUME NEW s \in Seq(Chars), \A i \in 1..Len(s) : s[i] # CR, NEW n \in Nat, n + 1 <= Len(s), BackTo(s, n)
    PROVE  BackTo(s, n + 1)
<1>1. PICK c \in Chars : c = s[n + 1] /\ c # CR
  OBVIOUS
<1>2. PICK t \in Seq(Chars) : t = SentTo(s, n)
  BY SentTyped
<1>3. EndsPlain(t) /\ Received(t) = SubSeq(s, 1, n)
  BY <1>2 DEF BackTo
<1>4. SentTo(s, n + 1) = t \o SentOf(s, n + 1)
  BY <1>2, SentMore
<1>5. SubSeq(s, 1, n + 1) = Received(t) \o <<c>>
  BY <1>1, <1>3, OneMore
<1>6. CASE c = LF
  <2>1. SentOf(s, n + 1) = CrLf
    BY <1>1, <1>6 DEF SentOf, EndsLine, CrLf
  <2>2. Received(t \o CrLf) = Received(t) \o <<LF>> /\ EndsPlain(t \o CrLf)
    BY <1>3, RecLine
  <2>3. QED
    BY <1>4, <1>5, <1>6, <2>1, <2>2 DEF BackTo
<1>7. CASE c # LF
  <2>1. SentOf(s, n + 1) = <<c>>
    BY <1>1, <1>7 DEF SentOf, EndsLine
  <2>2. Received(t \o <<c>>) = Received(t) \o <<c>> /\ EndsPlain(t \o <<c>>)
    BY <1>1, <1>3, RecOne
  <2>3. QED
    BY <1>4, <1>5, <2>1, <2>2 DEF BackTo
<1>8. QED
  BY <1>6, <1>7

LEMMA ThereAndBack ==
    ASSUME NEW s \in Seq(Chars), \A i \in 1..Len(s) : s[i] # CR
    PROVE  Received(Sent(s)) = s
<1> DEFINE Q == {n \in Nat : n <= Len(s) => BackTo(s, n)}
<1>1. 0 \in Q
  <2>1. SentTo(s, 0) = <<>> /\ <<>> \in Seq(Chars) /\ Len(<<>>) = 0
    BY SentTyped
  <2>2. Received(<<>>) = <<>>
    BY <2>1, RecTyped
  <2>3. SubSeq(s, 1, 0) = <<>>
    OBVIOUS
  <2>4. BackTo(s, 0)
    BY <2>1, <2>2, <2>3 DEF BackTo, EndsPlain
  <2>5. QED
    BY <2>4
<1>2. ASSUME NEW n \in Nat, n \in Q PROVE n + 1 \in Q
  <2>1. n + 1 <= Len(s) => n <= Len(s)
    OBVIOUS
  <2>2. n + 1 <= Len(s) => BackTo(s, n + 1)
    BY <1>2, <2>1, BackMore
  <2>3. QED
    BY <2>2
<1> HIDE DEF Q
<1>3. \A n \in Nat : n \in Q
  BY <1>1, <1>2, ByNat
<1>4. Len(s) \in Nat /\ Sent(s) = SentTo(s, Len(s)) /\ SubSeq(s, 1, Len(s)) = s
  BY SentTyped
<1>5. BackTo(s, Len(s))
  BY <1>3, <1>4 DEF Q
<1>6. QED
  BY <1>4, <1>5 DEF BackTo

LEMMA RoundTripHolds == ASSUME TypedText, PInv PROVE RoundTrip
<1> SUFFICES ASSUME Ended("put"), NoCR(Len(text)) PROVE Received(tout) = text
  BY DEF RoundTrip
<1>1. ~lone /\ PutTranslates
  BY DEF PInv, Ended
<1>2. tout = Sent(text)
  BY <1>1 DEF PutTranslates
<1>3. QED
  BY <1>2, ThereAndBack DEF TypedText, NoCR
-----------------------------------------------------------------------------
(***************************************************************************)
(* How long what is sent is: a character more for each LF without a CR     *)
(* before it.                                                              *)
(***************************************************************************)
Bare(s, n)  == {i \in 1..n : s[i] = LF /\ (i = 1 \/ s[i - 1] # CR)}
OpenCR(s, n) == IF n > 0 /\ s[n] = CR THEN 1 ELSE 0
Measured(s, n) == Len(SentTo(s, n)) = n + Cardinality(Bare(s, n)) - OpenCR(s, n)

LEMMA BareMore ==
    ASSUME NEW s, NEW n \in Nat
    PROVE  /\ Cardinality(Bare(s, n)) \in Nat /\ IsFiniteSet(Bare(s, n))
           /\ Cardinality(Bare(s, 0)) = 0
           /\ Cardinality(Bare(s, n + 1)) = Cardinality(Bare(s, n)) + (IF s[n + 1] = LF /\ OpenCR(s, n) = 0 THEN 1 ELSE 0)
<1>1. IsFiniteSet(Bare(s, n))
  <2>1. Bare(s, n) \subseteq 1..n /\ IsFiniteSet(1..n)
    BY FS_Interval DEF Bare
  <2>2. QED
    BY <2>1, FS_Subset
<1>2. Cardinality(Bare(s, n)) \in Nat
  BY <1>1, FS_CardinalityType
<1>3. Bare(s, 0) = {}
  BY DEF Bare
<1>4. n + 1 \notin Bare(s, n)
  BY DEF Bare
<1>5. CASE s[n + 1] = LF /\ OpenCR(s, n) = 0
  <2>1. Bare(s, n + 1) = Bare(s, n) \cup {n + 1}
    BY <1>5 DEF Bare, OpenCR
  <2>2. QED
    BY <1>1, <1>2, <1>3, <1>4, <1>5, <2>1, FS_AddElement, FS_EmptySet
<1>6. CASE ~(s[n + 1] = LF /\ OpenCR(s, n) = 0)
  <2>1. Bare(s, n + 1) = Bare(s, n)
    BY <1>6 DEF Bare, OpenCR
  <2>2. QED
    BY <1>1, <1>2, <1>3, <1>6, <2>1, FS_EmptySet
<1>7. QED
  BY <1>5, <1>6

LEMMA MeasuredMore ==
    ASSUME NEW s \in Seq(Chars), ~StrayCR(s), NEW n \in Nat, n + 1 <= Len(s), Measured(s, n)
    PROVE  Measured(s, n + 1)
<1> DEFINE B == Cardinality(Bare(s, n))
           C == Cardinality(Bare(s, n + 1))
<1>1. PICK c \in Chars : c = s[n + 1]
  OBVIOUS
<1>2. PICK t \in Seq(Chars) : t = SentTo(s, n)
  BY SentTyped
<1>3. SentTo(s, n + 1) = t \o SentOf(s, n + 1) /\ SentOf(s, n + 1) \in Seq(Chars)
  <2>1. n + 1 \in 1..Len(s)
    OBVIOUS
  <2>2. QED
    BY <1>2, <2>1, SentMore, SentOfTyped
<1>4. Len(SentTo(s, n + 1)) = Len(t) + Len(SentOf(s, n + 1)) /\ Len(t) \in Nat
  BY <1>3, ConcatProperties
<1>5. B \in Nat /\ C = B + (IF c = LF /\ OpenCR(s, n) = 0 THEN 1 ELSE 0)
  BY <1>1, BareMore
<1>6. Len(t) = n + B - OpenCR(s, n)
  BY <1>2 DEF Measured
<1>7. c = CR => ~EndsLine(s, n + 1)
  <2>1. n + 1 \in 1..Len(s)
    OBVIOUS
  <2>2. QED
    BY <1>1, <2>1 DEF StrayCR
<1>8. OpenCR(s, n) = 1 => c = LF
  <2>1. OpenCR(s, n) = 1 => n \in 1..Len(s) /\ s[n] = CR
    BY DEF OpenCR
  <2>2. QED
    BY <1>1, <2>1 DEF StrayCR, EndsLine, Has
<1>9. OpenCR(s, n) \in {0, 1} /\ OpenCR(s, n + 1) = IF c = CR THEN 1 ELSE 0
  BY <1>1 DEF OpenCR
<1>10. Len(SentOf(s, n + 1)) = IF c = LF THEN 2 ELSE IF c = CR THEN 0 ELSE 1
  <2>1. SentOf(s, n + 1) = IF c = LF THEN CrLf ELSE IF c = CR THEN <<>> ELSE <<c>>
    BY <1>1, <1>7 DEF SentOf, EndsLine, CrLf
  <2>2. Len(CrLf) = 2 /\ Len(<<>>) = 0 /\ Len(<<c>>) = 1
    BY DEF CrLf
  <2>3. CASE c = LF
    BY <2>1, <2>2, <2>3
  <2>4. CASE c # LF /\ c = CR
    BY <2>1, <2>2, <2>4
  <2>5. CASE c # LF /\ c # CR
    BY <2>1, <2>2, <2>5
  <2>6. QED
    BY <2>3, <2>4, <2>5
<1> HIDE DEF B, C
<1>11. Len(SentTo(s, n + 1)) = (n + 1) + C - OpenCR(s, n + 1)
  BY <1>4, <1>5, <1>6, <1>8, <1>9, <1>10, CrLfTyped, SMTT(30)
<1>12. QED
  BY <1>11 DEF Measured, C

LEMMA SentLength ==
    ASSUME NEW s \in Seq(Chars), ~StrayCR(s)
    PROVE  Len(Sent(s)) = Len(s) + Cardinality(Bare(s, Len(s)))
<1> DEFINE Q == {n \in Nat : n <= Len(s) => Measured(s, n)}
<1>1. 0 \in Q
  <2>1. SentTo(s, 0) = <<>> /\ Len(<<>>) = 0
    BY SentTyped
  <2>2. Cardinality(Bare(s, 0)) = 0 /\ OpenCR(s, 0) = 0
    BY BareMore DEF OpenCR
  <2>3. Measured(s, 0)
    BY <2>1, <2>2 DEF Measured
  <2>4. QED
    BY <2>3
<1>2. ASSUME NEW n \in Nat, n \in Q PROVE n + 1 \in Q
  <2>1. n + 1 <= Len(s) => n <= Len(s)
    OBVIOUS
  <2>2. n + 1 <= Len(s) => Measured(s, n + 1)
    BY <1>2, <2>1, MeasuredMore
  <2>3. QED
    BY <2>2
<1> HIDE DEF Q
<1>3. \A n \in Nat : n \in Q
  BY <1>1, <1>2, ByNat
<1>4. PICK n \in Nat : n = Len(s)
  OBVIOUS
<1>5. Sent(s) = SentTo(s, n) /\ Measured(s, n)
  BY <1>3, <1>4, SentTyped DEF Q
<1>6. OpenCR(s, n) = 0
  <2>1. n > 0 => n \in 1..Len(s)
    BY <1>4
  <2>2. QED
    BY <1>4, <2>1 DEF OpenCR, StrayCR, EndsLine, Has
<1>7. Cardinality(Bare(s, n)) \in Nat
  BY BareMore
<1>8. QED
  BY <1>4, <1>5, <1>6, <1>7 DEF Measured

(***************************************************************************)
(* FTPLocalASCIIFileSize.  What has been counted is what has been read and *)
(* the bare LFs in it.                                                     *)
(***************************************************************************)
SInv ==
    tkind = "size" =>
      /\ pos \in 0..Len(text) /\ tdone \in {"no", "ok"}
      /\ lastch = IF pos = 0 THEN "none" ELSE text[pos]
      /\ count = pos + Cardinality(Bare(text, pos))
      /\ tdone = "ok" => pos = Len(text)

LEMMA SInvInit == TInit /\ TypedText => SInv
<1> SUFFICES ASSUME TInit, TypedText, tkind = "size" PROVE SInv
  BY DEF SInv
<1>1. pos = 0 /\ count = 0 /\ lastch = "none" /\ tdone = "no" /\ Len(text) \in Nat
  BY DEF TInit, TypedText
<1>2. Cardinality(Bare(text, 0)) = 0
  BY BareMore
<1>3. QED
  BY <1>1, <1>2 DEF SInv

LEMMA CountBlockSafe == ASSUME TypedText, SInv, CountBlock PROVE SInv'
<1>1. tkind = "size" /\ tdone = "no" /\ UNCHANGED <<tkind, text, tdone>>
  BY DEF CountBlock
<1>2. PICK e \in Blocks : pos' = e /\ lastch' = text[e] /\ count' = count + (e - pos) + Cardinality(BareLFs(e))
  BY DEF CountBlock
<1>3. /\ pos \in 0..Len(text) /\ Len(text) \in Nat /\ lastch = IF pos = 0 THEN "none" ELSE text[pos]
      /\ count = pos + Cardinality(Bare(text, pos))
  BY <1>1 DEF SInv, TypedText
<1>4. e \in pos + 1 .. Len(text)
  BY DEF Blocks
<1> DEFINE S == Bare(text, pos)
           T == BareLFs(e)
<1>5. IsFiniteSet(S) /\ Cardinality(S) \in Nat
  BY <1>3, BareMore
<1>6. IsFiniteSet(T) /\ Cardinality(T) \in Nat
  <2>1. T \subseteq pos + 1 .. e /\ IsFiniteSet(pos + 1 .. e)
    BY <1>3, <1>4, FS_Interval DEF BareLFs
  <2>2. QED
    BY <2>1, FS_Subset, FS_CardinalityType
<1>7. S \cap T = {}
  BY <1>3, <1>4 DEF Bare, BareLFs
<1>8. Bare(text, e) = S \cup T
  <2>1. ASSUME NEW i \in 1..e PROVE i \in Bare(text, e) <=> i \in S \/ i \in T
    <3>1. CASE i <= pos
      BY <1>3, <1>4, <3>1 DEF Bare, BareLFs
    <3>2. CASE i = pos + 1
      <4>1. i \notin S /\ i - 1 = pos /\ (i = 1 <=> pos = 0)
        BY <1>3, <3>2 DEF Bare
      <4>2. lastch # CR <=> (i = 1 \/ text[i - 1] # CR)
        BY <1>3, <4>1 DEF CR
      <4>3. QED
        BY <1>4, <3>2, <4>1, <4>2 DEF Bare, BareLFs
    <3>3. CASE i > pos + 1
      <4>1. i \notin S /\ i # 1
        BY <1>3, <3>3 DEF Bare
      <4>2. QED
        BY <1>3, <1>4, <3>3, <4>1 DEF Bare, BareLFs
    <3>4. QED
      BY <1>3, <3>1, <3>2, <3>3
  <2>2. Bare(text, e) \subseteq 1..e /\ S \subseteq 1..e /\ T \subseteq 1..e
    BY <1>3, <1>4 DEF Bare, BareLFs
  <2>3. QED
    BY <2>1, <2>2
<1> HIDE DEF S, T
<1>9. Cardinality(S \cup T) = Cardinality(S) + Cardinality(T)
  <2>1. Cardinality(S \cup T) = Cardinality(S) + Cardinality(T) - Cardinality(S \cap T)
    BY <1>5, <1>6, FS_Union
  <2>2. Cardinality(S \cap T) = 0
    BY <1>7, FS_EmptySet
  <2>3. QED
    BY <1>5, <1>6, <2>1, <2>2
<1>10. count' = e + Cardinality(Bare(text, e))
  BY <1>2, <1>3, <1>4, <1>5, <1>6, <1>8, <1>9 DEF S, T
<1>11. e \in 0..Len(text) /\ e # 0
  BY <1>3, <1>4
<1>12. QED
  BY <1>1, <1>2, <1>10, <1>11 DEF SInv, Bare

LEMMA SInvStep == ASSUME TypedText, SInv, [TNext]_tvars PROVE SInv'
<1>1. CASE CountBlock
  BY <1>1, CountBlockSafe
<1>2. CASE CountEnd
  BY <1>2 DEF CountEnd, AtEnd, SInv, Bare
<1>3. CASE UNCHANGED tvars
  BY <1>3 DEF tvars, SInv, Bare
<1>4. CASE GetBlockOfText \/ GetText \/ GetTextEnd \/ PutText \/ PutTextEnd \/ SeekBlock \/ SeekEnd
  <2>1. tkind # "size" /\ tkind' = tkind
    BY <1>4, TextStays DEF GetBlockOfText, GetText, GetTextEnd, PutText, PutTextEnd, SeekBlock, SeekEnd, SInv
  <2>2. QED
    BY <2>1 DEF SInv
<1>5. QED
  BY <1>1, <1>2, <1>3, <1>4 DEF TNext

LEMMA SizeHolds == ASSUME TypedText, SInv PROVE SizeTells
  BY SentLength DEF TypedText, SInv, SizeTells, Ended
-----------------------------------------------------------------------------
(***************************************************************************)
(* FTPASCIILocalFileSeek.  Wide(n) is how much of what is sent the first n *)
(* characters are, when no CR is among them.  What is left to skip and     *)
(* that add up to what the peer has; where it stops with an error no place *)
(* would have done.                                                        *)
(***************************************************************************)
Wide(n) == n + Cardinality(LFs(0, n))

Place(n) == NoCR(n) /\ Wide(n) = skip

KInv ==
    tkind = "seek" =>
      /\ pos \in 0..Len(text) /\ skip \in Nat \ {0} /\ tdone \in {"no", "ok", "failed"}
      /\ tdone = "no" => NoCR(pos) /\ count \in Nat \ {0} /\ count + Wide(pos) = skip
      /\ tdone = "ok" => Place(pos)
      /\ tdone = "failed" => pos = 0 /\ \A n \in 1..Len(text) : ~Place(n)

LEMMA LFsSplit ==
    ASSUME NEW m \in Nat, NEW n \in Nat, m <= n
    PROVE  /\ Cardinality(LFs(m, n)) \in Nat /\ Cardinality(LFs(0, m)) \in Nat
           /\ Cardinality(LFs(0, n)) = Cardinality(LFs(0, m)) + Cardinality(LFs(m, n))
<1> DEFINE S == LFs(0, m)
           T == LFs(m, n)
<1>1. IsFiniteSet(S) /\ Cardinality(S) \in Nat
  <2>1. S \subseteq 1..m /\ IsFiniteSet(1..m)
    BY FS_Interval DEF LFs
  <2>2. QED
    BY <2>1, FS_Subset, FS_CardinalityType
<1>2. IsFiniteSet(T) /\ Cardinality(T) \in Nat
  <2>1. T \subseteq m + 1 .. n /\ IsFiniteSet(m + 1 .. n)
    BY FS_Interval DEF LFs
  <2>2. QED
    BY <2>1, FS_Subset, FS_CardinalityType
<1>3. S \cap T = {} /\ LFs(0, n) = S \cup T
  BY DEF LFs
<1> HIDE DEF S, T
<1>4. Cardinality(S \cup T) = Cardinality(S) + Cardinality(T) - Cardinality(S \cap T)
  BY <1>1, <1>2, FS_Union
<1>5. Cardinality(S \cap T) = 0
  BY <1>3, FS_EmptySet
<1>6. QED
  BY <1>1, <1>2, <1>3, <1>4, <1>5 DEF S, T

LEMMA WideGrows ==
    ASSUME NEW m \in Nat, NEW n \in Nat, m <= n
    PROVE  /\ Wide(m) \in Nat /\ Wide(n) \in Nat /\ Wide(m) <= Wide(n)
           /\ pos = m => Skipped(n) \in Nat /\ Wide(n) = Wide(m) + Skipped(n)
<1>1. n - m \in Nat /\ n = m + (n - m)
  OBVIOUS
<1>2. /\ Cardinality(LFs(m, n)) \in Nat /\ Cardinality(LFs(0, m)) \in Nat
      /\ Cardinality(LFs(0, n)) = Cardinality(LFs(0, m)) + Cardinality(LFs(m, n))
  BY LFsSplit
<1>3. QED
  BY <1>1, <1>2 DEF Wide, Skipped

(* The first character is wider than nothing.                              *)
LEMMA KInvInit == TInit /\ TypedText => KInv
<1> SUFFICES ASSUME TInit, TypedText, tkind = "seek" PROVE KInv
  BY DEF KInv
<1>1. pos = 0 /\ count = skip /\ tdone = "no" /\ Len(text) \in Nat /\ skip \in 1 .. 2 * Len(text)
  BY DEF TInit, TypedText
<1>2. LFs(0, 0) = {}
  BY DEF LFs
<1>3. Wide(0) = 0
  BY <1>2, FS_EmptySet DEF Wide
<1>4. NoCR(0)
  BY DEF NoCR
<1>5. skip \in Nat \ {0}
  BY <1>1
<1>6. QED
  BY <1>1, <1>3, <1>4, <1>5 DEF KInv

LEMMA SeekBlockSafe == ASSUME TypedText, KInv, SeekBlock PROVE KInv'
<1>1. tkind = "seek" /\ tdone = "no" /\ UNCHANGED <<tkind, text, skip>>
  BY DEF SeekBlock
<1>2. /\ pos \in Nat /\ pos \in 0..Len(text) /\ Len(text) \in Nat /\ skip \in Nat \ {0} /\ NoCR(pos)
      /\ count \in Nat \ {0} /\ count + Wide(pos) = skip
  BY <1>1 DEF KInv, TypedText
<1>3. PICK e \in Blocks :
        \/ SeekTo(e) = {} /\ pos' = e /\ count' = count - Skipped(e) /\ UNCHANGED tdone
        \/ \E n \in SeekTo(e) :
             /\ \A j \in SeekTo(e) : n <= j
             /\ IF text[n] = CR \/ Skipped(n) > count
                  THEN pos' = 0 /\ tdone' = "failed" /\ UNCHANGED count
                  ELSE pos' = n /\ count' = 0 /\ tdone' = "ok"
  BY DEF SeekBlock
<1>4. e \in pos + 1 .. Len(text) /\ e \in Nat
  BY <1>2 DEF Blocks
<1>5. \A n : (NoCR(n)' <=> NoCR(n)) /\ Wide(n)' = Wide(n) /\ (Place(n)' <=> Place(n))
  BY <1>1 DEF NoCR, Wide, LFs, Place
<1>6. CASE SeekTo(e) = {} /\ pos' = e /\ count' = count - Skipped(e) /\ UNCHANGED tdone
  <2>1. \A j \in pos + 1 .. e : text[j] # CR /\ ~(Skipped(j) >= count)
    BY <1>6 DEF SeekTo
  <2>2. NoCR(e)
    BY <1>2, <1>4, <2>1 DEF NoCR
  <2>3. Skipped(e) \in Nat /\ Wide(e) = Wide(pos) + Skipped(e) /\ Wide(pos) \in Nat
    BY <1>2, <1>4, WideGrows
  <2>4. ~(Skipped(e) >= count)
    BY <1>2, <1>4, <2>1
  <2>5. count' \in Nat \ {0} /\ count' + Wide(e) = skip
    BY <1>2, <1>6, <2>3, <2>4
  <2>6. e \in 0..Len(text)
    BY <1>2, <1>4
  <2>7. KInv'
    BY <1>1, <1>2, <1>5, <1>6, <2>2, <2>5, <2>6 DEF KInv
  <2>8. QED
    BY <2>7
<1>7. CASE \E n \in SeekTo(e) :
             /\ \A j \in SeekTo(e) : n <= j
             /\ IF text[n] = CR \/ Skipped(n) > count
                  THEN pos' = 0 /\ tdone' = "failed" /\ UNCHANGED count
                  ELSE pos' = n /\ count' = 0 /\ tdone' = "ok"
  <2>1. PICK n \in SeekTo(e) :
             /\ \A j \in SeekTo(e) : n <= j
             /\ IF text[n] = CR \/ Skipped(n) > count
                  THEN pos' = 0 /\ tdone' = "failed" /\ UNCHANGED count
                  ELSE pos' = n /\ count' = 0 /\ tdone' = "ok"
    BY <1>7
  <2>2. n \in pos + 1 .. e /\ n \in Nat /\ n \in 1..Len(text) /\ n \in 0..Len(text) /\ (text[n] = CR \/ Skipped(n) >= count)
    BY <1>2, <1>4 DEF SeekTo
  <2>3. ASSUME NEW j \in Nat, j < n PROVE Wide(j) < skip /\ (j >= 1 => text[j] # CR)
    <3>1. CASE j <= pos
      <4>1. Wide(j) <= Wide(pos) /\ Wide(j) \in Nat /\ Wide(pos) \in Nat
        BY <1>2, <3>1, WideGrows
      <4>2. j >= 1 => j \in 1..pos
        BY <1>2, <3>1
      <4>3. QED
        BY <1>2, <4>1, <4>2 DEF NoCR
    <3>2. CASE j > pos
      <4>1. j \in pos + 1 .. e /\ j \notin SeekTo(e)
        BY <1>2, <1>4, <2>1, <2>2, <2>3, <3>2
      <4>2. text[j] # CR /\ ~(Skipped(j) >= count)
        BY <4>1 DEF SeekTo
      <4>a. pos \in Nat /\ j \in Nat /\ pos <= j
        BY <1>2, <3>2
      <4>3. Skipped(j) \in Nat /\ Wide(j) = Wide(pos) + Skipped(j) /\ Wide(pos) \in Nat
        BY <4>a, WideGrows
      <4>4. QED
        BY <1>2, <4>2, <4>3
    <3>3. QED
      BY <1>2, <3>1, <3>2
  <2>4. Skipped(n) \in Nat /\ Wide(n) = Wide(pos) + Skipped(n) /\ Wide(pos) \in Nat
    BY <1>2, <2>2, WideGrows
  <2>5. CASE text[n] = CR \/ Skipped(n) > count
    <3>1. pos' = 0 /\ tdone' = "failed"
      BY <2>1, <2>5
    <3>2. ASSUME NEW m \in 1..Len(text) PROVE ~Place(m)
      <4>1. CASE m < n
        <5>1. m \in Nat /\ Wide(m) < skip /\ Wide(m) \in Nat
          BY <2>3, <4>1, WideGrows
        <5>2. QED
          BY <1>2, <5>1 DEF Place
      <4>2. CASE ~(m < n)
        <5>1. m \in Nat /\ n <= m /\ n \in 1..m
          BY <2>2, <4>2
        <5>2. CASE text[n] = CR
          BY <5>1, <5>2 DEF Place, NoCR
        <5>3. CASE Skipped(n) > count
          <6>1. Wide(n) > skip
            BY <1>2, <2>4, <5>3
          <6>2. Wide(n) <= Wide(m) /\ Wide(m) \in Nat /\ Wide(n) \in Nat
            BY <2>2, <5>1, WideGrows
          <6>3. QED
            BY <1>2, <6>1, <6>2 DEF Place
        <5>4. QED
          BY <2>5, <5>2, <5>3
      <4>3. QED
        BY <4>1, <4>2
    <3>3. \A m \in 1..Len(text)' : ~Place(m)'
      BY <1>1, <1>5, <3>2
    <3>4. 0 \in 0..Len(text)
      BY <1>2
    <3>5. QED
      BY <1>1, <1>2, <3>1, <3>3, <3>4 DEF KInv
  <2>6. CASE ~(text[n] = CR \/ Skipped(n) > count)
    <3>1. pos' = n /\ count' = 0 /\ tdone' = "ok"
      BY <2>1, <2>6
    <3>2. Wide(n) = skip
      BY <1>2, <2>2, <2>4, <2>6
    <3>3. NoCR(n)
      <4>1. \A j \in 1..n : j < n => text[j] # CR
        BY <2>3
      <4>2. QED
        BY <2>2, <2>6, <4>1 DEF NoCR
    <3>4. Place(n)'
      BY <1>5, <3>2, <3>3 DEF Place
    <3>5. QED
      BY <1>1, <1>2, <2>2, <3>1, <3>4 DEF KInv
  <2>7. QED
    BY <2>5, <2>6
<1>8. QED
  BY <1>3, <1>6, <1>7

LEMMA SeekEndSafe == ASSUME TypedText, KInv, SeekEnd PROVE KInv'
<1>1. tkind = "seek" /\ tdone = "no" /\ pos = Len(text) /\ pos' = 0 /\ tdone' = "failed" /\ UNCHANGED <<tkind, text, skip>>
  BY DEF SeekEnd, AtEnd
<1>2. pos \in Nat /\ Len(text) \in Nat /\ skip \in Nat \ {0} /\ count \in Nat \ {0} /\ count + Wide(pos) = skip
  BY <1>1 DEF KInv, TypedText
<1>3. ASSUME NEW m \in 1..Len(text) PROVE ~Place(m)
  <2>1. m \in Nat /\ Wide(m) <= Wide(pos) /\ Wide(m) \in Nat /\ Wide(pos) \in Nat
    BY <1>1, <1>2, WideGrows
  <2>2. QED
    BY <1>2, <2>1 DEF Place
<1>4. \A m \in 1..Len(text)' : ~Place(m)'
  BY <1>1, <1>3 DEF Place, NoCR, Wide, LFs
<1>5. QED
  BY <1>1, <1>2, <1>4 DEF KInv

LEMMA KInvStep == ASSUME TypedText, KInv, [TNext]_tvars PROVE KInv'
<1>1. CASE SeekBlock
  BY <1>1, SeekBlockSafe
<1>2. CASE SeekEnd
  BY <1>2, SeekEndSafe
<1>3. CASE UNCHANGED tvars
  BY <1>3 DEF tvars, KInv, Place, NoCR, Wide, LFs
<1>4. CASE GetBlockOfText \/ GetText \/ GetTextEnd \/ PutText \/ PutTextEnd \/ CountBlock \/ CountEnd
  <2>1. tkind # "seek" /\ tkind' = tkind
    BY <1>4, TextStays DEF GetBlockOfText, GetText, GetTextEnd, PutText, PutTextEnd, CountBlock, CountEnd, KInv
  <2>2. QED
    BY <2>1 DEF KInv
<1>5. QED
  BY <1>1, <1>2, <1>3, <1>4 DEF TNext

LEMMA HereIsPlace ==
    ASSUME TypedText, NEW n \in 0..Len(text) PROVE Here(n) <=> Place(n)
<1>1. SUFFICES ASSUME NoCR(n) PROVE Len(Sent(SubSeq(text, 1, n))) = Wide(n)
  BY DEF Here, Place
<1>2. n \in Nat /\ text \in Seq(Chars) /\ Len(text) \in Nat
  BY DEF TypedText
<1>3. PICK s \in Seq(Chars) : s = SubSeq(text, 1, n) /\ Len(s) = n /\ \A i \in 1..n : s[i] = text[i]
  <2>1. \A i \in 1..n : text[i] \in Chars
    BY <1>2
  <2>2. SubSeq(text, 1, n) \in Seq(Chars) /\ Len(SubSeq(text, 1, n)) = n /\ \A i \in 1..n : SubSeq(text, 1, n)[i] = text[i]
    BY <1>2, <2>1
  <2>3. QED
    BY <2>2
<1>4. \A i \in 1..n : s[i] # CR
  BY <1>1, <1>3 DEF NoCR
<1>5. ~StrayCR(s)
  BY <1>3, <1>4 DEF StrayCR
<1>6. Bare(s, n) = LFs(0, n)
  <2>1. ASSUME NEW i \in 1..n PROVE i \in Bare(s, n) <=> i \in LFs(0, n)
    <3>1. i = 1 \/ i - 1 \in 1..n
      BY <1>2
    <3>2. QED
      BY <1>3, <1>4, <3>1 DEF Bare, LFs
  <2>2. Bare(s, n) \subseteq 1..n /\ LFs(0, n) \subseteq 1..n
    BY <1>2 DEF Bare, LFs
  <2>3. QED
    BY <2>1, <2>2
<1>7. Len(Sent(s)) = n + Cardinality(Bare(s, n))
  BY <1>3, <1>5, SentLength
<1>8. QED
  BY <1>3, <1>6, <1>7 DEF Wide

LEMMA SeekHolds == ASSUME TypedText, KInv PROVE SeekResumes
<1>1. SUFFICES ASSUME tkind = "seek"
               PROVE  /\ tdone = "ok" => Here(pos)
                      /\ tdone = "failed" => pos = 0 /\ \A n \in 1..Len(text) : ~Here(n)
  BY DEF SeekResumes
<1>2. pos \in 0..Len(text)
  BY <1>1 DEF KInv
<1>3. \A n \in 1..Len(text) : n \in 0..Len(text)
  OBVIOUS
<1>4. QED
  BY <1>1, <1>2, <1>3, HereIsPlace DEF KInv

(***************************************************************************)
(* All of them.                                                            *)
(***************************************************************************)
TextInv == TypedText /\ GInv /\ PInv /\ SInv /\ KInv

LEMMA TextInvAlways == TSpec => []TextInv
<1>1. TInit => TextInv
  BY TypedTextInit, GInvInit, PInvInit, SInvInit, KInvInit DEF TextInv
<1>2. TextInv /\ [TNext]_tvars => TextInv'
  <2>1. SUFFICES ASSUME TextInv, [TNext]_tvars PROVE TextInv'
    OBVIOUS
  <2>2. TypedText /\ GInv /\ PInv /\ SInv /\ KInv
    BY <2>1 DEF TextInv
  <2>3. TypedText'
    BY <2>1, <2>2, TextStays DEF TypedText
  <2>4. GInv' /\ PInv' /\ SInv' /\ KInv'
    BY <2>1, <2>2, GInvStep, PInvStep, SInvStep, KInvStep
  <2>5. QED
    BY <2>3, <2>4 DEF TextInv
<1>3. QED
  BY <1>1, <1>2, PTL DEF TSpec

LEMMA TextInvSays == TextInv => GetTranslates /\ PutTranslates /\ RoundTrip /\ SizeTells /\ SeekResumes
<1> SUFFICES ASSUME TextInv PROVE GetTranslates /\ PutTranslates /\ RoundTrip /\ SizeTells /\ SeekResumes
  OBVIOUS
<1>1. TypedText /\ GInv /\ PInv /\ SInv /\ KInv
  BY DEF TextInv
<1>2. GetTranslates /\ PutTranslates
  BY <1>1 DEF GInv, PInv, GetTranslates, PutTranslates, Ended
<1>3. QED
  BY <1>1, <1>2, RoundTripHolds, SizeHolds, SeekHolds
-----------------------------------------------------------------------------
(***************************************************************************)
(* SReadline.  Clean and Cut, a character at a time.                       *)
(***************************************************************************)
Sendable == STRING \cup {Cr, Lf, Nul}
KeptOf(c) == IF c \in {Cr, Nul} THEN <<>> ELSE <<c>>

LEMMA CleanMore ==
    ASSUME NEW S, NEW t \in Seq(S), NEW c \in S
    PROVE  Clean(t) \in Seq(S) /\ Clean(t \o <<c>>) = Clean(t) \o KeptOf(c)
<1>1. PICK n \in Nat : n = Len(t)
  OBVIOUS
<1>2. PICK u \in Seq(S) : u = t \o <<c>>
  <2>1. <<c>> \in Seq(S)
    OBVIOUS
  <2>2. t \o <<c>> \in Seq(S)
    BY <2>1, ConcatProperties
  <2>3. QED
    BY <2>2
<1>3. Len(u) = n + 1 /\ u[n + 1] = c /\ \A i \in 1..n : u[i] = t[i]
  BY <1>1, <1>2
<1> DEFINE ss == [i \in 1..n |-> KeptOf(t[i])]
           tt == [i \in 1 .. n + 1 |-> KeptOf(u[i])]
<1>4. ASSUME NEW d \in S PROVE KeptOf(d) \in Seq(S)
  <2>1. <<d>> \in Seq(S) /\ <<>> \in Seq(S)
    OBVIOUS
  <2>2. QED
    BY <2>1 DEF KeptOf
<1>5. ss \in [1..n -> Seq(S)]
  <2>1. \A i \in 1..n : t[i] \in S
    BY <1>1
  <2>2. \A i \in 1..n : KeptOf(t[i]) \in Seq(S)
    BY <1>4, <2>1
  <2>3. QED
    BY <2>2
<1>6. tt \in [1 .. n + 1 -> Seq(S)]
  <2>1. \A i \in 1 .. n + 1 : u[i] \in S
    BY <1>3
  <2>2. \A i \in 1 .. n + 1 : KeptOf(u[i]) \in Seq(S)
    BY <1>4, <2>1
  <2>3. QED
    BY <2>2
<1>7. (\A i \in 1..n : ss[i] = tt[i]) /\ tt[n + 1] = KeptOf(c)
  BY <1>3
<1>8. Clean(t) = FlattenSeq(ss) /\ Clean(u) = FlattenSeq(tt)
  BY <1>1, <1>3 DEF Clean, KeptOf
<1> HIDE DEF ss, tt
<1>9. FlattenSeq(tt) = FlattenSeq(ss) \o tt[n + 1]
  BY <1>5, <1>6, <1>7, FlattenMore
<1>10. FlattenSeq(ss) \in Seq(S)
  BY <1>5, FlattenTyped
<1>11. QED
  BY <1>2, <1>7, <1>8, <1>9, <1>10

LEMMA CleanNone == Clean(<<>>) = <<>>
<1> DEFINE e == [i \in 1..0 |-> KeptOf(<<>>[i])]
<1>1. Len(e) = 0 /\ e = <<>> /\ Len(<<>>) = 0
  OBVIOUS
<1>2. Clean(<<>>) = FlattenSeq(e)
  BY <1>1 DEF Clean, KeptOf
<1> HIDE DEF e
<1>3. FlattenSeq(e) = <<>>
  BY <1>1 DEF FlattenSeq
<1>4. QED
  BY <1>2, <1>3

LEMMA CutMore ==
    ASSUME NEW S, NEW t \in Seq(S), NEW c \in S
    PROVE  /\ Cut(t) \in Seq(S) /\ (t = <<>> => Cut(t) = <<>>)
           /\ Cut(t \o <<c>>) = IF Len(Cut(t)) < LineSize THEN Append(Cut(t), c) ELSE Cut(t)
<1>0. LineSize \in Nat /\ LineSize > 0 /\ Len(t) \in Nat
  BY SizesAssumption
<1>1. PICK u \in Seq(S) : u = t \o <<c>>
  <2>1. <<c>> \in Seq(S)
    OBVIOUS
  <2>2. t \o <<c>> \in Seq(S)
    BY <2>1, ConcatProperties
  <2>3. QED
    BY <2>2
<1>2. Len(u) = Len(t) + 1 /\ u[Len(t) + 1] = c /\ \A i \in 1..Len(t) : u[i] = t[i]
  BY <1>1
<1>3. CASE Len(t) < LineSize
  <2>1. Cut(t) = t
    BY <1>3 DEF Cut
  <2>2. Cut(u) = u
    <3>1. (IF Len(u) < LineSize THEN Len(u) ELSE LineSize) = Len(u)
      BY <1>0, <1>2, <1>3
    <3>2. QED
      BY <3>1 DEF Cut
  <2>3. u = Append(t, c)
    BY <1>1
  <2>4. QED
    BY <1>1, <1>3, <2>1, <2>2, <2>3
<1>4. CASE ~(Len(t) < LineSize)
  <2>1. Cut(t) = SubSeq(t, 1, LineSize) /\ LineSize <= Len(t) /\ t # <<>>
    BY <1>0, <1>4 DEF Cut
  <2>2. Cut(u) = SubSeq(u, 1, LineSize)
    BY <1>0, <1>2, <1>4 DEF Cut
  <2>3. SubSeq(t, 1, LineSize) \in Seq(S) /\ Len(SubSeq(t, 1, LineSize)) = LineSize
        /\ \A i \in 1..LineSize : SubSeq(t, 1, LineSize)[i] = t[i]
    BY <1>0, <2>1
  <2>4. SubSeq(u, 1, LineSize) \in Seq(S) /\ Len(SubSeq(u, 1, LineSize)) = LineSize
        /\ \A i \in 1..LineSize : SubSeq(u, 1, LineSize)[i] = t[i]
    BY <1>0, <1>2, <2>1
  <2>5. SubSeq(u, 1, LineSize) = SubSeq(t, 1, LineSize)
    BY <2>3, <2>4, SeqEqual
  <2>6. QED
    BY <1>0, <1>1, <2>1, <2>2, <2>3, <2>5
<1>5. QED
  BY <1>3, <1>4

LEMMA SpanMore ==
    ASSUME NEW S, NEW s \in Seq(S), NEW b \in Nat \ {0}, NEW n \in Nat, b <= n + 1, n + 1 <= Len(s)
    PROVE  /\ SubSeq(s, b, n) \in Seq(S) /\ SubSeq(s, n + 1, n) = <<>>
           /\ SubSeq(s, b, n + 1) = SubSeq(s, b, n) \o <<s[n + 1]>>
<1>0. Len(s) \in Nat /\ s[n + 1] \in S
  OBVIOUS
<1>1. /\ SubSeq(s, b, n) \in Seq(S) /\ Len(SubSeq(s, b, n)) = (n - b) + 1
      /\ \A i \in 1 .. (n - b) + 1 : SubSeq(s, b, n)[i] = s[b + i - 1]
  <2>1. \A i \in b..n : s[i] \in S
    BY <1>0
  <2>2. QED
    BY <1>0, <2>1
<1>2. /\ SubSeq(s, b, n + 1) \in Seq(S) /\ Len(SubSeq(s, b, n + 1)) = (n - b) + 2
      /\ \A i \in 1 .. (n - b) + 2 : SubSeq(s, b, n + 1)[i] = s[b + i - 1]
  <2>1. \A i \in b .. n + 1 : s[i] \in S
    BY <1>0
  <2>2. QED
    BY <1>0, <2>1
<1> DEFINE u == SubSeq(s, b, n + 1)
           v == SubSeq(s, b, n) \o <<s[n + 1]>>
<1>3. v \in Seq(S) /\ Len(v) = (n - b) + 2
  BY <1>0, <1>1
<1>4. ASSUME NEW i \in 1 .. (n - b) + 2 PROVE u[i] = v[i]
  <2>1. CASE i <= (n - b) + 1
    BY <1>0, <1>1, <1>2, <2>1
  <2>2. CASE i = (n - b) + 2
    <3>1. v[i] = s[n + 1] /\ b + i - 1 = n + 1
      BY <1>0, <1>1, <2>2
    <3>2. QED
      BY <1>2, <3>1
  <2>3. QED
    BY <2>1, <2>2
<1> HIDE DEF u, v
<1>5. u = v
  BY <1>2, <1>3, <1>4, SeqEqual DEF u
<1>6. SubSeq(s, n + 1, n) = <<>>
  OBVIOUS
<1>7. QED
  BY <1>1, <1>5, <1>6 DEF u, v

(* What a line is with one more character of it.                           *)
LEMMA LineMore ==
    ASSUME sent \in Seq(Sendable), NEW b \in Nat \ {0}, NEW n \in Nat, b <= n + 1, n + 1 <= Len(sent)
    PROVE  /\ LineOf(b, n) \in Seq(Sendable) /\ LineOf(n + 1, n) = <<>>
           /\ LineOf(b, n + 1) = IF sent[n + 1] \in {Nul, Cr} THEN LineOf(b, n)
                                 ELSE IF Len(LineOf(b, n)) < LineSize THEN Append(LineOf(b, n), sent[n + 1])
                                 ELSE LineOf(b, n)
<1>0. PICK c \in Sendable : c = sent[n + 1]
  OBVIOUS
<1>1. PICK t \in Seq(Sendable) : t = SubSeq(sent, b, n)
  BY SpanMore
<1>2. SubSeq(sent, b, n + 1) = t \o <<c>> /\ SubSeq(sent, n + 1, n) = <<>>
  BY <1>0, <1>1, SpanMore
<1>3. Clean(t) \in Seq(Sendable) /\ Clean(t \o <<c>>) = Clean(t) \o KeptOf(c)
  BY CleanMore
<1>4. PICK u \in Seq(Sendable) : u = Clean(t)
  BY <1>3
<1>5. /\ Cut(u) \in Seq(Sendable)
      /\ Cut(u \o <<c>>) = IF Len(Cut(u)) < LineSize THEN Append(Cut(u), c) ELSE Cut(u)
  BY CutMore
<1>6. LineOf(b, n) = Cut(u) /\ LineOf(b, n + 1) = Cut(u \o KeptOf(c))
  BY <1>1, <1>2, <1>3, <1>4 DEF LineOf
<1>7. LineOf(n + 1, n) = <<>>
  <2>a. LineOf(n + 1, n) = Cut(Clean(SubSeq(sent, n + 1, n)))
    BY DEF LineOf
  <2>b. SubSeq(sent, n + 1, n) = <<>>
    BY <1>2
  <2>c. LineOf(n + 1, n) = Cut(Clean(<<>>))
    BY <2>a, <2>b
  <2>1. LineOf(n + 1, n) = Cut(<<>>)
    BY <2>c, CleanNone
  <2>d. <<>> \in Seq(Sendable)
    OBVIOUS
  <2>2. Cut(<<>>) = <<>>
    BY <1>0, <2>d, CutMore
  <2>3. QED
    BY <2>1, <2>2
<1>8. CASE c \in {Nul, Cr}
  <2>1. KeptOf(c) = <<>> /\ u \o <<>> = u
    BY <1>8 DEF KeptOf
  <2>2. QED
    BY <1>0, <1>5, <1>6, <1>7, <1>8, <2>1
<1>9. CASE c \notin {Nul, Cr}
  <2>1. KeptOf(c) = <<c>>
    BY <1>9 DEF KeptOf
  <2>2. QED
    BY <1>0, <1>5, <1>6, <1>7, <1>9, <2>1
<1>10. QED
  BY <1>8, <1>9

(***************************************************************************)
(* The state of the reader.  What is not scanned yet has arrived but for   *)
(* one character; the end of the file is told at the end of what was sent. *)
(***************************************************************************)
Scans == [at : Nat \ {0}, line : Seq(Sendable), illegals : Nat]

LTyped ==
    /\ requireEOLN \in BOOLEAN /\ rude \in BOOLEAN /\ reading \in BOOLEAN
    /\ sent \in Seq(Sendable) /\ arrived \in 0..Len(sent)
    /\ scan \in Scans /\ scan.at <= arrived + 1
    /\ lines \in Seq(Seq(Sendable))
    /\ answer \in {"line", "eof", "timeout"} /\ (reading => answer = "line")
    /\ EmptyIsEof

(* What a call returns, and what is left then.                             *)
Told(s) == IF requireEOLN /\ s.line = <<>> /\ s.illegals > 0 THEN <<Lf>> ELSE s.line

LEMMA ReturnedIs ==
    ASSUME NEW s, LineReturned(s)
    PROVE  /\ reading' = FALSE /\ scan' = Fresh(s.at)
           /\ lines' = (IF Told(s) = <<>> THEN lines ELSE Append(lines, Told(s)))
           /\ answer' = (IF Told(s) = <<>> THEN "eof" ELSE "line")
  BY DEF LineReturned, Told

LEMMA FreshTyped == ASSUME NEW n \in Nat \ {0} PROVE Fresh(n) \in Scans
  BY DEF Fresh, Scans

LEMMA ScanTyped ==
    ASSUME LTyped, scan.at <= arrived
    PROVE  /\ ScanChar(scan) \in Scans /\ ScanChar(scan).at = scan.at + 1
           /\ sent[scan.at] \in Sendable /\ scan.at \in 1..Len(sent)
           /\ sent[scan.at] = Lf => ScanChar(scan).line # <<>>
           /\ ScanChar(scan).line = IF sent[scan.at] \in {Nul, Cr} THEN scan.line
                                    ELSE IF Len(scan.line) < LineSize THEN Append(scan.line, sent[scan.at])
                                    ELSE scan.line
<1>1. /\ scan.at \in 1..Len(sent) /\ sent[scan.at] \in Sendable /\ scan.line \in Seq(Sendable) /\ scan.illegals \in Nat
      /\ scan.at \in Nat \ {0} /\ LineSize \in Nat /\ LineSize > 0
  BY SizesAssumption DEF LTyped, Scans
<1>2. Append(scan.line, sent[scan.at]) \in Seq(Sendable) /\ Append(scan.line, sent[scan.at]) # <<>>
  BY <1>1
<1> DEFINE l == IF sent[scan.at] \in {Nul, Cr} THEN scan.line
                ELSE IF Len(scan.line) < LineSize THEN Append(scan.line, sent[scan.at]) ELSE scan.line
           j == IF Stray(scan) THEN scan.illegals + 1 ELSE scan.illegals
<1>3. ScanChar(scan) = [at |-> scan.at + 1, line |-> l, illegals |-> j]
  BY DEF ScanChar, Put, HasRoom
<1>4. l \in Seq(Sendable) /\ j \in Nat /\ scan.at + 1 \in Nat \ {0}
  BY <1>1, <1>2
<1>5. sent[scan.at] = Lf => l # <<>>
  <2>1. Lf # Nul /\ Lf # Cr
    BY DEF Lf, Nul, Cr
  <2>2. ~(Len(scan.line) < LineSize) => scan.line # <<>>
    BY <1>1
  <2>3. QED
    BY <1>2, <2>1, <2>2
<1> HIDE DEF l, j
<1>6. ScanChar(scan) \in Scans /\ ScanChar(scan).at = scan.at + 1 /\ ScanChar(scan).line = l
  BY <1>3, <1>4 DEF Scans
<1>7. QED
  BY <1>1, <1>5, <1>6 DEF l

LEMMA ToldTyped ==
    ASSUME LTyped, NEW s \in Scans PROVE Told(s) \in Seq(Sendable)
<1>1. s.line \in Seq(Sendable) /\ <<Lf>> \in Seq(Sendable)
  BY DEF Scans, Sendable
<1>2. QED
  BY <1>1 DEF Told

LEMMA ReturnTyped ==
    ASSUME LTyped, NEW s \in Scans, LineReturned(s), UNCHANGED <<requireEOLN, sent, arrived>>, rude' \in BOOLEAN,
           s.at <= arrived + 1, (Told(s) = <<>> => ~requireEOLN \/ (arrived = Len(sent) /\ s.at > arrived))
    PROVE  LTyped'
<1>1. /\ reading' = FALSE /\ scan' = Fresh(s.at)
      /\ lines' = (IF Told(s) = <<>> THEN lines ELSE Append(lines, Told(s)))
      /\ answer' = (IF Told(s) = <<>> THEN "eof" ELSE "line")
  BY ReturnedIs
<1>2. lines' \in Seq(Seq(Sendable))
  BY <1>1, ToldTyped DEF LTyped
<1>3. s.at \in Nat \ {0} /\ Fresh(s.at).at = s.at
  BY DEF Scans, Fresh
<1>4. scan' \in Scans /\ scan'.at = s.at
  BY <1>1, <1>3, FreshTyped
<1>5. answer' = "eof" => Told(s) = <<>>
  BY <1>1
<1>6. EmptyIsEof'
  BY <1>4, <1>5 DEF EmptyIsEof
<1>7. answer' \in {"line", "eof", "timeout"}
  BY <1>1
<1>8. QED
  BY <1>1, <1>2, <1>4, <1>6, <1>7 DEF LTyped

LEMMA LTypedInit == LInit => LTyped
<1> SUFFICES ASSUME LInit PROVE LTyped
  OBVIOUS
<1>1. sent \in Seq(Sendable)
  <2>1. sent \in Seq(STRING)
    BY SizesAssumption DEF LInit
  <2>2. QED
    BY <2>1 DEF Sendable
<1>2. scan = Fresh(1) /\ Fresh(1).at = 1 /\ Fresh(1) \in Scans
  BY FreshTyped DEF LInit, Fresh
<1>3. scan.at = 1 /\ arrived = 0 /\ scan.at <= arrived + 1 /\ arrived \in 0..Len(sent)
  BY <1>1, <1>2 DEF LInit
<1>4. requireEOLN \in BOOLEAN /\ rude = FALSE /\ reading = FALSE /\ lines = <<>> /\ answer = "line"
  BY DEF LInit
<1>5. lines \in Seq(Seq(Sendable)) /\ EmptyIsEof
  BY <1>4 DEF EmptyIsEof
<1>6. scan \in Scans
  BY <1>2 DEF LInit
<1>7. QED
  BY <1>1, <1>3, <1>4, <1>5, <1>6 DEF LTyped

LEMMA ScanOnTyped == ASSUME LTyped, ScanOn PROVE LTyped'
<1> DEFINE s == ScanChar(scan)
<1>1. reading /\ scan.at <= arrived /\ UNCHANGED <<requireEOLN, sent, arrived>>
  BY DEF ScanOn
<1>2. s \in Scans /\ s.at = scan.at + 1 /\ (sent[scan.at] = Lf => s.line # <<>>)
  BY <1>1, ScanTyped
<1>3. scan.at \in Nat /\ arrived \in Nat /\ s.at <= arrived + 1 /\ rude \in BOOLEAN
  BY <1>1, <1>2 DEF LTyped, Scans
<1>4. CASE (sent[scan.at] = Lf \/ Full(s)) /\ LineReturned(s) /\ UNCHANGED rude
  <2>1. Told(s) = <<>> => ~requireEOLN
    <3>1. <<Lf>> # <<>>
      OBVIOUS
    <3>2. QED
      BY <1>2, <1>4, <3>1 DEF Told, Full
  <2> HIDE DEF s
  <2>2. QED
    BY <1>1, <1>2, <1>3, <1>4, <2>1, ReturnTyped
<1>5. CASE s.illegals > 1 /\ LineReturned(s) /\ rude' = TRUE
  <2>1. Told(s) = <<>> => ~requireEOLN
    <3>1. <<Lf>> # <<>> /\ s.illegals > 0
      BY <1>2, <1>5 DEF Scans
    <3>2. QED
      BY <3>1 DEF Told
  <2> HIDE DEF s
  <2>2. QED
    BY <1>1, <1>2, <1>3, <1>5, <2>1, ReturnTyped
<1>6. CASE scan' = s /\ UNCHANGED <<reading, lines, answer, rude>>
  <2> HIDE DEF s
  <2>1. EmptyIsEof'
    BY <1>1, <1>6 DEF LTyped, EmptyIsEof
  <2>2. QED
    BY <1>1, <1>2, <1>3, <1>6, <2>1 DEF LTyped
<1>7. QED
  BY <1>4, <1>5, <1>6 DEF ScanOn

LEMMA LTypedStep == ASSUME LTyped, [LNext]_lvars PROVE LTyped'
<1>0. scan.at \in Nat \ {0} /\ arrived \in 0..Len(sent) /\ Len(sent) \in Nat /\ arrived \in Nat
  BY DEF LTyped, Scans
<1>1. CASE SReadline
  BY <1>1 DEF SReadline, LTyped, EmptyIsEof
<1>2. CASE Fill
  <2>1. PICK n \in 1..ReadSize : arrived + n <= Len(sent) /\ arrived' = arrived + n
    BY <1>2 DEF Fill
  <2>2. n \in Nat /\ n > 0
    BY SizesAssumption
  <2>3. arrived' \in 0..Len(sent) /\ scan.at <= arrived' + 1
    BY <1>0, <2>1, <2>2 DEF LTyped
  <2>4. EmptyIsEof'
    BY <1>2 DEF Fill, LTyped, EmptyIsEof
  <2>5. QED
    BY <1>2, <2>3, <2>4 DEF Fill, LTyped
<1>3. CASE ScanOn
  BY <1>3, ScanOnTyped
<1>4. CASE ReadEnds
  <2>1. /\ LineReturned(scan) /\ UNCHANGED <<requireEOLN, sent, arrived>> /\ scan \in Scans /\ rude' \in BOOLEAN
        /\ arrived = Len(sent) /\ scan.at > arrived /\ scan.at <= arrived + 1
    BY <1>4 DEF ReadEnds, LTyped
  <2>2. QED
    BY <2>1, ReturnTyped
<1>5. CASE ReadTimesOut
  <2>1. scan' \in Scans /\ scan'.at = scan.at
    BY <1>0, <1>5, FreshTyped DEF ReadTimesOut, Fresh
  <2>2. QED
    BY <1>5, <2>1 DEF ReadTimesOut, LTyped, EmptyIsEof
<1>6. CASE UNCHANGED lvars
  BY <1>6 DEF lvars, LTyped, EmptyIsEof
<1>7. QED
  BY <1>1, <1>2, <1>3, <1>4, <1>5, <1>6 DEF LNext

(***************************************************************************)
(* In pieces: there is room for the next character, and no LF is held.     *)
(***************************************************************************)
NoLf(l)   == \A i \in 1..Len(l) : l[i] # Lf
LfLast(l) == \A i \in 1 .. Len(l) - 1 : l[i] # Lf

PiInv ==
    ~requireEOLN =>
      /\ Len(scan.line) < LineSize /\ NoLf(scan.line)
      /\ answer # "timeout" => FlattenSeq(lines) \o scan.line = Clean(Taken)
      /\ \A k \in 1..Len(lines) : LfLast(lines[k])

LEMMA PiInvSays == LTyped /\ PiInv => Pieces
  BY DEF LTyped, PiInv, Pieces, LfLast

LEMMA TakenMore ==
    ASSUME LTyped, scan.at <= arrived
    PROVE  /\ Clean(Taken) \in Seq(Sendable)
           /\ Clean(SubSeq(sent, 1, scan.at)) = Clean(Taken) \o KeptOf(sent[scan.at])
<1>1. PICK n \in Nat : n + 1 = scan.at /\ n = scan.at - 1
  BY DEF LTyped, Scans
<1>2. n + 1 <= Len(sent) /\ 1 <= n + 1 /\ sent \in Seq(Sendable) /\ sent[n + 1] \in Sendable
  BY <1>1 DEF LTyped
<1>3. SubSeq(sent, 1, n) \in Seq(Sendable) /\ SubSeq(sent, 1, n + 1) = SubSeq(sent, 1, n) \o <<sent[n + 1]>>
  BY <1>2, SpanMore
<1>4. PICK t \in Seq(Sendable) : t = SubSeq(sent, 1, n)
  BY <1>3
<1>5. PICK c \in Sendable : c = sent[n + 1]
  BY <1>2
<1>6. Clean(t) \in Seq(Sendable) /\ Clean(t \o <<c>>) = Clean(t) \o KeptOf(c)
  BY CleanMore
<1>7. QED
  BY <1>1, <1>3, <1>4, <1>5, <1>6 DEF Taken

LEMMA LinesMore ==
    ASSUME lines \in Seq(Seq(Sendable)), NEW l \in Seq(Sendable)
    PROVE  /\ FlattenSeq(lines) \in Seq(Sendable) /\ FlattenSeq(Append(lines, l)) = FlattenSeq(lines) \o l
           /\ (\A k \in 1..Len(lines) : LfLast(lines[k])) /\ LfLast(l)
              => \A k \in 1..Len(Append(lines, l)) : LfLast(Append(lines, l)[k])
<1>1. PICK n \in Nat : n = Len(lines)
  OBVIOUS
<1>2. PICK m : m = Append(lines, l)
  OBVIOUS
<1>3. Len(m) = n + 1 /\ m[n + 1] = l /\ (\A i \in 1..n : lines[i] = m[i]) /\ m \in Seq(Seq(Sendable))
  BY <1>1, <1>2
<1>4. lines \in [1..n -> Seq(Sendable)] /\ m \in [1 .. n + 1 -> Seq(Sendable)]
  BY <1>1, <1>3
<1>5. FlattenSeq(m) = FlattenSeq(lines) \o m[n + 1] /\ FlattenSeq(lines) \in Seq(Sendable)
  BY <1>3, <1>4, FlattenMore, FlattenTyped
<1>6. ASSUME \A k \in 1..Len(lines) : LfLast(lines[k]), LfLast(l), NEW k \in 1..Len(m) PROVE LfLast(m[k])
  <2>1. CASE k <= n
    BY <1>1, <1>3, <1>6, <2>1
  <2>2. CASE k = n + 1
    BY <1>3, <1>6, <2>2
  <2>3. QED
    BY <1>3, <2>1, <2>2
<1>7. QED
  BY <1>2, <1>3, <1>5, <1>6

(* A call that returns what it holds.                                      *)
LEMMA PieceReturned ==
    ASSUME LTyped, PiInv, ~requireEOLN, reading, NEW s \in Scans, LineReturned(s), UNCHANGED <<requireEOLN, sent>>,
           FlattenSeq(lines) \o s.line = Clean(SubSeq(sent, 1, s.at - 1)), LfLast(s.line)
    PROVE  PiInv'
<1>1. Told(s) = s.line /\ s.line \in Seq(Sendable) /\ s.at \in Nat \ {0} /\ lines \in Seq(Seq(Sendable))
  BY DEF Told, Scans, LTyped
<1>2. /\ scan' = Fresh(s.at) /\ lines' = (IF s.line = <<>> THEN lines ELSE Append(lines, s.line))
      /\ answer' = (IF s.line = <<>> THEN "eof" ELSE "line")
  BY <1>1, ReturnedIs
<1>3. scan'.line = <<>> /\ scan'.at = s.at
  BY <1>2 DEF Fresh
<1>4. Len(scan'.line) < LineSize /\ NoLf(scan.line)'
  BY <1>3, SizesAssumption DEF NoLf
<1>5. FlattenSeq(lines') = FlattenSeq(lines) \o s.line /\ FlattenSeq(lines') \in Seq(Sendable)
  <2>1. FlattenSeq(lines) \in Seq(Sendable) /\ FlattenSeq(Append(lines, s.line)) = FlattenSeq(lines) \o s.line
    BY <1>1, LinesMore
  <2>2. FlattenSeq(lines) \o s.line \in Seq(Sendable)
    BY <1>1, <2>1, ConcatProperties
  <2>3. CASE s.line = <<>>
    BY <1>2, <2>1, <2>3, JoinNone
  <2>4. CASE s.line # <<>>
    BY <1>2, <2>1, <2>2, <2>4
  <2>5. QED
    BY <2>3, <2>4
<1>6. FlattenSeq(lines') \o scan'.line = Clean(Taken')
  <2>1. Taken' = SubSeq(sent, 1, s.at - 1)
    BY <1>3 DEF Taken
  <2>2. FlattenSeq(lines') \o <<>> = FlattenSeq(lines')
    BY <1>5, JoinNone
  <2>3. QED
    BY <1>3, <1>5, <2>1, <2>2
<1>7. \A k \in 1..Len(lines') : LfLast(lines'[k])
  <2>1. \A k \in 1..Len(lines) : LfLast(lines[k])
    BY DEF PiInv
  <2>2. \A k \in 1..Len(Append(lines, s.line)) : LfLast(Append(lines, s.line)[k])
    BY <1>1, <2>1, LinesMore
  <2>3. QED
    BY <1>2, <2>1, <2>2
<1>8. Clean(Taken)' = Clean(Taken') /\ FlattenSeq(lines)' = FlattenSeq(lines')
  BY DEF Clean, Taken, FlattenSeq
<1>9. QED
  BY <1>4, <1>6, <1>7, <1>8 DEF PiInv, LfLast

LEMMA PieceScanned == ASSUME LTyped, PiInv, ~requireEOLN, ScanOn PROVE PiInv'
<1> DEFINE s == ScanChar(scan)
           c == sent[scan.at]
<1>1. reading /\ scan.at <= arrived /\ UNCHANGED <<requireEOLN, sent, arrived>> /\ answer = "line"
  BY DEF ScanOn, LTyped
<1>2. /\ s \in Scans /\ s.at = scan.at + 1 /\ c \in Sendable /\ scan.at \in 1..Len(sent)
      /\ s.line = (IF c \in {Nul, Cr} THEN scan.line
                   ELSE IF Len(scan.line) < LineSize THEN Append(scan.line, c) ELSE scan.line)
  BY <1>1, ScanTyped
<1>3. scan.line \in Seq(Sendable) /\ Len(scan.line) < LineSize /\ NoLf(scan.line) /\ scan.at \in Nat
      /\ FlattenSeq(lines) \o scan.line = Clean(Taken) /\ lines \in Seq(Seq(Sendable))
  BY <1>1 DEF PiInv, LTyped, Scans
<1>4. s.line = scan.line \o KeptOf(c)
  <2>1. CASE c \in {Nul, Cr}
    BY <1>2, <1>3, <2>1, JoinNone DEF KeptOf
  <2>2. CASE c \notin {Nul, Cr}
    <3>1. KeptOf(c) = <<c>> /\ s.line = Append(scan.line, c)
      BY <1>2, <1>3, <2>2 DEF KeptOf
    <3>a. PICK l \in Seq(Sendable), d \in Sendable : l = scan.line /\ d = c
      BY <1>2, <1>3
    <3>b. Append(l, d) = l \o <<d>>
      OBVIOUS
    <3>2. Append(scan.line, c) = scan.line \o <<c>>
      BY <3>a, <3>b
    <3>3. QED
      BY <3>1, <3>2
  <2>3. QED
    BY <2>1, <2>2
<1>5. s.line \in Seq(Sendable) /\ (c # Lf => NoLf(s.line)) /\ LfLast(s.line)
  <2>1. CASE c \in {Nul, Cr}
    BY <1>2, <1>3, <2>1 DEF NoLf, LfLast
  <2>2. CASE c \notin {Nul, Cr}
    <3>1. s.line = Append(scan.line, c)
      BY <1>2, <1>3, <2>2
    <3>2. PICK l \in Seq(Sendable) : l = scan.line /\ NoLf(l)
      BY <1>3
    <3>3. PICK d \in Sendable : d = c
      BY <1>2
    <3>4. Append(l, d) \in Seq(Sendable) /\ (d # Lf => NoLf(Append(l, d))) /\ LfLast(Append(l, d))
      BY <3>2 DEF NoLf, LfLast
    <3>5. QED
      BY <3>1, <3>2, <3>3, <3>4
  <2>3. QED
    BY <2>1, <2>2
<1>6. FlattenSeq(lines) \o s.line = Clean(SubSeq(sent, 1, s.at - 1))
  <2>1. FlattenSeq(lines) \in Seq(Sendable)
    BY <1>3, FlattenTyped
  <2>2. KeptOf(c) \in Seq(Sendable)
    <3>1. <<c>> \in Seq(Sendable) /\ <<>> \in Seq(Sendable)
      BY <1>2
    <3>2. QED
      BY <3>1 DEF KeptOf
  <2>3. (FlattenSeq(lines) \o scan.line) \o KeptOf(c) = FlattenSeq(lines) \o (scan.line \o KeptOf(c))
    <3>1. PICK x \in Seq(Sendable) : x = FlattenSeq(lines)
      BY <2>1
    <3>2. PICK y \in Seq(Sendable) : y = scan.line
      BY <1>3
    <3>3. PICK z \in Seq(Sendable) : z = KeptOf(c)
      BY <2>2
    <3>4. (x \o y) \o z = x \o (y \o z)
      BY JoinThree
    <3>5. QED
      BY <3>1, <3>2, <3>3, <3>4
  <2>4. Clean(SubSeq(sent, 1, scan.at)) = Clean(Taken) \o KeptOf(c)
    BY <1>1, TakenMore
  <2>5. s.at - 1 = scan.at
    BY <1>2, <1>3
  <2> HIDE DEF s, c
  <2>6. QED
    BY <1>3, <1>4, <2>3, <2>4, <2>5
<1> HIDE DEF s, c
<1>7. CASE LineReturned(s)
  BY <1>1, <1>2, <1>5, <1>6, <1>7, PieceReturned
<1>8. CASE ~(c = Lf \/ Full(s)) /\ scan' = s /\ UNCHANGED <<reading, lines, answer, rude>>
  <2>1. Len(s.line) < LineSize
    BY <1>8 DEF Full, HasRoom
  <2>2. Taken' = SubSeq(sent, 1, s.at - 1)
    BY <1>1, <1>8 DEF Taken
  <2>3. FlattenSeq(lines') \o scan'.line = Clean(Taken')
    BY <1>6, <1>8, <2>2
  <2>4. \A k \in 1..Len(lines') : LfLast(lines'[k])
    BY <1>8 DEF PiInv
  <2>5. Clean(Taken)' = Clean(Taken') /\ FlattenSeq(lines)' = FlattenSeq(lines')
    BY DEF Clean, Taken, FlattenSeq
  <2>6. NoLf(scan.line)'
    BY <1>5, <1>8 DEF NoLf
  <2>7. QED
    BY <1>8, <2>1, <2>3, <2>4, <2>5, <2>6 DEF PiInv, LfLast
<1>9. QED
  BY <1>7, <1>8 DEF ScanOn, s, c

LEMMA PiInvInit == LInit /\ LTyped => PiInv
<1> SUFFICES ASSUME LInit, LTyped PROVE PiInv
  OBVIOUS
<1>1. scan = Fresh(1) /\ lines = <<>>
  BY DEF LInit
<1>2. scan.line = <<>> /\ scan.at = 1 /\ Len(<<>>) = 0
  BY <1>1 DEF Fresh
<1>3. FlattenSeq(lines) = <<>>
  BY <1>1, <1>2 DEF FlattenSeq
<1>4. Clean(Taken) = <<>>
  <2>1. Taken = <<>>
    BY <1>2 DEF Taken
  <2>2. QED
    BY <2>1, CleanNone
<1>5. FlattenSeq(lines) \o scan.line = Clean(Taken)
  BY <1>2, <1>3, <1>4
<1>6. 0 < LineSize
  BY SizesAssumption
<1>7. QED
  BY <1>1, <1>2, <1>5, <1>6 DEF PiInv, NoLf

LEMMA PiInvStep == ASSUME LTyped, PiInv, [LNext]_lvars PROVE PiInv'
<1>0. requireEOLN' = requireEOLN /\ sent' = sent
  BY DEF LNext, lvars, SReadline, Fill, ScanOn, ReadEnds, ReadTimesOut
<1>1. SUFFICES ASSUME ~requireEOLN PROVE PiInv'
  BY <1>0 DEF PiInv
<1>2. CASE UNCHANGED <<scan, lines, answer>>
  <2>1. Taken' = Taken
    BY <1>0, <1>2 DEF Taken
  <2>2. Clean(Taken)' = Clean(Taken') /\ FlattenSeq(lines)' = FlattenSeq(lines')
    BY DEF Clean, Taken, FlattenSeq
  <2>3. Len(scan.line) < LineSize /\ NoLf(scan.line) /\ \A k \in 1..Len(lines) : LfLast(lines[k])
    BY <1>1 DEF PiInv
  <2>4. answer' # "timeout" => FlattenSeq(lines') \o scan'.line = Clean(Taken')
    BY <1>1, <1>2, <2>1 DEF PiInv
  <2>5. NoLf(scan.line)' /\ \A k \in 1..Len(lines') : LfLast(lines'[k])
    BY <1>2, <2>3 DEF NoLf
  <2>6. QED
    BY <1>2, <2>2, <2>3, <2>4, <2>5 DEF PiInv, LfLast
<1>3. CASE ScanOn
  BY <1>1, <1>3, PieceScanned
<1>4. CASE ReadEnds
  <2>1. /\ reading /\ LineReturned(scan) /\ UNCHANGED <<requireEOLN, sent, arrived>> /\ scan \in Scans
        /\ answer = "line"
    BY <1>4 DEF ReadEnds, LTyped
  <2>2. FlattenSeq(lines) \o scan.line = Clean(SubSeq(sent, 1, scan.at - 1))
    BY <1>1, <2>1 DEF PiInv, Taken
  <2>3. LfLast(scan.line)
    <3>1. NoLf(scan.line) /\ Len(scan.line) \in Nat
      BY <1>1 DEF PiInv, LTyped, Scans
    <3>2. QED
      BY <3>1 DEF NoLf, LfLast
  <2>4. QED
    BY <1>1, <2>1, <2>2, <2>3, PieceReturned
<1>5. CASE ReadTimesOut
  <2>1. answer' = "timeout" /\ scan'.line = <<>> /\ lines' = lines
    BY <1>5 DEF ReadTimesOut, Fresh
  <2>2. Len(scan'.line) < LineSize /\ NoLf(scan.line)'
    BY <2>1, SizesAssumption DEF NoLf
  <2>3. \A k \in 1..Len(lines') : LfLast(lines'[k])
    BY <1>1, <2>1 DEF PiInv
  <2>4. QED
    BY <2>1, <2>2, <2>3 DEF PiInv, LfLast
<1>6. QED
  BY <1>2, <1>3, <1>4, <1>5 DEF LNext, lvars, SReadline, Fill

(***************************************************************************)
(* Whole lines: the LFs taken have each ended one, what is held is the     *)
(* beginning of the next, and the one that the end of the file ends comes  *)
(* last.                                                                   *)
(***************************************************************************)
LastOf(l) == IF l = <<>> THEN <<Lf>> ELSE l

WInv ==
    (requireEOLN /\ ~rude) =>
      LET n == Cardinality(LfsTo(scan.at - 1)) IN
      /\ Len(lines) \in {n, n + 1}
      /\ \A e \in LfsTo(scan.at - 1) : \A b \in 1..e :
           Begins(b, e - 1) => lines[Cardinality(LfsTo(e))] = LineOf(b, e)
      /\ Len(lines) = n /\ answer = "line" =>
           \A b \in 1..scan.at : Begins(b, scan.at - 1) => scan.line = LineOf(b, scan.at - 1)
      /\ Len(lines) = n + 1 =>
           /\ arrived = Len(sent) /\ scan.at > Len(sent) /\ scan.line = <<>> /\ scan.illegals = 0
           /\ \A b \in 1..Len(sent) : Begins(b, Len(sent)) => lines[n + 1] = LastOf(LineOf(b, Len(sent)))

LEMMA LfsMore ==
    ASSUME NEW n \in Nat
    PROVE  /\ Cardinality(LfsTo(n)) \in Nat
           /\ sent[n + 1] = Lf => Cardinality(LfsTo(n + 1)) = Cardinality(LfsTo(n)) + 1
           /\ sent[n + 1] # Lf => LfsTo(n + 1) = LfsTo(n)
           /\ \A e \in LfsTo(n) : Cardinality(LfsTo(e)) \in 1..Cardinality(LfsTo(n))
           /\ LfsTo(n + 1) \subseteq LfsTo(n) \cup {n + 1} /\ LfsTo(0) = {}
<1>1. \A m \in Nat : IsFiniteSet(LfsTo(m)) /\ Cardinality(LfsTo(m)) \in Nat
  <2>1. ASSUME NEW m \in Nat PROVE IsFiniteSet(LfsTo(m))
    <3>1. LfsTo(m) \subseteq 1..m /\ IsFiniteSet(1..m)
      BY FS_Interval DEF LfsTo
    <3>2. QED
      BY <3>1, FS_Subset
  <2>2. QED
    BY <2>1, FS_CardinalityType
<1>2. ASSUME sent[n + 1] = Lf PROVE Cardinality(LfsTo(n + 1)) = Cardinality(LfsTo(n)) + 1
  <2>1. LfsTo(n + 1) = LfsTo(n) \cup {n + 1} /\ n + 1 \notin LfsTo(n)
    BY <1>2 DEF LfsTo
  <2>2. QED
    BY <1>1, <2>1, FS_AddElement
<1>3. ASSUME sent[n + 1] # Lf PROVE LfsTo(n + 1) = LfsTo(n)
  BY <1>3 DEF LfsTo
<1>4. ASSUME NEW e \in LfsTo(n) PROVE Cardinality(LfsTo(e)) \in 1..Cardinality(LfsTo(n))
  <2>1. e \in Nat /\ e \in LfsTo(e) /\ LfsTo(e) \subseteq LfsTo(n)
    BY DEF LfsTo
  <2>2. Cardinality(LfsTo(e)) <= Cardinality(LfsTo(n))
    BY <1>1, <2>1, FS_Subset
  <2>3. Cardinality(LfsTo(e)) # 0 /\ Cardinality(LfsTo(e)) \in Nat
    BY <1>1, <2>1, FS_EmptySet
  <2>4. QED
    BY <1>1, <2>2, <2>3
<1>5. LfsTo(n + 1) \subseteq LfsTo(n) \cup {n + 1} /\ LfsTo(0) = {}
  BY DEF LfsTo
<1>6. QED
  BY <1>1, <1>2, <1>3, <1>4, <1>5

LEMMA LineNone == ASSUME sent \in Seq(Sendable), NEW n \in Nat PROVE LineOf(n + 1, n) = <<>>
<1>1. SubSeq(sent, n + 1, n) = <<>>
  OBVIOUS
<1>2. LineOf(n + 1, n) = Cut(Clean(SubSeq(sent, n + 1, n)))
  BY DEF LineOf
<1>3. LineOf(n + 1, n) = Cut(Clean(<<>>))
  BY <1>1, <1>2
<1>4. LineOf(n + 1, n) = Cut(<<>>)
  BY <1>3, CleanNone
<1>5. Lf \in Sendable /\ <<>> \in Seq(Sendable)
  BY DEF Sendable
<1>6. Cut(<<>>) = <<>>
  BY <1>5, CutMore
<1>7. QED
  BY <1>4, <1>6

LEMMA LinesStay ==
    ASSUME sent' = sent
    PROVE  \A b, e : /\ LineOf(b, e)' = LineOf(b, e) /\ (Begins(b, e)' <=> Begins(b, e))
                     /\ LfsTo(e)' = LfsTo(e) /\ LastOf(LineOf(b, e))' = LastOf(LineOf(b, e))
  BY DEF LineOf, Clean, Cut, FlattenSeq, Begins, LfsTo, LastOf

LEMMA WInvInit == LInit /\ LTyped => WInv
<1> SUFFICES ASSUME LInit, LTyped PROVE WInv
  OBVIOUS
<1>1. scan = Fresh(1) /\ lines = <<>> /\ sent \in Seq(Sendable)
  BY DEF LInit, LTyped
<1>2. scan.line = <<>> /\ scan.at = 1 /\ scan.at - 1 = 0 /\ Len(lines) = 0
  BY <1>1 DEF Fresh
<1>3. LfsTo(0) = {} /\ Cardinality(LfsTo(0)) = 0
  BY LfsMore, FS_EmptySet
<1>4. LineOf(1, 0) = <<>>
  BY <1>1, LineNone
<1>5. \A b \in 1..scan.at : b = 1
  BY <1>2
<1>6. QED
  BY <1>2, <1>3, <1>4, <1>5 DEF WInv

(* The parts of WInv, for a reader that has taken n characters.            *)
HeldIs(n) == \A b \in 1 .. n + 1 : Begins(b, n) => scan.line = LineOf(b, n)

LEMMA WholeParts ==
    ASSUME LTyped, WInv, requireEOLN, ~rude, NEW n \in Nat, n + 1 = scan.at
    PROVE  /\ Len(lines) \in {Cardinality(LfsTo(n)), Cardinality(LfsTo(n)) + 1}
           /\ \A e \in LfsTo(n) : \A b \in 1..e : Begins(b, e - 1) => lines[Cardinality(LfsTo(e))] = LineOf(b, e)
           /\ Len(lines) = Cardinality(LfsTo(n)) /\ answer = "line" => HeldIs(n)
           /\ Len(lines) = Cardinality(LfsTo(n)) + 1 =>
                /\ arrived = Len(sent) /\ scan.at > Len(sent) /\ scan.line = <<>> /\ scan.illegals = 0
                /\ \A b \in 1..Len(sent) :
                     Begins(b, Len(sent)) => lines[Cardinality(LfsTo(n)) + 1] = LastOf(LineOf(b, Len(sent)))
<1>1. n = scan.at - 1
  OBVIOUS
<1>2. QED
  BY <1>1 DEF WInv, HeldIs

(* A pass of the loop at the character n + 1, from n characters taken.     *)
LEMMA WholeScanned == ASSUME LTyped, WInv, requireEOLN, ~rude, ~rude', ScanOn PROVE WInv'
<1> DEFINE s == ScanChar(scan)
<1>1. reading /\ scan.at <= arrived /\ UNCHANGED <<requireEOLN, sent, arrived>> /\ answer = "line"
  BY DEF ScanOn, LTyped
<1>2. PICK n \in Nat : n + 1 = scan.at /\ n + 1 <= Len(sent) /\ n + 1 \in 1..Len(sent)
  <2>1. scan.at \in Nat \ {0} /\ arrived \in 0..Len(sent) /\ Len(sent) \in Nat
    BY DEF LTyped, Scans
  <2>2. scan.at - 1 \in Nat /\ (scan.at - 1) + 1 = scan.at /\ scan.at \in 1..Len(sent) /\ scan.at <= Len(sent)
    BY <1>1, <2>1
  <2>3. QED
    BY <2>2
<1> DEFINE c == sent[n + 1]
           k == Cardinality(LfsTo(n))
<1>3. /\ s \in Scans /\ s.at = n + 2 /\ c \in Sendable /\ (c = Lf => s.line # <<>>)
      /\ s.line = (IF c \in {Nul, Cr} THEN scan.line
                   ELSE IF Len(scan.line) < LineSize THEN Append(scan.line, c) ELSE scan.line)
  BY <1>1, <1>2, ScanTyped
<1>4. sent \in Seq(Sendable) /\ Len(sent) \in Nat /\ lines \in Seq(Seq(Sendable)) /\ s.line \in Seq(Sendable)
  BY <1>3 DEF LTyped, Scans
<1>5. k \in Nat /\ \A e \in LfsTo(n) : Cardinality(LfsTo(e)) \in 1..k
  BY LfsMore
<1>6. Len(lines) = k /\ HeldIs(n)
  BY <1>1, <1>2, <1>5, WholeParts
<1>7. \A e \in LfsTo(n) : \A b \in 1..e : Begins(b, e - 1) => lines[Cardinality(LfsTo(e))] = LineOf(b, e)
  BY <1>2, WholeParts
<1>8. ASSUME NEW b \in 1 .. n + 1, Begins(b, n) PROVE s.line = LineOf(b, n + 1)
  <2>1. b \in Nat \ {0} /\ b <= n + 1
    BY <1>8
  <2>2. scan.line = LineOf(b, n)
    BY <1>6, <1>8 DEF HeldIs
  <2>3. QED
    BY <1>2, <1>3, <1>4, <2>1, <2>2, LineMore
<1>9. n + 1 \in Nat /\ (n + 1) + 1 = n + 2 /\ (n + 1) - 1 = n /\ (n + 2) - 1 = n + 1
  OBVIOUS
<1> HIDE DEF s, c, k
<1>10. CASE c = Lf /\ LineReturned(s)
  <2>1. Told(s) = s.line /\ s.line # <<>>
    BY <1>3, <1>10 DEF Told
  <2>2. scan' = Fresh(n + 2) /\ lines' = Append(lines, s.line) /\ answer' = "line"
    BY <1>3, <2>1, <1>10, ReturnedIs
  <2>3. scan'.at = n + 2 /\ scan'.line = <<>>
    BY <2>2 DEF Fresh
  <2>4. Cardinality(LfsTo(n + 1)) = k + 1
    BY <1>10, LfsMore DEF c, k
  <2>5. Len(lines') = k + 1 /\ lines'[k + 1] = s.line /\ \A i \in 1..k : lines'[i] = lines[i]
    BY <1>4, <1>5, <1>6, <2>2
  <2>6. ASSUME NEW e \in LfsTo(n + 1), NEW b \in 1..e, Begins(b, e - 1)
        PROVE  lines'[Cardinality(LfsTo(e))] = LineOf(b, e)
    <3>1. CASE e \in LfsTo(n)
      BY <1>5, <1>7, <2>5, <2>6, <3>1
    <3>2. CASE e = n + 1
      BY <1>8, <1>9, <2>4, <2>5, <2>6, <3>2
    <3>3. e \in LfsTo(n) \/ e = n + 1
      BY LfsMore
    <3>4. QED
      BY <3>1, <3>2, <3>3
  <2>7. ASSUME NEW b \in 1 .. n + 2, Begins(b, n + 1) PROVE <<>> = LineOf(b, n + 1)
    <3>1. b = n + 2
      BY <1>10, <2>7 DEF Begins, c
    <3>2. LineOf((n + 1) + 1, n + 1) = <<>>
      BY <1>4, <1>9, LineNone
    <3>3. QED
      BY <1>9, <3>1, <3>2
  <2>8. WInv'
    <3>1. /\ Cardinality(LfsTo(n + 1))' = k + 1 /\ LfsTo(n + 1)' = LfsTo(n + 1)
          /\ \A b, e : LineOf(b, e)' = LineOf(b, e) /\ (Begins(b, e)' <=> Begins(b, e)) /\ LfsTo(e)' = LfsTo(e)
      BY <1>1, <2>4, LinesStay
    <3>2. scan'.at - 1 = n + 1
      BY <1>9, <2>3
    <3>3. k + 1 # (k + 1) + 1
      BY <1>5
    <3>4. QED
      BY <2>3, <2>5, <2>6, <2>7, <3>1, <3>2, <3>3 DEF WInv
  <2>9. QED
    BY <2>8
<1>11. CASE c # Lf /\ scan' = s /\ UNCHANGED <<reading, lines, answer, rude>>
  <2>1. LfsTo(n + 1) = LfsTo(n)
    BY <1>11, LfsMore DEF c
  <2>2. ASSUME NEW b \in 1 .. n + 2, Begins(b, n + 1) PROVE s.line = LineOf(b, n + 1)
    <3>1. b \in 1 .. n + 1
      BY <1>11, <2>2 DEF Begins, c
    <3>2. Begins(b, n)
      BY <2>2 DEF Begins
    <3>3. QED
      BY <1>8, <3>1, <3>2
  <2>3. /\ LfsTo(n + 1)' = LfsTo(n)
        /\ \A b, e : LineOf(b, e)' = LineOf(b, e) /\ (Begins(b, e)' <=> Begins(b, e)) /\ LfsTo(e)' = LfsTo(e)
    BY <1>1, <2>1, LinesStay
  <2>4. scan'.at = n + 2 /\ scan'.at - 1 = n + 1 /\ scan'.line = s.line /\ lines' = lines
    BY <1>3, <1>9, <1>11
  <2>5. Len(lines') = k /\ k # k + 1 /\ Cardinality(LfsTo(n + 1)') = k
    BY <1>5, <1>6, <2>3, <2>4 DEF k
  <2>6. QED
    BY <1>7, <2>1, <2>2, <2>3, <2>4, <2>5 DEF WInv
<1>12. QED
  BY <1>1, <1>2, <1>10, <1>11 DEF ScanOn, Full, s, c

(* The end of the file.                                                    *)
LEMMA WholeEnds == ASSUME LTyped, WInv, requireEOLN, ~rude, ReadEnds PROVE WInv'
<1>1. /\ LineReturned(scan) /\ UNCHANGED <<requireEOLN, sent, arrived, rude>> /\ arrived = Len(sent)
      /\ scan.at > arrived /\ scan.at <= arrived + 1 /\ answer = "line" /\ scan.at \in Nat \ {0}
      /\ scan.line \in Seq(Sendable) /\ scan.illegals \in Nat /\ lines \in Seq(Seq(Sendable)) /\ arrived \in Nat
  BY DEF ReadEnds, LTyped, Scans
<1>2. PICK n \in Nat : n + 1 = scan.at /\ n = Len(sent)
  BY <1>1
<1> DEFINE k == Cardinality(LfsTo(n))
<1>3. k \in Nat /\ \A e \in LfsTo(n) : Cardinality(LfsTo(e)) \in 1..k
  BY LfsMore
<1>4. /\ Len(lines) \in {k, k + 1}
      /\ \A e \in LfsTo(n) : \A b \in 1..e : Begins(b, e - 1) => lines[Cardinality(LfsTo(e))] = LineOf(b, e)
      /\ Len(lines) = k => HeldIs(n)
      /\ Len(lines) = k + 1 =>
           /\ scan.line = <<>> /\ scan.illegals = 0
           /\ \A b \in 1..n : Begins(b, n) => lines[k + 1] = LastOf(LineOf(b, n))
  BY <1>1, <1>2, WholeParts
<1>5. /\ scan' = Fresh(scan.at)
      /\ lines' = (IF Told(scan) = <<>> THEN lines ELSE Append(lines, Told(scan)))
      /\ answer' = (IF Told(scan) = <<>> THEN "eof" ELSE "line")
  BY <1>1, ReturnedIs
<1>6. scan'.at = n + 1 /\ scan'.at - 1 = n /\ scan'.line = <<>> /\ scan'.illegals = 0
  BY <1>2, <1>5 DEF Fresh
<1> HIDE DEF k
<1>7. /\ Cardinality(LfsTo(n))' = k /\ LfsTo(n)' = LfsTo(n)
      /\ \A b, e : /\ LineOf(b, e)' = LineOf(b, e) /\ (Begins(b, e)' <=> Begins(b, e)) /\ LfsTo(e)' = LfsTo(e)
                   /\ LastOf(LineOf(b, e))' = LastOf(LineOf(b, e))
  BY <1>1, LinesStay DEF k
<1>8. /\ Len(lines') \in {k, k + 1}
      /\ \A e \in LfsTo(n) : \A b \in 1..e : Begins(b, e - 1) => lines'[Cardinality(LfsTo(e))] = LineOf(b, e)
      /\ Len(lines') = k => answer' # "line"
      /\ Len(lines') = k + 1 => \A b \in 1..n : Begins(b, n) => lines'[k + 1] = LastOf(LineOf(b, n))
  <2>1. CASE Told(scan) = <<>>
    BY <1>4, <1>5, <2>1
  <2>2. CASE Told(scan) # <<>>
    <3>1. Len(lines) = k
      <4>1. Told(scan) = scan.line \/ scan.illegals > 0
        BY DEF Told
      <4>2. QED
        BY <1>1, <1>4, <2>2, <4>1
    <3>2. PICK l \in Seq(Sendable) : l = Told(scan)
      BY <1>1, ToldTyped DEF LTyped
    <3>3. lines' = Append(lines, l)
      BY <1>5, <2>2, <3>2
    <3>4. Len(lines') = k + 1 /\ lines'[k + 1] = l /\ \A i \in 1..k : lines'[i] = lines[i]
      BY <1>1, <1>3, <3>1, <3>3
    <3>5. l = LastOf(scan.line)
      BY <2>2, <3>2 DEF Told, LastOf
    <3>6. \A b \in 1..n : Begins(b, n) => scan.line = LineOf(b, n)
      BY <1>4, <3>1 DEF HeldIs
    <3>7. \A b \in 1..n : Begins(b, n) => lines'[k + 1] = LastOf(LineOf(b, n))
      BY <3>4, <3>5, <3>6
    <3>8. \A e \in LfsTo(n) : \A b \in 1..e : Begins(b, e - 1) => lines'[Cardinality(LfsTo(e))] = LineOf(b, e)
      BY <1>3, <1>4, <3>4
    <3>9. k # k + 1
      BY <1>3
    <3>10. QED
      BY <3>4, <3>7, <3>8, <3>9
  <2>3. QED
    BY <2>1, <2>2
<1>9. arrived' = Len(sent') /\ scan'.at > Len(sent') /\ Len(sent') = n
  BY <1>1, <1>2, <1>6
<1>10. QED
  BY <1>6, <1>7, <1>8, <1>9 DEF WInv

LEMMA WInvStep == ASSUME LTyped, WInv, [LNext]_lvars PROVE WInv'
<1>0. requireEOLN' = requireEOLN /\ sent' = sent /\ (rude => rude')
  BY DEF LNext, lvars, SReadline, Fill, ScanOn, ReadEnds, ReadTimesOut
<1>1. SUFFICES ASSUME requireEOLN, ~rude, ~rude' PROVE WInv'
  BY <1>0 DEF WInv
<1>2. PICK n \in Nat : n + 1 = scan.at /\ n = scan.at - 1
  BY DEF LTyped, Scans
<1> DEFINE k == Cardinality(LfsTo(n))
<1>3. /\ Len(lines) \in {k, k + 1}
      /\ \A e \in LfsTo(n) : \A b \in 1..e : Begins(b, e - 1) => lines[Cardinality(LfsTo(e))] = LineOf(b, e)
      /\ Len(lines) = k /\ answer = "line" => HeldIs(n)
      /\ Len(lines) = k + 1 =>
           /\ arrived = Len(sent) /\ scan.at > Len(sent) /\ scan.line = <<>> /\ scan.illegals = 0
           /\ \A b \in 1..Len(sent) : Begins(b, Len(sent)) => lines[k + 1] = LastOf(LineOf(b, Len(sent)))
  BY <1>1, <1>2, WholeParts
<1>4. k \in Nat
  BY LfsMore
<1>5. /\ Cardinality(LfsTo(n))' = k /\ LfsTo(n)' = LfsTo(n)
      /\ \A b, e : /\ LineOf(b, e)' = LineOf(b, e) /\ (Begins(b, e)' <=> Begins(b, e)) /\ LfsTo(e)' = LfsTo(e)
                   /\ LastOf(LineOf(b, e))' = LastOf(LineOf(b, e))
  BY <1>0, LinesStay
<1> HIDE DEF k
<1>6. CASE UNCHANGED <<scan, lines, answer>> /\ (arrived = Len(sent) => arrived' = arrived)
  <2>1. HeldIs(n)' <=> HeldIs(n)
    BY <1>5, <1>6 DEF HeldIs
  <2>2. QED
    BY <1>0, <1>2, <1>3, <1>5, <1>6, <2>1 DEF WInv, HeldIs
<1>7. CASE ScanOn
  BY <1>1, <1>7, WholeScanned
<1>8. CASE ReadEnds
  BY <1>1, <1>8, WholeEnds
<1>9. CASE ReadTimesOut
  <2>1. /\ answer' = "timeout" /\ scan' = Fresh(scan.at) /\ lines' = lines /\ arrived' = arrived
    BY <1>9 DEF ReadTimesOut
  <2>2. scan'.at = scan.at /\ scan'.line = <<>> /\ scan'.illegals = 0
    BY <2>1 DEF Fresh
  <2>3. QED
    BY <1>0, <1>2, <1>3, <1>5, <2>1, <2>2 DEF WInv
<1>10. CASE SReadline
  BY <1>6, <1>10 DEF SReadline, LTyped
<1>11. CASE Fill
  <2>1. UNCHANGED <<scan, lines, answer>>
    BY <1>11 DEF Fill
  <2>2. arrived # Len(sent)
    <3>1. PICK m \in 1..ReadSize : arrived + m <= Len(sent)
      BY <1>11 DEF Fill
    <3>2. m \in Nat /\ m > 0 /\ arrived \in Nat /\ Len(sent) \in Nat
      BY SizesAssumption DEF LTyped
    <3>3. QED
      BY <3>1, <3>2
  <2>3. QED
    BY <1>6, <2>1, <2>2
<1>12. QED
  BY <1>6, <1>7, <1>8, <1>9, <1>10, <1>11 DEF LNext, lvars

LEMMA WInvSays == LTyped /\ WInv => Whole
<1> SUFFICES ASSUME LTyped, WInv, requireEOLN, ~rude PROVE Whole
  BY DEF Whole
<1>1. PICK n \in Nat : n + 1 = scan.at /\ n = scan.at - 1
  BY DEF LTyped, Scans
<1> DEFINE k == Cardinality(LfsTo(n))
<1>2. k \in Nat
  BY LfsMore
<1>3. /\ Len(lines) \in {k, k + 1}
      /\ \A e \in LfsTo(n) : \A b \in 1..e : Begins(b, e - 1) => lines[Cardinality(LfsTo(e))] = LineOf(b, e)
      /\ Len(lines) = k + 1 =>
           /\ arrived = Len(sent)
           /\ \A b \in 1..Len(sent) : Begins(b, Len(sent)) => lines[k + 1] = LastOf(LineOf(b, Len(sent)))
  BY <1>1, WholeParts
<1> HIDE DEF k
<1>4. Len(lines) > k => Len(lines) = k + 1
  BY <1>2, <1>3
<1>5. QED
  BY <1>1, <1>3, <1>4 DEF Whole, LastOf, k

LineInv == LTyped /\ PiInv /\ WInv

LEMMA LineInvAlways == LSpec => []LineInv
<1>1. LInit => LineInv
  BY LTypedInit, PiInvInit, WInvInit DEF LineInv
<1>2. LineInv /\ [LNext]_lvars => LineInv'
  <2>1. SUFFICES ASSUME LineInv, [LNext]_lvars PROVE LineInv'
    OBVIOUS
  <2>2. LTyped /\ PiInv /\ WInv
    BY <2>1 DEF LineInv
  <2>3. LTyped' /\ PiInv' /\ WInv'
    BY <2>1, <2>2, LTypedStep, PiInvStep, WInvStep
  <2>4. QED
    BY <2>3 DEF LineInv
<1>3. QED
  BY <1>1, <1>2, PTL DEF LSpec
-----------------------------------------------------------------------------
(* Texts are translated, measured and found again, and lines are read,     *)
(* the same wherever the blocks and the reads that bring them end          *)
(* (io_get.c, io_put.c, c_size.c, SReadline.c).                            *)
THEOREM TextIsRight == TSpec /\ LSpec => []TextRight
<1>1. LineInv => EmptyIsEof /\ Whole /\ Pieces
  BY PiInvSays, WInvSays DEF LineInv, LTyped
<1>2. TextInv /\ LineInv => TextRight
  BY <1>1, TextInvSays DEF TextRight
<1>3. QED
  BY <1>2, TextInvAlways, LineInvAlways, PTL

(* What can be resumed is: the local file is a beginning of the remote one *)
(* and found again by its time, and in a text the place that the server's  *)
(* size stands for is found if there is one (io_get.c, io_put.c).          *)
THEOREM AllResumable == TimesTold /\ Spec /\ TSpec => []Resumable
<1>1. TextInv => SeekResumes
  BY TextInvSays
<1>2. CopyResumable /\ SeekResumes => Resumable
  BY DEF Resumable
<1>3. QED
  BY <1>1, <1>2, TextInvAlways, CopiesResume, PTL
=============================================================================
