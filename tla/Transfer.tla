------------------------------ MODULE Transfer ------------------------------
(***************************************************************************)
(* One file copied by FTPGetOneF (libncftp/io_get.c) or by FTPPutOneF      *)
(* (libncftp/io_put.c): what is asked of the server, what is decided from  *)
(* the answers (resume, append, skip, overwrite), the blocks, the time     *)
(* stamps, the renaming of a temporary upload and the deletion of the      *)
(* source.  Calls follow one another; between any two of their steps the   *)
(* process may be killed and another user may replace the remote file.     *)
(*                                                                         *)
(* A file is the sequence of its blocks; a block names the moment its      *)
(* content was made and its place in it, so that two contents never agree  *)
(* by accident.  Times differ by more than the second that the code        *)
(* forgives: contents are made at even times, the client acts at odd ones. *)
(***************************************************************************)
EXTENDS Integers, Sequences

CONSTANTS
  Servers,    \* the servers met: a subset of ServerKinds
  Requests,   \* the calls made: a subset of RequestKinds
  MaxSize,    \* bound: blocks in a content
  MaxClock,   \* bound: how often contents are replaced, and time passes
  Recent      \* 46200 seconds: a local time stamp younger than that is suspect

ServerKinds  == [mlst : BOOLEAN, size : BOOLEAN, mdtm : BOOLEAN,
                 rest : {"never", "binary", "always"}, utime : BOOLEAN]
RequestKinds == [resume : BOOLEAN, append : BOOLEAN, delete : BOOLEAN, ask : BOOLEAN,
                 tmp : BOOLEAN, ascii : BOOLEAN]

ASSUME ServersAssumption  == Servers \subseteq ServerKinds
ASSUME RequestsAssumption == Requests \subseteq RequestKinds
ASSUME BoundsAssumption   == MaxSize \in Nat /\ MaxClock \in Nat /\ Recent \in Nat

VARIABLES
  dir,      \* this client gets, or it puts
  server,   \* what the server can do
  has,      \* what the client has learnt of it: cip->hasSIZE, hasMDTM, hasREST
  local,    \* the local file
  remote,   \* the remote files: the one named, and the temporary one
  clock,
  pc,       \* where the call is
  call,     \* its arguments and variables
  result,   \* what the last call returned; "skipped" is kNoErr with nothing done
  held,     \* what is open: the local file (fd), the data connection (data)
  spoiled   \* history: why the copy need not be a part of the source

vars == <<dir, server, has, local, remote, clock, pc, call, result, held, spoiled>>

Unknown      == -1                      \* kSizeUnknown, kModTimeUnknown
Availability == {"unknown", "available", "notAvailable"}
Answers      == {"bestGuess", "resume", "append", "overwrite", "skip", "cancel"}
Names        == {"file", "temp"}
Gone         == [data |-> <<>>, mtime |-> Unknown]
There(f)     == f.mtime # Unknown
Room(f)      == Len(f.data) < MaxSize + 1   \* bound: what appending makes a file grow to
Content(t, n) == [data |-> [i \in 1..n |-> <<t, i>>], mtime |-> t]
Now          == 2 * clock + 1
Grown(f, b)  == [data |-> Append(f.data, b), mtime |-> Now]
After(d, n)  == IF n >= Len(d) THEN <<>> ELSE SubSeq(d, n + 1, Len(d))

(* The arguments, and the variables expectedSize (of a put: the remote     *)
(* size, in startPoint), mdtm, zaction, startPoint, and what is still to   *)
(* be read from the source.                                                *)
Call(op, s) == [op |-> op, size |-> s, mdtm |-> Unknown, act |-> "bestGuess", start |-> 0, src |-> <<>>]
NoOp   == [resume |-> FALSE, append |-> FALSE, delete |-> FALSE, ask |-> FALSE,
           tmp |-> FALSE, ascii |-> FALSE]
NoCall == Call(NoOp, Unknown)
Stamped(f) == IF call.mdtm # Unknown THEN [f EXCEPT !.mtime = call.mdtm] ELSE f

(* The name the data goes under: a put with a prefix or a suffix uses a    *)
(* temporary name beside the file's own.                                   *)
Dst == IF dir = "put" /\ call.op.tmp THEN "temp" ELSE "file"

Init ==
  /\ dir \in {"get", "put"}
  /\ server \in Servers
  /\ has = [c \in {"SIZE", "MDTM", "REST"} |-> "unknown"]
  /\ clock = 1
  /\ \E n \in 0..MaxSize :
       /\ local  = IF dir = "put" THEN Content(2, n) ELSE Gone
       /\ remote = [f \in Names |-> IF dir = "get" /\ f = "file" THEN Content(2, n) ELSE Gone]
  /\ pc = "idle" /\ call = NoCall /\ result = "none" /\ held = {} /\ spoiled = {}
-----------------------------------------------------------------------------
Goto(l, c)   == pc' = l /\ call' = c /\ UNCHANGED <<result, held>>
Open(l, c, h) == pc' = l /\ call' = c /\ held' = h /\ UNCHANGED result
Return(r, h) == pc' = "idle" /\ call' = NoCall /\ result' = r /\ held' = h

(* Nothing more to do but to delete the source, if that was asked for.     *)
Finish(r, c) ==
  IF c.op.delete THEN pc' = "delete" /\ call' = c /\ result' = r /\ held' = {} ELSE Return(r, {})

(* The call begins.  Size and time are asked for when something will look  *)
(* at them (resumeflag, resumeProc) or a progress meter shows them; a get  *)
(* may be told the size a listing gave.                                    *)
Begin ==
  /\ pc = "idle"
  /\ \E op \in Requests :
     /\ dir = "get" => ~op.tmp
     /\ IF dir = "put" /\ ~There(local) THEN Return("openFailed", {}) ELSE
        /\ result' = "none" /\ held' = IF dir = "put" THEN {"fd"} ELSE {}
        /\ \/ pc' = "size" /\ call' = Call(op, Unknown)
           \/ /\ dir = "get" /\ There(remote["file"]) /\ op.resume
              /\ pc' = "mdtm" /\ call' = Call(op, Len(remote["file"].data))
           \/ /\ ~op.resume /\ ~op.ask
              /\ pc' = "decide" /\ call' = Call(op, IF dir = "put" THEN 0 ELSE Unknown)
  /\ UNCHANGED <<dir, server, has, local, remote, clock, spoiled>>

(* FTPFileSizeAndModificationTime: MLST gives both.                        *)
FTPMListOneFile ==
  /\ pc = "size" /\ server.mlst /\ There(remote[Dst])
  /\ Goto("decide", [call EXCEPT !.size = Len(remote[Dst].data), !.mdtm = remote[Dst].mtime])
  /\ UNCHANGED <<dir, server, has, local, remote, clock, spoiled>>

(* A command that may be missing: either it is known to be, or it is sent  *)
(* and the reply tells.                                                    *)
Query(cmd, can) ==
  has' = IF ~can THEN [has EXCEPT ![cmd] = "notAvailable"]
         ELSE IF has[cmd] # "notAvailable" /\ There(remote[Dst]) THEN [has EXCEPT ![cmd] = "available"]
         ELSE has
Answered(cmd, can) == can /\ has[cmd] # "notAvailable" /\ There(remote[Dst])

(* Without it, SIZE; MDTM is asked for only if SIZE gave an answer.        *)
FTPFileSize ==
  /\ pc = "size" /\ ~(server.mlst /\ There(remote[Dst]))
  /\ Query("SIZE", server.size)
  /\ IF Answered("SIZE", server.size)
       THEN Goto("mdtm", [call EXCEPT !.size = Len(remote[Dst].data)])
       ELSE Goto("decide", call)
  /\ UNCHANGED <<dir, server, local, remote, clock, spoiled>>

FTPFileModificationTime ==
  /\ pc = "mdtm"
  /\ Query("MDTM", server.mdtm)
  /\ Goto("decide", IF Answered("MDTM", server.mdtm)
                      THEN [call EXCEPT !.mdtm = remote[Dst].mtime] ELSE call)
  /\ UNCHANGED <<dir, server, local, remote, clock, spoiled>>

(* FTPCheckForRestartModeAvailability: REST 1 in binary mode, if REST has  *)
(* not been tried and somebody may want to resume.                         *)
FTPCheckForRestartModeAvailability ==
  IF (call.op.resume \/ call.op.ask) /\ has["REST"] = "unknown"
    THEN [has EXCEPT !["REST"] = IF server.rest = "never" THEN "notAvailable" ELSE "available"]
    ELSE has

(* FTPSetStartOffset for the transfer itself, in its own type.             *)
RestTaken == server.rest = "always" \/ (server.rest = "binary" /\ ~call.op.ascii)
RestTried ==
  IF call.start = 0 \/ (~RestTaken /\ server.rest # "never") THEN has
  ELSE [has EXCEPT !["REST"] = IF RestTaken THEN "available" ELSE "notAvailable"]
-----------------------------------------------------------------------------
(* The get.  The time stamps are no help if there is none, or if the local *)
(* one is suspiciously young: an earlier call may have been killed before  *)
(* it could set it.                                                        *)
TimesTell ==
  /\ call.mdtm # Unknown
  /\ ~(local.mtime > Now \/ (Now - local.mtime < Recent /\ Now - call.mdtm >= Recent))

(* A defect to be caught: the times are not compared.                      *)
GetGuessBlind(h, n) ==
  IF call.size = Unknown THEN "overwrite" ELSE IF n = call.size THEN "same"
  ELSE IF n > call.size \/ n = Unknown THEN "overwrite" ELSE "resume"

(* kConfirmResumeProcSaidBestGuess, n being the size of the local file as  *)
(* the server counts it.                                                   *)
GetGuess(h, n) ==
  IF call.size = Unknown
    THEN IF h["MDTM"] = "available" \/ h["SIZE"] # "available" THEN "skip" ELSE "overwrite"
  ELSE IF TimesTell /\ call.mdtm < local.mtime THEN "localNewer"
  ELSE IF TimesTell /\ call.mdtm > local.mtime THEN "overwrite"
  ELSE IF n = call.size THEN "same"
  ELSE IF n > call.size \/ n = Unknown THEN "overwrite"
  ELSE "resume"

(* What the flags ask for, before anybody looked at the file.              *)
Wanted(h) ==
  IF call.op.append THEN "append"
  ELSE IF dir = "get" /\ h["REST"] = "notAvailable" THEN "overwrite"
  ELSE IF call.op.resume THEN "bestGuess" ELSE "overwrite"

(* The local file is there: resumeProc, if there is one, is asked what to  *)
(* do; then the best guess is made.  FTPLocalASCIIFileSize may fail.       *)
GetChoices(h) ==
  LET counted == {Len(local.data)} \cup (IF call.op.ascii THEN {Unknown} ELSE {})
      answers == IF call.op.ask THEN Answers ELSE {Wanted(h)}
  IN  {<<a, Len(local.data)>> : a \in answers \ {"bestGuess"}}
      \cup (IF "bestGuess" \in answers THEN {<<GetGuess(h, n), n>> : n \in counted} ELSE {})

(* What is done about it: nothing, or the local file is opened.            *)
GetAct(a, s) ==
  LET c == [call EXCEPT !.act = a, !.start = IF a = "resume" THEN s ELSE 0] IN
  \/ a = "cancel" /\ Return("userCanceled", {}) /\ UNCHANGED local
  \/ a = "localNewer" /\ Return("localFileNewer", {}) /\ UNCHANGED local
  \/ a = "same" /\ Finish("same", c) /\ UNCHANGED local
  \/ a = "skip" /\ Finish("skipped", c) /\ UNCHANGED local
  \/ a = "resume" /\ s = call.size /\ Finish("ok", c) /\ UNCHANGED local
  \/ a = "resume" /\ s > call.size /\ Return("setStartPoint", {}) /\ UNCHANGED local
  \/ a = "resume" /\ s < call.size /\ Open("start", c, {"fd"}) /\ UNCHANGED local
  \/ a = "append" /\ call.size = 0 /\ Finish("ok", c) /\ local' = Stamped(local)
  \/ a = "append" /\ call.size # 0 /\ Open("start", c, {"fd"}) /\ UNCHANGED local
  \/ a = "overwrite" /\ Open("start", c, {"fd"}) /\ local' = [data |-> <<>>, mtime |-> Now]
  \/ /\ a \in {"append", "overwrite"} \/ (a = "resume" /\ s < call.size)
     /\ Return("openFailed", {}) /\ UNCHANGED local

GetDecide ==
  /\ pc = "decide" /\ dir = "get"
  /\ LET h == FTPCheckForRestartModeAvailability IN
     /\ has' = h
     /\ \E c \in IF There(local) THEN GetChoices(h) ELSE {<<"overwrite", 0>>} :
        /\ GetAct(c[1], c[2])
        /\ spoiled' = IF c[1] = "overwrite" /\ pc' = "start" THEN {}
                      ELSE IF c[1] = "append" THEN spoiled \cup {"append"}
                      ELSE IF call.op.ask /\ c[1] = "resume" THEN spoiled \cup {"answer"}
                      ELSE spoiled
  /\ UNCHANGED <<dir, server, remote, clock>>

(* FTPStartDataCmd for RETR.  If REST is not taken the whole file comes,   *)
(* and is written from the start: but a file opened to be resumed was      *)
(* opened with O_APPEND, and every write goes to its end.  The file that   *)
(* was created is removed again if the server does not send it; whether    *)
(* that happens depends on the start point of an earlier transfer.         *)
GetStart ==
  /\ pc = "start" /\ dir = "get"
  /\ \/ /\ There(remote["file"])
        /\ Open("xfer", [call EXCEPT !.src = After(remote["file"].data, IF RestTaken THEN call.start ELSE 0)],
                {"fd", "data"})
        /\ has' = RestTried
        /\ spoiled' = IF call.start # 0 /\ ~RestTaken THEN spoiled \cup {"rest"} ELSE spoiled
        /\ UNCHANGED local
     \/ /\ Return("startFailed", {})
        /\ local' \in {local} \cup (IF call.act = "overwrite" /\ ~call.op.append THEN {Gone} ELSE {})
        /\ UNCHANGED <<has, spoiled>>
  /\ UNCHANGED <<dir, server, remote, clock>>

(* A block is read from the data connection and written.                   *)
GetBlock ==
  /\ pc = "xfer" /\ dir = "get" /\ call.src # <<>> /\ Room(local)
  /\ local' = Grown(local, Head(call.src))
  /\ Goto("stamp", [call EXCEPT !.src = Tail(@)])
  /\ UNCHANGED <<dir, server, has, remote, clock, spoiled>>

(* The time is set after every write, for whoever may be killed next.      *)
GetUtime ==
  /\ pc = "stamp"
  /\ local' = Stamped(local)
  /\ Goto("xfer", call)
  /\ UNCHANGED <<dir, server, has, remote, clock, spoiled>>

(* A defect to be caught: the reply that ends the transfer is not looked   *)
(* at, and an early end of the data passes for its end.                    *)
GetEndUnread ==
  /\ pc = "xfer" /\ dir = "get"
  /\ Finish("ok", call)
  /\ local' = Stamped(local)
  /\ UNCHANGED <<dir, server, has, remote, clock, spoiled>>

(* The end of the data, or a failure at any block: an error of the local   *)
(* write, of the connection, a timeout, or ^C.                             *)
GetEnd ==
  /\ pc = "xfer" /\ dir = "get"
  /\ \/ call.src = <<>> /\ Finish("ok", call)
     \/ Return("failed", {})
  /\ local' = Stamped(local)
  /\ UNCHANGED <<dir, server, has, remote, clock, spoiled>>

(* FTPDelete of the source; what it returns matters after a transfer only. *)
GetDelete ==
  /\ pc = "delete" /\ dir = "get"
  /\ \/ Return(result, {}) /\ remote' = [remote EXCEPT !["file"] = Gone]
     \/ Return(IF result = "ok" THEN "deleteFailed" ELSE result, {}) /\ UNCHANGED remote
  /\ UNCHANGED <<dir, server, has, local, clock, spoiled>>
-----------------------------------------------------------------------------
(* The put.  What is newer here than there is sent again, what is larger   *)
(* here is resumed.                                                        *)
PutGuess ==
  IF call.mdtm # Unknown /\ local.mtime > call.mdtm THEN "overwrite"
  ELSE IF Len(local.data) = call.size THEN "same"
  ELSE IF call.size # Unknown /\ Len(local.data) > call.size THEN "resume"
  ELSE "overwrite"

(* resumeProc is asked if the file is known to be there: from its time or  *)
(* size, or, when the server can tell neither, from a listing              *)
(* (FTPFileExists2).                                                       *)
PutChoices ==
  LET known   == call.mdtm # Unknown \/ call.size # Unknown
      seen    == has["MDTM"] # "available" /\ has["SIZE"] # "available" /\ There(remote[Dst])
      answers == IF call.op.ask /\ (known \/ seen) THEN Answers ELSE {Wanted(has)}
  IN  (answers \ {"bestGuess"}) \cup (IF "bestGuess" \in answers THEN {PutGuess} ELSE {})

(* What is sent: from `off' in the local file, to be stored from `s' in    *)
(* the remote one, or to be appended there.                                *)
PutFrom(a, s, off) ==
  Goto("start", [call EXCEPT !.act = a, !.start = s, !.src = After(local.data, off)])

(* A canceled put, and one whose text file cannot be repositioned, return  *)
(* without closing the local file.  A text file is resumed with APPE.  A   *)
(* seek to an unknown size fails, and all is sent.                         *)
PutAct(a) ==
  LET c == [call EXCEPT !.act = a]
      n == call.size
  IN
  \/ a = "cancel" /\ Return("userCanceled", held)
  \/ a = "same" /\ Finish("same", c)
  \/ a = "skip" /\ Finish("skipped", c)
  \/ a = "resume" /\ n = Len(local.data) /\ Finish("ok", c)
  \/ a = "resume" /\ n # Len(local.data) /\ ~call.op.ascii
     /\ IF n = Unknown THEN PutFrom("resume", 0, 0) ELSE PutFrom("resume", n, n)
  \/ a = "resume" /\ n # Len(local.data) /\ call.op.ascii
     /\ \/ n # Unknown /\ n <= Len(local.data) /\ PutFrom("append", 0, n)
        \/ PutFrom("resume", 0, 0)
        \/ Return("asciiSeekErr", held)
  \/ a \in {"append", "overwrite"} /\ PutFrom(a, 0, 0)

PutDecide ==
  /\ pc = "decide" /\ dir = "put"
  /\ \E a \in PutChoices :
     /\ PutAct(a)
     /\ spoiled' = spoiled
                   \cup (IF a = "append" THEN {"append"} ELSE {})
                   \cup (IF a = "resume" /\ call.op.ask THEN {"answer"} ELSE {})
                   \cup (IF call.op.tmp /\ a # "overwrite" THEN {"temp"} ELSE {})
  /\ has' = FTPCheckForRestartModeAvailability
  /\ UNCHANGED <<dir, server, local, remote, clock>>

(* What is left of the remote file when the data begins to arrive: STOR    *)
(* from the start point if REST was taken, or else APPE.                   *)
Kept(old) ==
  IF call.act = "append" \/ (call.start # 0 /\ ~RestTaken) THEN old
  ELSE SubSeq(old, 1, IF call.start < Len(old) THEN call.start ELSE Len(old))

(* FTPStartDataCmd2 for STOR or APPE.                                      *)
PutStart ==
  /\ pc = "start" /\ dir = "put"
  /\ \/ /\ Open("xfer", call, {"fd", "data"})
        /\ remote' = IF There(remote[Dst]) /\ Kept(remote[Dst].data) = remote[Dst].data THEN remote
                     ELSE [remote EXCEPT ![Dst] = [data |-> Kept(@.data), mtime |-> Now]]
        /\ has' = RestTried
        /\ spoiled' = IF call.act = "overwrite" /\ ~call.op.tmp THEN {} ELSE spoiled
     \/ Return("startFailed", {}) /\ UNCHANGED <<remote, has, spoiled>>
  /\ UNCHANGED <<dir, server, local, clock>>

(* FTPPutBlock.                                                            *)
PutBlock ==
  /\ pc = "xfer" /\ dir = "put" /\ call.src # <<>> /\ Room(remote[Dst])
  /\ remote' = [remote EXCEPT ![Dst] = Grown(@, Head(call.src))]
  /\ Goto("xfer", [call EXCEPT !.src = Tail(@)])
  /\ UNCHANGED <<dir, server, has, local, clock, spoiled>>

(* The file is stored.  One stored under a temporary name takes its own    *)
(* name now, unless it was appended to.                                    *)
Stored ==
  /\ pc' = IF call.op.tmp /\ call.act # "append" THEN "rename" ELSE "utime"
  /\ result' = "ok" /\ held' = {} /\ UNCHANGED call

(* Defects to be caught: the reply that ends the transfer is not looked    *)
(* at; a file that was appended to is renamed.                             *)
PutEndUnread ==
  /\ pc = "xfer" /\ dir = "put"
  /\ Stored
  /\ UNCHANGED <<dir, server, has, local, remote, clock, spoiled>>
PutEndRenames ==
  /\ pc = "xfer" /\ dir = "put"
  /\ pc' = "rename" /\ result' = "ok" /\ held' = {} /\ UNCHANGED call
  /\ UNCHANGED <<dir, server, has, local, remote, clock, spoiled>>

PutEnd ==
  /\ pc = "xfer" /\ dir = "put"
  /\ \/ call.src = <<>> /\ Stored
     \/ Return("failed", {})
  /\ UNCHANGED <<dir, server, has, local, remote, clock, spoiled>>

(* FTPRename; a server may refuse to rename onto a file that is there.     *)
PutRename ==
  /\ pc \in {"rename", "again"} /\ UNCHANGED <<call, held>>
  /\ \/ /\ remote' = [remote EXCEPT !["file"] = remote["temp"], !["temp"] = Gone]
        /\ pc' = "utime" /\ result' = "ok"
        /\ spoiled' = IF call.act = "overwrite" THEN {} ELSE spoiled
     \/ /\ UNCHANGED <<remote, spoiled>> /\ result' = "renameFailed"
        /\ pc' = IF pc = "rename" THEN "old" ELSE "utime"
  /\ UNCHANGED <<dir, server, has, local, clock>>

(* The old file is deleted to make room, and the renaming tried again.     *)
PutDeleteOld ==
  /\ pc = "old" /\ UNCHANGED <<call, result, held>>
  /\ \/ remote' = [remote EXCEPT !["file"] = Gone] /\ pc' = "again"
     \/ UNCHANGED remote /\ pc' = "utime"
  /\ UNCHANGED <<dir, server, has, local, clock, spoiled>>

(* FTPUtime, whether or not the renaming succeeded.                        *)
PutUtime ==
  /\ pc = "utime"
  /\ remote' = IF server.utime /\ There(remote["file"])
                 THEN [remote EXCEPT !["file"].mtime = local.mtime] ELSE remote
  /\ IF result = "ok" THEN Finish("ok", call) ELSE Return(result, {})
  /\ spoiled' = IF remote' # remote /\ result # "ok" THEN spoiled \cup {"stamped"} ELSE spoiled
  /\ UNCHANGED <<dir, server, has, local, clock>>

(* unlink of the source.                                                   *)
PutDelete ==
  /\ pc = "delete" /\ dir = "put"
  /\ \/ Return(result, {}) /\ local' = Gone
     \/ Return("localDeleteFailed", {}) /\ UNCHANGED local
  /\ UNCHANGED <<dir, server, has, remote, clock, spoiled>>
-----------------------------------------------------------------------------
(* The world: the process is killed; contents are replaced by others; time *)
(* passes.  Nobody else writes the remote file of a put.                   *)
Kill ==
  /\ pc # "idle" /\ Return("killed", {})
  /\ UNCHANGED <<dir, server, has, local, remote, clock, spoiled>>

RemoteReplaced ==
  /\ clock < MaxClock /\ dir = "get"
  /\ clock' = clock + 1
  /\ \E n \in 0..MaxSize : remote' = [remote EXCEPT !["file"] = Content(2 * clock', n)]
  /\ spoiled' = IF pc = "idle" THEN spoiled ELSE spoiled \cup {"replaced"}
  /\ UNCHANGED <<dir, server, has, local, pc, call, result, held>>

LocalEdited ==
  /\ clock < MaxClock /\ pc = "idle" /\ dir = "put"
  /\ clock' = clock + 1
  /\ \E n \in 0..MaxSize : local' = Content(2 * clock', n)
  /\ UNCHANGED <<dir, server, has, remote, pc, call, result, held, spoiled>>

Tick ==
  /\ clock < MaxClock /\ clock' = clock + 1
  /\ UNCHANGED <<dir, server, has, local, remote, pc, call, result, held, spoiled>>

Step == \/ Begin \/ FTPMListOneFile \/ FTPFileSize \/ FTPFileModificationTime
        \/ GetDecide \/ GetStart \/ GetBlock \/ GetUtime \/ GetEnd \/ GetDelete
        \/ PutDecide \/ PutStart \/ PutBlock \/ PutEnd \/ PutRename \/ PutDeleteOld
        \/ PutUtime \/ PutDelete
Next == Step \/ Kill \/ RemoteReplaced \/ LocalEdited \/ Tick
Spec == Init /\ [][Next]_vars
-----------------------------------------------------------------------------
(* The values of the variables; and only a put under a temporary name that *)
(* was not appended to gets as far as renaming.                            *)
TypeOK ==
  /\ dir \in {"get", "put"} /\ server \in Servers
  /\ has \in [{"SIZE", "MDTM", "REST"} -> Availability]
  /\ clock \in Nat
  /\ pc \in {"idle", "size", "mdtm", "decide", "start", "xfer", "stamp", "rename", "old", "again",
             "utime", "delete"}
  /\ pc \in {"rename", "old", "again"} => call.op.tmp /\ call.act # "append"
  /\ call.op \in RequestKinds /\ call.size \in Int /\ call.mdtm \in Int /\ call.start \in Int
  /\ held \subseteq {"fd", "data"}

(* A call has come to its good end, the source still being there.          *)
Done == pc \in {"decide", "xfer", "utime"} /\ pc' \in {"idle", "delete"} /\ result' \in {"ok", "same"}

(* A get that returns well has the file: unless it was asked to append or  *)
(* told where to resume, REST failed, the remote file was replaced while   *)
(* it was read, or the server gave no time to compare.                     *)
GetDelivers ==
  [][(dir = "get" /\ Done /\ spoiled' = {} /\ (call.mdtm # Unknown \/ call.act = "overwrite"))
     => local'.data = remote["file"].data]_vars

(* What a get, killed or failed anywhere, leaves under the time stamp of   *)
(* the remote file is a beginning of it, so that it can be resumed: the    *)
(* rule every resumption by time and size relies on.                       *)
IsPrefixOf(s, t) == Len(s) <= Len(t) /\ \A i \in 1..Len(s) : s[i] = t[i]
CopyResumable ==
  (/\ dir = "get" /\ spoiled = {} /\ There(local) /\ There(remote["file"])
   /\ local.mtime = remote["file"].mtime)
  => IsPrefixOf(local.data, remote["file"].data)

(* The same of a put: what the server has under the name, when a put has   *)
(* returned well, is the local file.                                       *)
PutDelivers ==
  [][(dir = "put" /\ Done /\ spoiled' = {} /\ (call.mdtm # Unknown \/ call.act = "overwrite"))
     => remote'["file"].data = local.data]_vars

(* Whatever fails and wherever the process is killed, the file that is     *)
(* replaced through a temporary one is the old one, gone, or the whole new *)
(* one.                                                                    *)
TargetWhole ==
  [][(/\ dir = "put" /\ call.op.tmp /\ call.act = "overwrite"
      /\ remote'["file"].data # remote["file"].data)
     => remote'["file"].data \in {<<>>, local.data}]_vars

(* Every return closes the local file and the data connection, but for the *)
(* two of the put that do not.                                             *)
HeldAtRest == pc = "idle" /\ result \notin {"userCanceled", "asciiSeekErr"} => held = {}
=============================================================================
