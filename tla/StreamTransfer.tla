--------------------------- MODULE StreamTransfer ---------------------------
(***************************************************************************)
(* The transfers that have no local file: FTPGetFileToMemory reads a part  *)
(* of a remote file into a buffer, FTPPutFileFromMemory stores one, and    *)
(* FTPGetOneTarF has the server pack a directory and pipes what comes to   *)
(* a tar process of its own.  A remote file is its number of blocks; the   *)
(* buffer holds the numbers of the blocks read.                            *)
(***************************************************************************)
EXTENDS Integers, Sequences

CONSTANT MaxBlocks    \* bound: blocks of a remote file

ASSUME BlocksAssumption == MaxBlocks \in Nat \ {0}

VARIABLES
  host,     \* what the server can do: SIZE, REST, RETR of a directory.tar, an existing .tar file
  known,    \* what the client knows: cip->hasSIZE, hasREST, hasRETR_tar
  rfile,    \* the remote file
  buf,      \* memBuf: the blocks read into it
  spc, arg, \* where the call is, and its arguments and variables
  sresult,  \* what it returned
  sopen,    \* what it holds: "data" connection, "pipe" to tar, the "child" itself
  rcwd,     \* the remote working directory: "start", "inside" (of the directory), "parent"
  left      \* history: why the call could not go back there, or left the connection

svars == <<host, known, rfile, buf, spc, arg, sresult, sopen, rcwd, left>>

Missing == -1
NoArg   == [kind |-> "none", start |-> 0, limit |-> 0, delete |-> FALSE, next |-> 0,
            apart |-> FALSE, ok |-> "ok"]
Seg(a, b) == [i \in 1..(IF b < a THEN 0 ELSE b - a) |-> a + i]
Least(a, b) == IF a < b THEN a ELSE b

SInit ==
  /\ host \in [size : BOOLEAN, rest : BOOLEAN, tar : BOOLEAN, stored : BOOLEAN]
  /\ known = [c \in {"SIZE", "REST", "TAR"} |-> "unknown"]
  /\ rfile \in Missing..MaxBlocks
  /\ buf = <<>> /\ spc = "idle" /\ arg = NoArg /\ sresult = "none"
  /\ sopen = {} /\ rcwd = "start" /\ left = {}

SReturn(r)   == spc' = "idle" /\ sresult' = r /\ arg' = NoArg
SGoto(l, a)  == spc' = l /\ arg' = a /\ UNCHANGED sresult
SFinish(r)   == IF arg.delete THEN spc' = "sdelete" /\ sresult' = r /\ UNCHANGED arg ELSE SReturn(r)
Learnt(c, b) == [known EXCEPT ![c] = IF b THEN "available" ELSE "notAvailable"]
-----------------------------------------------------------------------------
(* FTPGetFileToMemory: restarting is tried first, then the size asked.     *)
GetMemBegin ==
  /\ spc = "idle"
  /\ \E s \in 0..MaxBlocks, n \in 1..MaxBlocks, d \in BOOLEAN :
       LET a == [NoArg EXCEPT !.kind = "getmem", !.start = s, !.limit = n, !.delete = d]
       IN  IF s # 0 /\ ~host.rest THEN SReturn("noREST") ELSE spc' = "ssize" /\ arg' = a /\ sresult' = "none"
  /\ known' = IF known["REST"] = "unknown" THEN Learnt("REST", host.rest) ELSE known
  /\ buf' = <<>>
  /\ UNCHANGED <<host, rfile, sopen, rcwd, left>>

(* FTPFileSize.  Nothing is read if the start is past the end; a size that *)
(* is not known is -1, and every start is past that.                       *)
GetMemSize ==
  /\ spc = "ssize"
  /\ LET n == IF host.size THEN rfile ELSE Missing IN
     /\ known' = IF ~host.size THEN Learnt("SIZE", FALSE)
                 ELSE IF rfile # Missing THEN Learnt("SIZE", TRUE) ELSE known
     /\ IF n # 0 /\ arg.start > n
          THEN IF arg.delete THEN SGoto("sdelete", [arg EXCEPT !.ok = "nothing"]) ELSE SReturn("nothing")
          ELSE SGoto("sretr", arg)
  /\ UNCHANGED <<host, rfile, buf, sopen, rcwd, left>>

(* FTPStartDataCmd.  If REST is refused now the call returns at once, the  *)
(* data connection open and the final reply to RETR unread.                *)
GetMemStart ==
  /\ spc = "sretr" /\ arg.kind = "getmem"
  /\ \/ /\ rfile # Missing
        /\ SGoto("sread", [arg EXCEPT !.next = arg.start]) /\ sopen' = {"data"} /\ UNCHANGED left
     \/ /\ rfile # Missing /\ arg.start # 0
        /\ SReturn("setStartPoint") /\ sopen' = {"data"} /\ left' = left \cup {"data"}
     \/ SReturn("startFailed") /\ UNCHANGED <<sopen, left>>
  /\ UNCHANGED <<host, known, rfile, buf, rcwd>>

(* SRead of at most what the buffer has left; the loop ends when the       *)
(* buffer is full or the data ends.                                        *)
GetMemBlock ==
  /\ spc = "sread" /\ arg.next < rfile /\ Len(buf) < arg.limit
  /\ buf' = Append(buf, arg.next + 1)
  /\ SGoto("sread", [arg EXCEPT !.next = @ + 1])
  /\ UNCHANGED <<host, known, rfile, sopen, rcwd, left>>

(* The end: of the data; or of the buffer, when the rest of the transfer   *)
(* is aborted and its failure is no error; or a failure.  Either way the   *)
(* reply is read and the connection closed (FTPEndDataCmd).                *)
GetMemEnd ==
  /\ spc = "sread" /\ sopen' = {}
  /\ \/ (arg.next >= rfile \/ Len(buf) = arg.limit) /\ SFinish("ok")
     \/ SReturn("failed")
  /\ UNCHANGED <<host, known, rfile, buf, rcwd, left>>

(* FTPDelete of the file that was read.                                    *)
GetMemDelete ==
  /\ spc = "sdelete"
  /\ rfile' \in {rfile, Missing} /\ SReturn(IF arg.ok = "nothing" THEN "nothing" ELSE sresult)
  /\ UNCHANGED <<host, known, buf, sopen, rcwd, left>>
-----------------------------------------------------------------------------
(* FTPPutFileFromMemory: STOR or APPE, blocks, shutdown and wait, end.     *)
PutMemBegin ==
  /\ spc = "idle"
  /\ \E n \in 0..MaxBlocks, a \in BOOLEAN :
       /\ spc' = "swrite" /\ sresult' = "none"
       /\ arg' = [NoArg EXCEPT !.kind = "putmem", !.limit = n,
                               !.start = IF a /\ rfile # Missing THEN rfile ELSE 0]
  /\ rfile' = arg'.start
  /\ known' = IF known["REST"] = "unknown" THEN Learnt("REST", host.rest) ELSE known
  /\ sopen' = {"data"} /\ buf' = <<>>
  /\ UNCHANGED <<host, rcwd, left>>

PutMemRefused ==
  /\ spc = "idle" /\ SReturn("startFailed")
  /\ known' = IF known["REST"] = "unknown" THEN Learnt("REST", host.rest) ELSE known
  /\ UNCHANGED <<host, rfile, buf, sopen, rcwd, left>>

PutMemBlock ==
  /\ spc = "swrite" /\ arg.next < arg.limit /\ rfile < MaxBlocks + 1
  /\ rfile' = rfile + 1 /\ SGoto("swrite", [arg EXCEPT !.next = @ + 1])
  /\ UNCHANGED <<host, known, buf, sopen, rcwd, left>>

PutMemEnd ==
  /\ spc = "swrite" /\ sopen' = {}
  /\ (arg.next = arg.limit /\ SReturn("ok")) \/ SReturn("failed")
  /\ UNCHANGED <<host, known, rfile, buf, rcwd, left>>
-----------------------------------------------------------------------------
(* FTPGetOneTarF: not if it is known to be refused, nor if there may be a  *)
(* file of that name (MDTM); a path with a backslash is left through CWD   *)
(* to its parent directory.  "start" is where the caller is now.           *)
GetTarBegin ==
  /\ spc = "idle"
  /\ \E p \in BOOLEAN :
       IF known["TAR"] = "notAvailable" \/ host.stored THEN SReturn("openFailed")
       ELSE /\ spc' = IF p THEN "tcwd" ELSE "topen"
            /\ sresult' = "none" /\ arg' = [NoArg EXCEPT !.kind = "gettar", !.apart = p]
  /\ rcwd' = "start" /\ left' = left \ {"cwd"}
  /\ UNCHANGED <<host, known, rfile, buf, sopen>>

(* CWD to the directory and from there to its parent; if the second fails  *)
(* the first is undone.                                                    *)
GetTarChdir ==
  /\ spc = "tcwd" /\ UNCHANGED <<host, known, rfile, buf, sopen>>
  /\ \/ SReturn("chdirFailed") /\ UNCHANGED <<rcwd, left>>
     \/ SGoto("topen", arg) /\ rcwd' = "parent" /\ UNCHANGED left
     \/ SReturn("chdirFailed") /\ rcwd' = "start" /\ UNCHANGED left
     \/ SReturn("chdirFailed") /\ rcwd' = "inside" /\ left' = left \cup {"cwd"}

(* The way back, on every return; nobody looks whether it succeeds.        *)
GoBack ==
  \/ rcwd' = "start" /\ UNCHANGED left
  \/ arg.apart /\ UNCHANGED rcwd /\ left' = left \cup {"cwd"}

(* OpenTar: a pipe and a child, or neither.                                *)
OpenTar ==
  /\ spc = "topen"
  /\ \/ SGoto("tretr", arg) /\ sopen' = {"pipe", "child"} /\ UNCHANGED <<rcwd, left>>
     \/ SReturn("openFailed") /\ GoBack /\ UNCHANGED sopen
  /\ UNCHANGED <<host, known, rfile, buf>>

(* RETR of the .tar; when it fails for the first time the feature is off.  *)
(* The pipe is closed and the child waited for.                            *)
GetTarStart ==
  /\ spc = "tretr"
  /\ \/ /\ host.tar
        /\ SGoto("tread", arg) /\ sopen' = {"pipe", "child", "data"}
        /\ known' = IF known["TAR"] = "unknown" THEN Learnt("TAR", TRUE) ELSE known
        /\ UNCHANGED <<rcwd, left>>
     \/ /\ SReturn("startFailed") /\ sopen' = {} /\ GoBack
        /\ known' = IF known["TAR"] = "unknown" THEN Learnt("TAR", FALSE) ELSE known
  /\ UNCHANGED <<host, rfile, buf>>

(* A defect to be caught: only a successful call goes back.                *)
GetTarEndAway ==
  /\ spc = "tread" /\ sopen' = {}
  /\ (SReturn("ok") /\ GoBack) \/ (SReturn("failed") /\ UNCHANGED <<rcwd, left>>)
  /\ UNCHANGED <<host, known, rfile, buf>>

(* The packed data passes through; the pipe is closed first, or the child  *)
(* would never end, then the child waited for, then the reply read.  A     *)
(* transfer that brought nothing is an error.                              *)
GetTarEnd ==
  /\ spc = "tread"
  /\ sopen' = {} /\ GoBack
  /\ SReturn("ok") \/ SReturn("failed")
  /\ UNCHANGED <<host, known, rfile, buf>>

SNext ==
  \/ GetMemBegin \/ GetMemSize \/ GetMemStart \/ GetMemBlock \/ GetMemEnd \/ GetMemDelete
  \/ PutMemBegin \/ PutMemRefused \/ PutMemBlock \/ PutMemEnd
  \/ GetTarBegin \/ GetTarChdir \/ OpenTar \/ GetTarStart \/ GetTarEnd
SSpec == SInit /\ [][SNext]_svars
-----------------------------------------------------------------------------
(* FTPGetFileToMemory never writes past its buffer, and when it returns    *)
(* kNoErr having read, the buffer holds just the part asked for, as far as *)
(* there is one.                                                           *)
BufferExact ==
  /\ Len(buf) <= MaxBlocks
  /\ spc = "sread" => Len(buf) <= arg.limit
MemDelivers ==
  [][(spc = "sread" /\ spc' # "sread" /\ sresult' = "ok")
     => buf = Seg(arg.start, Least(arg.start + arg.limit, rfile))]_svars

(* Between calls no data connection is open, no pipe and no child: but for *)
(* the return when REST is refused.                                        *)
NothingHeld == spc = "idle" => sopen \subseteq left

(* Between calls the server is where the caller left it, unless a CWD back *)
(* was refused.                                                            *)
BackHome == spc = "idle" /\ "cwd" \notin left => rcwd = "start"
=============================================================================
