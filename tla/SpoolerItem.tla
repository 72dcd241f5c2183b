---------------------------- MODULE SpoolerItem ----------------------------
(***************************************************************************)
(* What ncftpbatch does with the jobs of its directory (DoItem and what it *)
(* calls, sh_util/ncftpbatch.c), the network failing where it may.  The    *)
(* directory itself, its locking and its names are BatchSpool; here one    *)
(* spooler goes through its jobs pass after pass and keeps one connection  *)
(* from job to job as long as they are for the same host and user.         *)
(*                                                                         *)
(* A remote directory is [abs, names]; a directory of a server is the      *)
(* sequence of its names.                                                  *)
(***************************************************************************)
EXTENDS Naturals, Sequences, FiniteSets

CONSTANTS Jobs, Job,      \* Job[j]: [host, port, user, rdir, ldir, op, recursive, rfile, lfile]
          HomeDir,        \* where a login starts
          There,          \* the directories the servers have
          Inheritable,    \* connections that ncftp may leave: [host, port, user, cwd]
          MaxPasses       \* bound: passes over the directory

VARIABLES queue,          \* the jobs that have files
          ahead,          \* those that this pass has still to find due
          job,            \* the one in the g variables, "none" between two
          pc, conn, rstart,    \* gConn, gRStartDir
          lastHost,       \* gLastHost
          lcwd,           \* the working directory
          items, processed, finished,   \* of this pass
          passes,
          dialled         \* history: the last dial of the pass, and if it failed

bivars == <<queue, ahead, job, pc, conn, rstart, lastHost, lcwd, items, processed, finished,
            passes, dialled>>
passvars == <<items, processed, finished, passes>>

Closed  == [up |-> FALSE, host |-> "none", port |-> 0, user |-> "none", cwd |-> <<>>]
NoHost  == "none"
NoStart == <<"unset">>
Undialled == [host |-> NoHost, failed |-> FALSE]
J == Job[job]

(* What is assumed of the constants.                                       *)
Names   == Seq(STRING)
RDir    == [abs : BOOLEAN, names : Names]
JobFile == [host : STRING, port : Nat, user : STRING, rdir : RDir, ldir : STRING, op : STRING,
            recursive : BOOLEAN, rfile : BOOLEAN, lfile : BOOLEAN]
BiAssumption ==
  /\ IsFiniteSet(Jobs) /\ "none" \notin Jobs /\ DOMAIN Job = Jobs /\ HomeDir \in Names
  /\ \A j \in Jobs : Job[j] \in JobFile
  /\ \A c \in Inheritable : c.host \in STRING /\ c.port \in Nat /\ c.user \in STRING /\ c.cwd \in Names

(* ReadCore: the connection of the ncftp that started this process; where  *)
(* its login began is not handed down.                                     *)
Inherited(c) == [up |-> TRUE, host |-> c.host, port |-> c.port, user |-> c.user, cwd |-> c.cwd]

BiInit ==
  /\ queue = Jobs /\ ahead = {} /\ job = "none" /\ pc = "end"
  /\ conn \in {Closed} \cup {Inherited(c) : c \in Inheritable}
  /\ rstart = NoStart /\ lastHost = NoHost /\ lcwd = "/"
  /\ items = 0 /\ processed = 0 /\ finished = 0 /\ passes = 0
  /\ dialled = Undialled
-----------------------------------------------------------------------------
(* EventShell between two passes: it closes the connection and sleeps if   *)
(* the last pass had nothing to do or nothing left to do.                  *)
Pass ==
  /\ pc = "end" /\ queue # {} /\ passes < MaxPasses
  /\ conn' = IF passes > 0 /\ (processed = 0 \/ items = finished) THEN Closed ELSE conn
  /\ ahead' \in SUBSET queue
  /\ items' = Cardinality(queue) /\ processed' = 0 /\ finished' = 0 /\ passes' = passes + 1
  /\ lastHost' = NoHost /\ dialled' = Undialled /\ pc' = "pick"
  /\ UNCHANGED <<queue, job, rstart, lcwd>>

PassEnds ==
  /\ pc = "pick" /\ ahead = {} /\ pc' = "end"
  /\ UNCHANGED <<queue, ahead, job, conn, rstart, lastHost, lcwd, passvars, dialled>>

(* The end of an item: its file is removed, or made anew for a later time, *)
(* and the process goes back to the root.                                  *)
ItemEnds(done) ==
  /\ job' = "none" /\ pc' = "pick" /\ lcwd' = "/"
  /\ queue' = IF done THEN queue \ {job} ELSE queue
  /\ finished' = IF done THEN finished + 1 ELSE finished
  /\ UNCHANGED <<ahead, items, passes>>

(* A job names a host and an operation and what that is to move.           *)
RDirGiven(j) == Job[j].rdir.abs \/ Job[j].rdir.names # <<>>
Valid(j) ==
  /\ Job[j].host # NoHost
  /\ \/ /\ Job[j].op = "get" /\ Job[j].rfile
        /\ IF Job[j].recursive THEN Job[j].ldir # "" ELSE Job[j].lfile
     \/ /\ Job[j].op = "put" /\ Job[j].lfile
        /\ IF Job[j].recursive THEN RDirGiven(j) ELSE Job[j].rfile

LoadCurrentSpoolFileContents(j) ==
  /\ pc = "pick" /\ j \in ahead
  /\ ahead' = ahead \ {j} /\ processed' = processed + 1
  /\ IF Valid(j)
     THEN job' = j /\ pc' = "local" /\ UNCHANGED <<queue, finished>>
     ELSE queue' = queue \ {j} /\ finished' = finished + 1 /\ UNCHANGED <<job, pc>>
  /\ UNCHANGED <<conn, rstart, lastHost, lcwd, items, passes, dialled>>

(* MkDirs, chdir and access of the local directory.                        *)
EnterLocal ==
  /\ pc = "local"
  /\ \/ /\ lcwd' = IF J.ldir = "" THEN lcwd ELSE J.ldir
        /\ pc' = "connection" /\ UNCHANGED <<queue, ahead, job, passvars>>
     \/ J.ldir # "" /\ ItemEnds(TRUE) /\ UNCHANGED processed
  /\ UNCHANGED <<conn, rstart, lastHost, dialled>>

NeedOpenHostOnly == ~conn.up \/ J.host # conn.host   \* a defect: whoever the user is
NeedOpen == ~conn.up \/ J.host # conn.host \/ J.user # conn.user

KeepConnection ==
  /\ pc = "connection" /\ ~NeedOpen /\ pc' = "back"
  /\ UNCHANGED <<queue, ahead, job, conn, rstart, lastHost, lcwd, passvars, dialled>>

(* The old connection is closed; a host that has just failed is skipped.   *)
SkipHost ==
  /\ pc = "connection" /\ NeedOpen /\ J.host = lastHost
  /\ conn' = Closed /\ ItemEnds(FALSE)
  /\ UNCHANGED <<rstart, lastHost, processed, dialled>>

(* The name is not found or FTPOpenHost fails.                             *)
DialFails ==
  /\ pc = "connection" /\ NeedOpen /\ J.host # lastHost
  /\ conn' = Closed /\ lastHost' = J.host
  /\ dialled' = [host |-> J.host, failed |-> TRUE]
  /\ ItemEnds(FALSE) /\ UNCHANGED <<rstart, processed>>

(* FTPOpenHost, then PWD, which may fail, CLNT and the user's command.     *)
Opened ==
  /\ pc = "connection" /\ NeedOpen /\ J.host # lastHost
  /\ lastHost' = NoHost /\ dialled' = [host |-> J.host, failed |-> FALSE]
  /\ \/ /\ conn' = [up |-> TRUE, host |-> J.host, port |-> J.port, user |-> J.user, cwd |-> HomeDir]
        /\ rstart' = HomeDir /\ pc' = "enter"
        /\ UNCHANGED <<queue, ahead, job, lcwd, passvars>>
     \/ conn' = Closed /\ ItemEnds(FALSE) /\ UNCHANGED <<rstart, processed>>
-----------------------------------------------------------------------------
Target(from, d) == IF d.abs THEN d.names ELSE from \o d.names
Lost == [conn EXCEPT !.up = FALSE]

(* FTPChdir3, which makes what is missing for an upload and may stop half  *)
(* way when it does not succeed.                                           *)
CanEnter(to) == J.op = "put" \/ to \in There
HalfWay(to)  == {[conn EXCEPT !.cwd = SubSeq(to, 1, n)] : n \in 0..(Len(to) - 1)} \cup {conn}

(* On a connection kept from the last job: back to where its login began,  *)
(* which for an inherited one is nowhere.                                  *)
BackAtStart == [conn EXCEPT !.cwd = IF rstart = NoStart THEN conn.cwd ELSE rstart]
GoBack ==
  /\ pc = "back"
  /\ \/ /\ conn' = BackAtStart /\ pc' = "again"
        /\ UNCHANGED <<queue, ahead, job, lcwd, finished, items, passes>>
     \/ conn' \in {conn, Lost} /\ ItemEnds(FALSE)
  /\ UNCHANGED <<rstart, lastHost, processed, dialled>>

(* Not to get there is the end of a job on a connection just opened, and   *)
(* another try for one on a connection that was kept.                      *)
EnterRemote ==
  /\ pc \in {"enter", "again"}
  /\ LET to == Target(conn.cwd, J.rdir)
     IN \/ /\ CanEnter(to) /\ conn' = [conn EXCEPT !.cwd = to]
           /\ pc' = "transfer" /\ UNCHANGED <<queue, ahead, job, lcwd, finished, items, passes>>
        \/ conn' \in HalfWay(to) \cup {Lost} /\ ItemEnds(pc = "enter")
  /\ UNCHANGED <<rstart, lastHost, processed, dialled>>

(* FTPGetFiles3 and its like.  Delivered, already there, not to be had, or *)
(* an error that another try would not mend: the job is over.  Anything    *)
(* else, such as a connection lost, is tried again.                        *)
Transferred ==
  /\ pc = "transfer"
  /\ \/ UNCHANGED conn /\ ItemEnds(TRUE)
     \/ conn' \in {conn, Lost} /\ ItemEnds(FALSE)
  /\ UNCHANGED <<rstart, lastHost, processed, dialled>>

(* An empty directory is the end of the spooler of a user.                 *)
SpoolerEnds ==
  /\ pc = "end" /\ queue = {} /\ passes > 0
  /\ conn' = Closed /\ pc' = "over"
  /\ UNCHANGED <<queue, ahead, job, rstart, lastHost, lcwd, passvars, dialled>>

BiNext == \/ Pass \/ PassEnds \/ EnterLocal \/ KeepConnection \/ SkipHost \/ DialFails
          \/ Opened \/ GoBack \/ EnterRemote \/ Transferred \/ SpoolerEnds
          \/ \E j \in Jobs : LoadCurrentSpoolFileContents(j)
BiSpec == BiInit /\ [][BiNext]_bivars
-----------------------------------------------------------------------------
(* The types of the variables.                                             *)
BiTypeOK ==
  /\ queue \subseteq Jobs /\ ahead \subseteq queue /\ job \in queue \cup {"none"}
  /\ pc \in {"end", "pick", "local", "connection", "back", "again", "enter", "transfer", "over"}
  /\ (job = "none") = (pc \in {"end", "pick", "over"})
  /\ finished <= processed /\ processed <= items

(* Whatever connection a job comes to, one kept from other jobs, one left  *)
(* by ncftp or one of its own, its files are moved with its own host and   *)
(* user, and between its own directories there and here; but where an      *)
(* inherited connection began is not known, and so a job that names no     *)
(* absolute directory may land anywhere on it.                             *)
RightPlace ==
  pc = "transfer" =>
    /\ conn.up /\ conn.host = J.host /\ conn.user = J.user
    /\ lcwd = IF J.ldir = "" THEN "/" ELSE J.ldir
    /\ (J.rdir.abs \/ rstart # NoStart) => conn.cwd = Target(HomeDir, J.rdir)

(* A pass does not dial the host whose dial was the last to fail: jobs for *)
(* a host that is down do not each wait for it.                            *)
DialsHost == pc = "connection" /\ (pc' = "enter" \/ dialled' # dialled)
SkipsFailed ==
  DialsHost /\ passes' = passes => ~(dialled.failed /\ dialled'.host = dialled.host)

(* A connection that breaks under a job does not cost the job, which stays *)
(* in the directory for another pass, unless it breaks on the way to the   *)
(* directory of a host just opened.                                        *)
BreaksUnder == conn.up /\ ~conn'.up /\ job # "none" /\ pc \in {"back", "again", "transfer"}
KeepsJob == BreaksUnder => job \in queue'
-----------------------------------------------------------------------------
(* What every step keeps, and what these follow from: a pass does not find *)
(* more jobs due than there are; and from the connection on a job is in    *)
(* its own local directory, and from then on its host and user are those   *)
(* of the connection, which begins where its login did if that is known.   *)
OrNone   == STRING \cup {"none"}
ConnType == [up : BOOLEAN, host : OrNone, port : Nat, user : OrNone, cwd : Names]
BiTypes ==
  /\ queue \subseteq Jobs /\ ahead \subseteq queue /\ job \in (queue \ ahead) \cup {"none"}
  /\ pc \in {"end", "pick", "local", "connection", "back", "again", "enter", "transfer", "over"}
  /\ (job = "none") = (pc \in {"end", "pick", "over"})
  /\ conn \in ConnType /\ rstart \in {NoStart, HomeDir}
  /\ items \in Nat /\ processed \in Nat /\ finished \in Nat

Counted ==
  /\ processed + Cardinality(ahead) <= items
  /\ finished + (IF job = "none" THEN 0 ELSE 1) <= processed

OwnPlace ==
  /\ pc \in {"end", "pick", "local", "over"} => lcwd = "/"
  /\ pc \in {"connection", "back", "again", "enter", "transfer"} => lcwd = IF J.ldir = "" THEN "/" ELSE J.ldir
  /\ pc \in {"back", "again", "enter", "transfer"} => conn.up /\ conn.host = J.host /\ conn.user = J.user
  /\ pc = "enter" => conn.cwd = HomeDir
  /\ pc = "again" /\ rstart # NoStart => conn.cwd = HomeDir

FailedLast == dialled.failed => lastHost = dialled.host

BiInv == BiTypes /\ Counted /\ OwnPlace /\ RightPlace /\ FailedLast
=============================================================================
