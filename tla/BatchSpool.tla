----------------------------- MODULE BatchSpool -----------------------------
(***************************************************************************)
(* The job queue of ncftpbatch and ncftpspooler (sh_util/ncftpbatch.c,     *)
(* ncftp/spoolutil.c).  The queue is a directory.  A job is a file whose   *)
(* name starts with g or p (here "g"); a spooler takes a job by renaming   *)
(* the file so that the name starts with x, and SpoolX writes a new file   *)
(* under a name that starts with z before it renames it.  Nothing but      *)
(* those renames keeps the spoolers apart, and the signal handler SigExit  *)
(* renames too.                                                            *)
(*                                                                         *)
(* What a job's transfer does on the network is left out: DoItem is the    *)
(* reading of the job file and one of its results.                         *)
(***************************************************************************)
EXTENDS Naturals, FiniteSets

CONSTANTS Procs,          \* the instances of ncftpbatch or ncftpspooler
          Jobs,           \* the transfers that get submitted
          MaxNames,       \* bound: how many times SpoolX runs in all
          Capital,        \* the jobs whose files are named G or P
          GlobalSpooler,  \* gGlobalSpooler: stay when the queue is empty
          LogHere,        \* the log file lies in the queue's directory
          MaySignal,      \* SIGTERM may reach a spooler
          MayKill,        \* a spooler may die without running SigExit
          MayFail         \* SpoolX may fail: no space, no permission

ASSUME SpoolAssumption ==
    /\ MaxNames \in Nat \ {0}
    /\ Capital \subseteq Jobs
    /\ {GlobalSpooler, LogHere, MaySignal, MayKill, MayFail} \subseteq BOOLEAN

None    == "none"          \* no such file, or no job
Partial == "partial"       \* a file that is still being written

ASSUME ContentAssumption == None \notin Jobs /\ Partial \notin Jobs

\* X-YYYYMMDD-hhmmss-PID-N: unique to the job and to this spooling of it.
Names == Jobs \X (1..MaxNames)
Files == {"g", "x", "z"} \X Names
Log    == <<"log", None>>
NoFile == <<"none", None>>
Paths  == Files \cup {f \in {Log} : LogHere}

Live(n)    == <<"g", n>>
Claimed(n) == <<"x", n>>
Hidden(n)  == <<"z", n>>

VARIABLES dir,        \* what each file holds
          due,        \* the names whose time has passed
          serial,     \* how many names SpoolX has made
          asked,      \* the number in the first name of each job, 0 before it
          pc,         \* where each spooler is in EventShell
          ahead,      \* the entries opendir found that Readdir has to return
          item,       \* gItemPath
          mine,       \* gMyItemPath
          itemInUse,  \* gItemInUse
          maySigExit, \* gMaySigExit
          quit,       \* gQuitRequested
          nItems,     \* whether the pass has counted an item
          job,        \* the job DoItem has loaded in the g variables
          fresh,      \* the name SpoolX is writing
          sent,       \* history: how often the job was transferred (0, 1, 2+)
          dismissed   \* history: the jobs DoItem gave up for good

queue == <<dir, due, serial, asked, sent, dismissed>>
scan  == <<ahead, nItems>>
sig   == <<itemInUse, maySigExit, quit>>
vars  == <<queue, pc, scan, item, mine, sig, job, fresh>>

-----------------------------------------------------------------------------
(***************************************************************************)
(* The directory.                                                          *)
(***************************************************************************)
Exists(f) == f \in Paths /\ dir[f] # None

\* rename(2): fails, and does nothing, unless `from' exists; replaces `to'.
Renamed(from, to) ==
    IF Exists(from) /\ to \in Paths /\ from # to
      THEN [dir EXCEPT ![to] = dir[from], ![from] = None]
      ELSE dir

\* What the process leaves behind does not matter once it is gone.
Gone(p) ==
    /\ pc' = [pc EXCEPT ![p] = "off"]
    /\ ahead' = [ahead EXCEPT ![p] = {}]
    /\ nItems' = [nItems EXCEPT ![p] = FALSE]
    /\ item' = [item EXCEPT ![p] = NoFile]
    /\ mine' = [mine EXCEPT ![p] = NoFile]
    /\ itemInUse' = [itemInUse EXCEPT ![p] = FALSE]
    /\ maySigExit' = [maySigExit EXCEPT ![p] = TRUE]
    /\ quit' = [quit EXCEPT ![p] = FALSE]
    /\ job' = [job EXCEPT ![p] = None]
    /\ fresh' = [fresh EXCEPT ![p] = NoFile]

\* ExitStuff: the item goes back to its name.
ExitStuff(p) == dir' = IF itemInUse[p] THEN Renamed(mine[p], item[p]) ELSE dir

GoTo(p, where) == pc' = [pc EXCEPT ![p] = where]

-----------------------------------------------------------------------------
(***************************************************************************)
(* Submitting a job: SpoolX in ncftp, ncftpget or ncftpput.                *)
(***************************************************************************)
\* Names left for one more job: the bound, with what respoolers will need.
Room == serial + Cardinality({p \in Procs : pc[p] = "respool"}) < MaxNames

Submit(j) ==
    /\ asked[j] = 0
    /\ serial < MaxNames /\ Room
    /\ serial' = serial + 1
    /\ asked' = [asked EXCEPT ![j] = serial + 1]
    /\ dir' = [dir EXCEPT ![Hidden(<<j, serial + 1>>)] = Partial]
    /\ UNCHANGED <<due, sent, dismissed, pc, scan, item, mine, sig, job, fresh>>

FirstName(j) == <<j, asked[j]>>

Submitting(j) == asked[j] # 0 /\ dir[Hidden(FirstName(j))] = Partial

SubmitEnds(j) ==
    /\ Submitting(j)
    /\ dir' = [dir EXCEPT ![Live(FirstName(j))] = j, ![Hidden(FirstName(j))] = None]
    /\ UNCHANGED <<due, serial, asked, sent, dismissed, pc, scan, item, mine, sig, job, fresh>>

\* The write or the rename fails: SpoolX deletes the file and says so.
SubmitFails(j) ==
    /\ MayFail
    /\ Submitting(j)
    /\ dir' = [dir EXCEPT ![Hidden(FirstName(j))] = None]
    /\ asked' = [asked EXCEPT ![j] = 0]
    /\ UNCHANGED <<due, serial, sent, dismissed, pc, scan, item, mine, sig, job, fresh>>

\* The time that the name of a job file carries passes.
ComesDue(n) ==
    /\ Exists(Live(n))
    /\ n \notin due
    /\ due' = due \cup {n}
    /\ UNCHANGED <<dir, serial, asked, sent, dismissed, pc, scan, item, mine, sig, job, fresh>>

-----------------------------------------------------------------------------
(***************************************************************************)
(* EventShell.                                                             *)
(***************************************************************************)
Start(p) ==
    /\ pc[p] = "off"
    /\ GoTo(p, "pass")
    /\ UNCHANGED <<queue, scan, item, mine, sig, job, fresh>>

OpenDir(p) ==
    /\ pc[p] = "pass"
    /\ ahead' = [ahead EXCEPT ![p] = {f \in Paths : dir[f] # None}]
    /\ nItems' = [nItems EXCEPT ![p] = FALSE]
    /\ GoTo(p, "read")
    /\ UNCHANGED <<queue, item, mine, sig, job, fresh>>

\* Mutant: the files that are being worked on are taken too.
IsItemAny(f) == f[1] \in {"g", "x"} /\ f[2][1] \notin Capital

\* DecodeName and the type of the entry.  islower() in place of tolower(): a
\* name in capitals is never taken.
IsItem(f) == f[1] = "g" /\ f[2][1] \notin Capital

\* Readdir returns what opendir found, whether or not it is still there.  An
\* entry made since then, which it may return or not, waits for the next
\* pass.  Each one goes to gItemPath, the log and the x files too.
Readdir(p, f) ==
    /\ pc[p] = "read"
    /\ f \in ahead[p]
    /\ ahead' = [ahead EXCEPT ![p] = @ \ {f}]
    /\ item' = [item EXCEPT ![p] = f]
    /\ GoTo(p, IF IsItem(f) THEN "look" ELSE "read")
    /\ UNCHANGED <<queue, nItems, mine, sig, job, fresh>>

\* Mutant: gMyItemPath is never given its x.
LookUnmarked(p) ==
    /\ pc[p] = "look"
    /\ nItems' = [nItems EXCEPT ![p] = @ \/ Exists(item[p])]
    /\ IF Exists(item[p]) /\ item[p][2] \in due
         THEN /\ mine' = [mine EXCEPT ![p] = item[p]]
              /\ GoTo(p, "claim")
         ELSE /\ GoTo(p, "read")
              /\ UNCHANGED mine
    /\ UNCHANGED <<queue, ahead, item, sig, job, fresh>>

\* Stat and the time of the entry.
Look(p) ==
    /\ pc[p] = "look"
    /\ nItems' = [nItems EXCEPT ![p] = @ \/ Exists(item[p])]
    /\ IF Exists(item[p]) /\ item[p][2] \in due
         THEN /\ mine' = [mine EXCEPT ![p] = Claimed(item[p][2])]
              /\ GoTo(p, "claim")
         ELSE /\ GoTo(p, "read")
              /\ UNCHANGED mine
    /\ UNCHANGED <<queue, ahead, item, sig, job, fresh>>

\* Mutant: nobody looks whether rename() worked.
ClaimUnchecked(p) ==
    /\ pc[p] = "claim"
    /\ dir' = Renamed(item[p], mine[p])
    /\ GoTo(p, "mark")
    /\ UNCHANGED <<due, serial, asked, sent, dismissed, scan, item, mine, sig, job, fresh>>

Claim(p) ==
    /\ pc[p] = "claim"
    /\ dir' = Renamed(item[p], mine[p])
    /\ GoTo(p, IF Exists(item[p]) THEN "mark" ELSE "check")
    /\ UNCHANGED <<due, serial, asked, sent, dismissed, scan, item, mine, sig, job, fresh>>

MarkInUse(p) ==
    /\ pc[p] = "mark"
    /\ itemInUse' = [itemInUse EXCEPT ![p] = TRUE]
    /\ GoTo(p, "load")
    /\ UNCHANGED <<queue, scan, item, mine, maySigExit, quit, job, fresh>>

\* LoadCurrentSpoolFileContents, a second time if a pre-shell-command ran.
\* What cannot be read is dropped as an invalid spool file.
LoadItem(p) ==
    /\ pc[p] = "load"
    /\ IF Exists(mine[p]) /\ dir[mine[p]] # Partial
         THEN /\ job' = [job EXCEPT ![p] = dir[mine[p]]]
              /\ \E where \in {"load", "transfer"} : GoTo(p, where)
         ELSE /\ job' = [job EXCEPT ![p] = None]
              /\ GoTo(p, "drop")
    /\ UNCHANGED <<queue, scan, item, mine, sig, fresh>>

\* DoItem returns 0: the file was transferred.
Transferred(p) ==
    /\ pc[p] = "transfer"
    /\ sent' = [sent EXCEPT ![job[p]] = IF @ < 2 THEN @ + 1 ELSE 2]
    /\ GoTo(p, "drop")
    /\ UNCHANGED <<dir, due, serial, asked, dismissed, scan, item, mine, sig, job, fresh>>

\* DoItem returns 0: the file is there already, the directory is not, the
\* server refuses the transfer, the spool file makes no sense.
Dismissed(p) ==
    /\ pc[p] = "transfer"
    /\ dismissed' = dismissed \cup {job[p]}
    /\ GoTo(p, "drop")
    /\ UNCHANGED <<dir, due, serial, asked, sent, scan, item, mine, sig, job, fresh>>

\* Mutant: the handler of signals stays free to leave.
\* DoItem returns less than 0: try again next time.
TryLater(p) ==
    /\ pc[p] = "transfer"
    /\ Room
    /\ maySigExit' = [maySigExit EXCEPT ![p] = FALSE]
    /\ GoTo(p, "respool")
    /\ UNCHANGED <<queue, scan, item, mine, itemInUse, quit, job, fresh>>

\* FTPInitConnectionInfo fails: ExitStuff and exit(1).
InitFails(p) ==
    /\ MayFail
    /\ pc[p] = "transfer"
    /\ ExitStuff(p)
    /\ Gone(p)
    /\ UNCHANGED <<due, serial, asked, sent, dismissed>>

\* Mutant: the old file goes before the new one is there.
RespoolWriteUnlinks(p) ==
    /\ pc[p] = "respool"
    /\ serial < MaxNames
    /\ serial' = serial + 1
    /\ fresh' = [fresh EXCEPT ![p] = Live(<<job[p], serial + 1>>)]
    /\ dir' = [dir EXCEPT ![Hidden(<<job[p], serial + 1>>)] = Partial, ![mine[p]] = None]
    /\ GoTo(p, "publish")
    /\ UNCHANGED <<due, asked, sent, dismissed, scan, item, mine, sig, job>>

\* SpoolX opens the new file under its z name.
RespoolWrite(p) ==
    /\ pc[p] = "respool"
    /\ serial < MaxNames
    /\ serial' = serial + 1
    /\ fresh' = [fresh EXCEPT ![p] = Live(<<job[p], serial + 1>>)]
    /\ dir' = [dir EXCEPT ![Hidden(<<job[p], serial + 1>>)] = Partial]
    /\ GoTo(p, "publish")
    /\ UNCHANGED <<due, asked, sent, dismissed, scan, item, mine, sig, job>>

\* Mutant: the new file keeps its z name.
RespoolPublishNot(p) ==
    /\ pc[p] = "publish"
    /\ GoTo(p, "unlinkOld")
    /\ UNCHANGED <<queue, scan, item, mine, sig, job, fresh>>

\* SpoolX has closed it and moves it to its "live" name.
RespoolPublish(p) ==
    /\ pc[p] = "publish"
    /\ dir' = [dir EXCEPT ![fresh[p]] = job[p], ![Hidden(fresh[p][2])] = None]
    /\ GoTo(p, "unlinkOld")
    /\ UNCHANGED <<due, serial, asked, sent, dismissed, scan, item, mine, sig, job, fresh>>

\* Mutant: the spooler that leaves deletes its x file.
RespoolFailsUnlinks(p) ==
    /\ MayFail
    /\ pc[p] \in {"respool", "publish"}
    /\ dir' = [dir EXCEPT ![mine[p]] = None]
    /\ Gone(p)
    /\ UNCHANGED <<due, serial, asked, sent, dismissed>>

\* SpoolX fails: the spooler leaves, and the job keeps its x file.
RespoolFails(p) ==
    /\ MayFail
    /\ pc[p] \in {"respool", "publish"}
    /\ dir' = IF pc[p] = "publish"
                THEN [dir EXCEPT ![Hidden(fresh[p][2])] = None] ELSE dir
    /\ Gone(p)
    /\ UNCHANGED <<due, serial, asked, sent, dismissed>>

\* unlink(gMyItemPath), gMaySigExit being `may' after it.  A spooler that
\* cannot delete the file leaves.
Unlink(p, may) ==
    /\ IF Exists(mine[p])
         THEN /\ dir' = [dir EXCEPT ![mine[p]] = None]
              /\ maySigExit' = [maySigExit EXCEPT ![p] = may]
              /\ GoTo(p, "check")
              /\ UNCHANGED <<scan, item, mine, itemInUse, quit, job, fresh>>
         ELSE /\ Gone(p)
              /\ UNCHANGED dir
    /\ UNCHANGED <<due, serial, asked, sent, dismissed>>

\* The job was respooled: its old file goes.
UnlinkOld(p) == pc[p] = "unlinkOld" /\ Unlink(p, TRUE)

\* The job is done with.
UnlinkDone(p) == pc[p] = "drop" /\ Unlink(p, maySigExit[p])

CheckQuit(p) ==
    /\ pc[p] = "check"
    /\ IF quit[p]
         THEN Gone(p)
         ELSE /\ GoTo(p, "read")
              /\ UNCHANGED <<scan, item, mine, sig, job, fresh>>
    /\ UNCHANGED queue

\* Mutant: an empty directory is no reason to leave.
EndPassStays(p) ==
    /\ pc[p] = "read"
    /\ ahead[p] = {}
    /\ GoTo(p, "pass")
    /\ UNCHANGED <<queue, scan, item, mine, sig, job, fresh>>

\* The end of a pass.  The sleep before the next one is the time until the
\* next step of this process.
EndPass(p) ==
    /\ pc[p] = "read"
    /\ ahead[p] = {}
    /\ IF ~nItems[p] /\ ~GlobalSpooler
         THEN Gone(p)
         ELSE /\ GoTo(p, "pass")
              /\ UNCHANGED <<scan, item, mine, sig, job, fresh>>
    /\ UNCHANGED queue

-----------------------------------------------------------------------------
(***************************************************************************)
(* Signals and death.                                                      *)
(***************************************************************************)
SigExit(p) ==
    /\ MaySignal
    /\ pc[p] # "off"
    /\ IF maySigExit[p]
         THEN /\ ExitStuff(p)
              /\ Gone(p)
         ELSE /\ quit' = [quit EXCEPT ![p] = TRUE]
              /\ UNCHANGED <<dir, pc, scan, item, mine, itemInUse, maySigExit, job, fresh>>
    /\ UNCHANGED <<due, serial, asked, sent, dismissed>>

\* SIGKILL, the machine going down, or one of the panics that exit(1).
Kill(p) ==
    /\ MayKill
    /\ pc[p] # "off"
    /\ Gone(p)
    /\ UNCHANGED queue

-----------------------------------------------------------------------------
Init ==
    /\ dir = [f \in Paths |-> IF f = Log THEN Partial ELSE None]
    /\ due = {}
    /\ serial = 0
    /\ asked = [j \in Jobs |-> 0]
    /\ pc = [p \in Procs |-> "off"]
    /\ ahead = [p \in Procs |-> {}]
    /\ item = [p \in Procs |-> NoFile]
    /\ mine = [p \in Procs |-> NoFile]
    /\ itemInUse = [p \in Procs |-> FALSE]
    /\ maySigExit = [p \in Procs |-> TRUE]
    /\ quit = [p \in Procs |-> FALSE]
    /\ nItems = [p \in Procs |-> FALSE]
    /\ job = [p \in Procs |-> None]
    /\ fresh = [p \in Procs |-> NoFile]
    /\ sent = [j \in Jobs |-> 0]
    /\ dismissed = {}

\* The steps a running spooler takes by itself.
Runs(p) ==
    \/ OpenDir(p) \/ (\E f \in Paths : Readdir(p, f)) \/ Look(p) \/ Claim(p)
    \/ MarkInUse(p) \/ LoadItem(p)
    \/ Transferred(p) \/ Dismissed(p) \/ TryLater(p)
    \/ RespoolWrite(p) \/ RespoolPublish(p) \/ UnlinkOld(p) \/ UnlinkDone(p)
    \/ CheckQuit(p) \/ EndPass(p)

Next ==
    \/ \E j \in Jobs : Submit(j) \/ SubmitEnds(j) \/ SubmitFails(j)
    \/ \E n \in Names : ComesDue(n)
    \/ \E p \in Procs : Start(p) \/ Runs(p) \/ InitFails(p) \/ RespoolFails(p)
    \/ \E p \in Procs : SigExit(p) \/ Kill(p)

Spec == Init /\ [][Next]_vars
-----------------------------------------------------------------------------
(***************************************************************************)
(* Properties.                                                             *)
(***************************************************************************)
\* The program counters at which a spooler has a job file of its own.
Holding == {"mark", "load", "transfer", "drop", "respool", "publish", "unlinkOld"}

\* Types of the variables.
TypeOK ==
    /\ dir \in [Paths -> Jobs \cup {None, Partial}]
    /\ due \subseteq Names
    /\ serial \in 0..MaxNames
    /\ asked \in [Jobs -> 0..MaxNames]
    /\ pc \in [Procs -> {"off", "pass", "read", "look", "claim", "check"} \cup Holding]
    /\ ahead \in [Procs -> SUBSET Paths]
    /\ item \in [Procs -> Paths \cup {NoFile}]
    /\ mine \in [Procs -> ({"x"} \X Names) \cup {NoFile}]
    /\ itemInUse \in [Procs -> BOOLEAN]
    /\ maySigExit \in [Procs -> BOOLEAN]
    /\ quit \in [Procs -> BOOLEAN]
    /\ nItems \in [Procs -> BOOLEAN]
    /\ job \in [Procs -> Jobs \cup {None}]
    /\ fresh \in [Procs -> ({"g"} \X Names) \cup {NoFile}]
    /\ sent \in [Jobs -> 0..2]
    /\ dismissed \subseteq Jobs

\* Every spooler that believes to have taken a job does have it: the x file
\* is there, and it is nobody else's.  "Race condition between other
\* ncftpbatches, but only one of them will rename it successfully."
OneHolder ==
    \A p \in Procs : pc[p] \in Holding =>
        /\ Exists(mine[p])
        /\ \A q \in Procs \ {p} : pc[q] \in Holding => mine[q] # mine[p]

\* No two spoolers run the same job at the same time, and no job that was
\* transferred, or given up for good, is ever run again.
RunOnce ==
    /\ \A p, q \in Procs :
           pc[p] = "transfer" /\ pc[q] = "transfer" /\ job[p] = job[q] => p = q
    /\ \A j \in Jobs : sent[j] <= IF j \in dismissed THEN 0 ELSE 1

\* A job that was submitted is in the queue, or in the hands of a spooler,
\* until it is transferred or given up for good.
InQueue(j) == \E n \in Names : j \in {dir[Live(n)], dir[Claimed(n)]}
Submitted(j) == asked[j] # 0 /\ ~Submitting(j)

NoJobLost ==
    \A j \in Jobs : Submitted(j) => sent[j] > 0 \/ j \in dismissed \/ InQueue(j)

\* A job waits in the queue under one name at most: one that a spooler puts
\* back does not come back twice, under its old name and under a new one.
OneEntry ==
    \A m, n \in Names : dir[Live(m)] = dir[Live(n)] /\ dir[Live(m)] \in Jobs => m = n

Fairness ==
    /\ \A p \in Procs : WF_vars(Runs(p)) /\ WF_vars(Start(p))
    /\ \A j \in Jobs : WF_vars(SubmitEnds(j))
    /\ \A n \in Names : WF_vars(ComesDue(n))

FairSpec == Spec /\ Fairness

\* An instance of ncftpbatch that finds nothing to do leaves.
Leaves == \A p \in Procs :
    []<>(\E n \in Names : Exists(Live(n)) /\ dir[Live(n)] \notin Capital) \/ []<>(pc[p] = "off")

-----------------------------------------------------------------------------
(***************************************************************************)
(* The queue as those who submit jobs are told of it.                      *)
(***************************************************************************)
HolderOf(j) == {p \in Procs : pc[p] \in Holding \ {"unlinkOld"} /\ dir[mine[p]] = j}

StateOf(j) ==
    IF sent[j] > 0 \/ j \in dismissed THEN "done"
    ELSE IF ~Submitted(j) THEN "new"
    ELSE IF \E n \in Names : dir[Live(n)] = j THEN "waiting"
    ELSE IF HolderOf(j) # {} THEN "taken" ELSE "stuck"

Queue == INSTANCE JobQueue WITH
    state <- [j \in Jobs |-> StateOf(j)],
    worker <- [j \in Jobs |-> IF StateOf(j) = "taken" THEN HolderOf(j) ELSE {}]

\* Whatever is in the queue gets its turn, also what a spooler that died has
\* left there, if instances of the spooler keep being started ("will not be
\* processed until another instance of ncftpbatch is run") and do not keep
\* being killed.
LeftJobsRun ==
    (<>[][\A p \in Procs : ~Kill(p)]_vars) =>
        \A j \in Jobs : StateOf(j) \in {"waiting", "stuck"}
                         ~> StateOf(j) \notin {"waiting", "stuck"}

\* The spool directory implements the queue of module JobQueue: a job is
\* taken by one spooler at a time, and is done, or stuck, for good.
QueueSpec == Queue!Spec
=============================================================================
