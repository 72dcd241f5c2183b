-------------------------- MODULE BatchSpoolProofs --------------------------
(***************************************************************************)
(* What TLAPS proves of module BatchSpool, for every set of spoolers and   *)
(* of jobs and every bound.  TypeCorrect holds whatever happens.  Most of  *)
(* the rest is proved of a queue whose spoolers get no signal, and may be  *)
(* killed at any point: with SigExit OneHolder and RunOnce are not true,   *)
(* as its gItemInUse may be that of an earlier job (ncftpbatch.c:411).     *)
(* That no job is lost is proved with signals too when the spooler is      *)
(* alone (OneSpoolerLosesNoJob).                                           *)
(***************************************************************************)
EXTENDS BatchSpool, TLAPS

-----------------------------------------------------------------------------
(***************************************************************************)
(* Types.                                                                  *)
(***************************************************************************)
\* An entry that is looked at is a job file, and a job that is being run is
\* one.
Shapes ==
    \A p \in Procs :
        /\ pc[p] = "look" => item[p] \in {"g"} \X Names
        /\ pc[p] \in {"transfer", "respool", "publish", "unlinkOld"} => job[p] \in Jobs

TInv == TypeOK /\ Shapes

\* An entry of the directory that IsItem accepts is a g file.
LEMMA ItemIsLive == ASSUME NEW f \in Paths, IsItem(f) PROVE f \in {"g"} \X Names
  BY DEF Paths, Files, Log, IsItem

\* rename() leaves the directory a directory.
LEMMA RenamedType ==
    ASSUME dir \in [Paths -> Jobs \cup {None, Partial}], NEW from, NEW to
    PROVE  Renamed(from, to) \in [Paths -> Jobs \cup {None, Partial}]
  BY DEF Renamed, Exists

LEMMA InitTInv == Init => TInv
  BY SpoolAssumption DEF Init, TInv, TypeOK, Shapes, Holding, NoFile

\* What a spooler that leaves does to the types.
LEMMA GoneTypes ==
    ASSUME TInv, NEW p \in Procs, Gone(p),
           dir' \in [Paths -> Jobs \cup {None, Partial}],
           UNCHANGED <<due, serial, asked, sent, dismissed>>
    PROVE  TInv'
  BY DEF TInv, TypeOK, Shapes, Gone, Holding, NoFile, Names

LEMMA NextTInv == TInv /\ [Next]_vars => TInv'
<1> SUFFICES ASSUME TInv, [Next]_vars PROVE TInv'
  OBVIOUS
<1> USE SpoolAssumption, ContentAssumption
<1> USE DEF TInv, TypeOK, Shapes, Holding, queue, scan, sig, GoTo
<1>1. ASSUME NEW j \in Jobs, Submit(j) PROVE TInv'
  <2>1. serial + 1 \in 0..MaxNames
    BY <1>1 DEF Submit
  <2>2. serial' \in 0..MaxNames /\ asked' \in [Jobs -> 0..MaxNames]
    BY <1>1, <2>1 DEF Submit
  <2>3. dir' \in [Paths -> Jobs \cup {None, Partial}]
    BY <1>1 DEF Submit
  <2>4. QED
    BY <1>1, <2>2, <2>3 DEF Submit
<1>2. ASSUME NEW j \in Jobs, SubmitEnds(j) PROVE TInv'
  BY <1>2 DEF SubmitEnds
<1>3. ASSUME NEW j \in Jobs, SubmitFails(j) PROVE TInv'
  <2>1. 0 \in 0..MaxNames
    OBVIOUS
  <2>2. asked' \in [Jobs -> 0..MaxNames]
    BY <1>3, <2>1 DEF SubmitFails
  <2>3. dir' \in [Paths -> Jobs \cup {None, Partial}]
    BY <1>3 DEF SubmitFails
  <2>4. QED
    BY <1>3, <2>2, <2>3 DEF SubmitFails
<1>4. ASSUME NEW n \in Names, ComesDue(n) PROVE TInv'
  BY <1>4 DEF ComesDue
<1>5. ASSUME NEW p \in Procs, Start(p) PROVE TInv'
  BY <1>5 DEF Start
<1>6. ASSUME NEW p \in Procs, OpenDir(p) PROVE TInv'
  BY <1>6 DEF OpenDir
<1>7. ASSUME NEW p \in Procs, NEW f \in Paths, Readdir(p, f) PROVE TInv'
  BY <1>7, ItemIsLive DEF Readdir
<1>8. ASSUME NEW p \in Procs, Look(p) PROVE TInv'
  BY <1>8 DEF Look, Claimed
<1>9. ASSUME NEW p \in Procs, Claim(p) PROVE TInv'
  BY <1>9, RenamedType DEF Claim
<1>10. ASSUME NEW p \in Procs, MarkInUse(p) PROVE TInv'
  BY <1>10 DEF MarkInUse
<1>11. ASSUME NEW p \in Procs, LoadItem(p) PROVE TInv'
  BY <1>11 DEF LoadItem, Exists
<1>12. ASSUME NEW p \in Procs, Transferred(p) PROVE TInv'
  BY <1>12 DEF Transferred
<1>13. ASSUME NEW p \in Procs, Dismissed(p) PROVE TInv'
  BY <1>13 DEF Dismissed
<1>14. ASSUME NEW p \in Procs, TryLater(p) PROVE TInv'
  BY <1>14 DEF TryLater
<1>15. ASSUME NEW p \in Procs, InitFails(p) PROVE TInv'
  BY <1>15, RenamedType, GoneTypes DEF InitFails, ExitStuff
<1>16. ASSUME NEW p \in Procs, RespoolWrite(p) PROVE TInv'
  <2>1. <<job[p], serial + 1>> \in Names
    BY <1>16 DEF RespoolWrite, Names
  <2>2. fresh' \in [Procs -> ({"g"} \X Names) \cup {NoFile}]
    BY <1>16, <2>1 DEF RespoolWrite, Live
  <2>3. serial' \in 0..MaxNames
    BY <1>16 DEF RespoolWrite
  <2>4. dir' \in [Paths -> Jobs \cup {None, Partial}]
    BY <1>16 DEF RespoolWrite
  <2>5. QED
    BY <1>16, <2>2, <2>3, <2>4 DEF RespoolWrite
<1>17. ASSUME NEW p \in Procs, RespoolPublish(p) PROVE TInv'
  BY <1>17 DEF RespoolPublish
<1>18. ASSUME NEW p \in Procs, RespoolFails(p) PROVE TInv'
  <2>1. dir' \in [Paths -> Jobs \cup {None, Partial}]
    BY <1>18 DEF RespoolFails
  <2>2. QED
    BY <1>18, <2>1, GoneTypes DEF RespoolFails
<1>19. ASSUME NEW p \in Procs, NEW may \in BOOLEAN, Unlink(p, may) PROVE TInv'
  <2>1. CASE Exists(mine[p])
    BY <1>19, <2>1 DEF Unlink
  <2>2. CASE ~Exists(mine[p])
    BY <1>19, <2>2, GoneTypes DEF Unlink
  <2>3. QED
    BY <2>1, <2>2
<1>20. ASSUME NEW p \in Procs, UnlinkOld(p) \/ UnlinkDone(p) PROVE TInv'
  BY <1>19, <1>20 DEF UnlinkOld, UnlinkDone
<1>21. ASSUME NEW p \in Procs, CheckQuit(p) PROVE TInv'
  <2>1. CASE quit[p]
    BY <1>21, <2>1, GoneTypes DEF CheckQuit
  <2>2. CASE ~quit[p]
    BY <1>21, <2>2 DEF CheckQuit
  <2>3. QED
    BY <2>1, <2>2
<1>22. ASSUME NEW p \in Procs, EndPass(p) PROVE TInv'
  <2>1. CASE ~nItems[p] /\ ~GlobalSpooler
    BY <1>22, <2>1, GoneTypes DEF EndPass
  <2>2. CASE ~(~nItems[p] /\ ~GlobalSpooler)
    BY <1>22, <2>2 DEF EndPass
  <2>3. QED
    BY <2>1, <2>2
<1>23. ASSUME NEW p \in Procs, SigExit(p) PROVE TInv'
  <2>1. CASE maySigExit[p]
    BY <1>23, <2>1, RenamedType, GoneTypes DEF SigExit, ExitStuff
  <2>2. CASE ~maySigExit[p]
    BY <1>23, <2>2 DEF SigExit
  <2>3. QED
    BY <2>1, <2>2
<1>24. ASSUME NEW p \in Procs, Kill(p) PROVE TInv'
  BY <1>24, GoneTypes DEF Kill
<1>25. CASE UNCHANGED vars
  BY <1>25 DEF vars
<1>26. QED
  BY <1>1, <1>2, <1>3, <1>4, <1>5, <1>6, <1>7, <1>8, <1>9, <1>10, <1>11, <1>12,
     <1>13, <1>14, <1>15, <1>16, <1>17, <1>18, <1>20, <1>21, <1>22, <1>23,
     <1>24, <1>25 DEF Next, Runs

\* Every variable has its type, in every behaviour, with signals and deaths.
THEOREM TypeCorrect == Spec => []TypeOK
<1>1. TInv => TypeOK
  BY DEF TInv
<1>2. QED
  BY InitTInv, NextTInv, <1>1, PTL DEF Spec

-----------------------------------------------------------------------------
(***************************************************************************)
(* The inductive invariant of a queue without signals.                     *)
(***************************************************************************)
\* A file holds what its name says; one name has one file; and the names
\* that SpoolX has yet to make have none.
Contents ==
    \A n \in Names :
        /\ dir[Live(n)] \in {None, n[1]}
        /\ dir[Claimed(n)] \in {None, n[1]}
        /\ dir[Hidden(n)] \in {None, Partial}
        /\ dir[Live(n)] # None => dir[Claimed(n)] = None /\ dir[Hidden(n)] = None
        /\ dir[Claimed(n)] # None => dir[Hidden(n)] = None
        /\ n[2] > serial => /\ dir[Live(n)] = None
                           /\ dir[Claimed(n)] = None
                           /\ dir[Hidden(n)] = None

\* A spooler that has taken a job has the x file of it, and has loaded it.
Loaded == {"transfer", "drop", "respool", "publish", "unlinkOld"}

Held ==
    \A p \in Procs :
        /\ pc[p] \in {"claim"} \cup Holding =>
               item[p] \in {"g"} \X Names /\ mine[p] = Claimed(item[p][2])
        /\ pc[p] \in Holding => dir[mine[p]] = item[p][2][1]
        /\ pc[p] \in Loaded => job[p] = item[p][2][1]

\* Two spoolers do not have the same file.
Apart ==
    \A p, q \in Procs :
        p # q /\ pc[p] \in Holding /\ pc[q] \in Holding => item[p] # item[q]

\* The files that are being written have names of their own.
Writing ==
    /\ \A j \in Jobs : asked[j] <= serial
    /\ \A p \in Procs : pc[p] = "publish" =>
           /\ fresh[p] \in {"g"} \X Names
           /\ fresh[p][2][1] = job[p]
           /\ fresh[p][2][2] > item[p][2][2]
           /\ dir[Hidden(fresh[p][2])] = Partial
           /\ asked[job[p]] < fresh[p][2][2]
    /\ \A p, q \in Procs :
           p # q /\ pc[p] = "publish" /\ pc[q] = "publish" => fresh[p] # fresh[q]

\* A job is waiting under one name, or one spooler is working on it, or
\* neither; neither, if it was not submitted yet, or is done with.
Working == {"mark", "load", "transfer", "respool", "publish"}
Waits(n) == dir[Live(n)] # None
WorksOn(p, j) == pc[p] \in Working /\ item[p][2][1] = j
Done(j) == sent[j] > 0 \/ j \in dismissed

OneCarrier ==
    \A j \in Jobs :
        /\ \A m, n \in Names : m[1] = j /\ n[1] = j /\ Waits(m) /\ Waits(n) => m = n
        /\ \A p \in Procs, n \in Names : ~(WorksOn(p, j) /\ n[1] = j /\ Waits(n))
        /\ \A p, q \in Procs : WorksOn(p, j) /\ WorksOn(q, j) => p = q
        /\ Done(j) \/ ~Submitted(j) =>
               /\ \A n \in Names : n[1] = j => ~Waits(n)
               /\ \A p \in Procs : ~WorksOn(p, j)
        /\ Done(j) => Submitted(j)
        /\ sent[j] <= IF j \in dismissed THEN 0 ELSE 1

\* A job outlives its old file: when a spooler is about to delete one, the
\* job is done with or has a newer file.
Newer(n) ==
    \E m \in Names : /\ m[1] = n[1] /\ m[2] > n[2]
                     /\ dir[Live(m)] # None \/ dir[Claimed(m)] # None

Kept ==
    /\ \A p \in Procs :
        /\ pc[p] = "drop" => Done(job[p])
        /\ pc[p] = "unlinkOld" => Done(job[p]) \/ Newer(item[p][2])
    /\ \A j \in Jobs : Submitted(j) => Done(j) \/ InQueue(j)

IInv == TInv /\ Contents /\ Held /\ Apart /\ Writing /\ OneCarrier /\ Kept

-----------------------------------------------------------------------------
\* The names of the files of different names, and of different kinds, differ.
LEMMA PathsApart ==
    \A m, n \in Names :
        /\ Live(m) \in Paths /\ Claimed(m) \in Paths /\ Hidden(m) \in Paths
        /\ Live(m) # Claimed(n) /\ Live(m) # Hidden(n) /\ Claimed(m) # Hidden(n)
        /\ m # n => /\ Live(m) # Live(n)
                   /\ Claimed(m) # Claimed(n)
                   /\ Hidden(m) # Hidden(n)
  BY DEF Live, Claimed, Hidden, Paths, Files

\* A g file is the live file of its name.
LEMMA LiveOf == ASSUME NEW f \in {"g"} \X Names PROVE f[2] \in Names /\ f = Live(f[2])
  BY DEF Live

LEMMA NameParts == \A n \in Names : n[1] \in Jobs /\ n[2] \in Nat /\ n[2] > 0 /\ n = <<n[1], n[2]>>
  BY SpoolAssumption DEF Names

LEMMA NonePartial == None # Partial
  BY DEF None, Partial

SInv == Contents /\ Held /\ Apart /\ Writing /\ OneCarrier /\ Kept

LEMMA InitIInv == Init => IInv
<1> SUFFICES ASSUME Init PROVE IInv
  OBVIOUS
<1> USE SpoolAssumption, ContentAssumption DEF Init
<1>1. TInv
  BY InitTInv
<1>2. \A n \in Names : dir[Live(n)] = None /\ dir[Claimed(n)] = None /\ dir[Hidden(n)] = None
  BY PathsApart DEF Live, Claimed, Hidden, Log
<1>3. Contents
  BY <1>2 DEF Contents
<1>4. Held /\ Apart
  BY DEF Held, Apart, Holding, Loaded
<1>5. Writing
  BY DEF Writing
<1>6. \A j \in Jobs : ~Done(j) /\ ~Submitted(j)
  BY DEF Done, Submitted
<1>7. OneCarrier
  BY <1>2, <1>6 DEF OneCarrier, Waits, WorksOn, Working
<1>8. Kept
  BY <1>6 DEF Kept
<1>9. QED
  BY <1>1, <1>3, <1>4, <1>5, <1>7, <1>8 DEF IInv

\* A step of a spooler after which it has no file, and that changes nothing
\* but what that spooler remembers, keeps the invariant.
LEMMA LetsGo ==
    ASSUME IInv, NEW p \in Procs,
           NEW w \in {"off", "pass", "read", "look", "claim", "check"},
           w = "claim" => item'[p] \in {"g"} \X Names /\ mine'[p] = Claimed(item'[p][2]),
           pc' = [pc EXCEPT ![p] = w],
           \A q \in Procs \ {p} : /\ item'[q] = item[q] /\ mine'[q] = mine[q]
                                  /\ job'[q] = job[q] /\ fresh'[q] = fresh[q],
           UNCHANGED <<dir, serial, asked, sent, dismissed>>
    PROVE  SInv'
<1> USE DEF IInv
<1> DEFINE Others == Procs \ {p}
<1>0. pc'[p] = w /\ \A q \in Others : pc'[q] = pc[q]
  BY DEF TInv, TypeOK
<1>1. Contents'
  BY DEF Contents
<1>2. Held'
  BY <1>0 DEF Held, Holding, Loaded
<1>3. Apart'
  BY <1>0 DEF Apart, Holding
<1>4. Writing'
  BY <1>0 DEF Writing
<1>5. \A j \in Jobs : Submitted(j)' = Submitted(j) /\ Done(j)' = Done(j)
  BY DEF Submitted, Submitting, FirstName, Done
<1>6. \A q \in Procs, j \in Jobs : WorksOn(q, j)' => WorksOn(q, j)
  BY <1>0 DEF WorksOn, Working
<1>7. OneCarrier'
  BY <1>5, <1>6 DEF OneCarrier, Waits
<1>8. \A n \in Names : Newer(n)' = Newer(n)
  BY DEF Newer
<1>9. Kept'
  <2>1. ASSUME NEW q \in Procs, pc'[q] = "drop" \/ pc'[q] = "unlinkOld"
        PROVE  q \in Others /\ pc[q] = pc'[q] /\ item'[q] = item[q] /\ job'[q] = job[q]
    BY <1>0, <2>1
  <2>2. \A j \in Jobs : InQueue(j)' = InQueue(j)
    BY DEF InQueue
  <2>3. ASSUME NEW q \in Procs, pc'[q] \in {"drop", "unlinkOld"}
        PROVE  job[q] \in Jobs /\ item[q][2] \in Names
    BY <2>1, <2>3, LiveOf, NameParts DEF Held, Holding, Loaded
  <2>4. QED
    BY <1>5, <1>8, <2>1, <2>2, <2>3 DEF Kept
<1>10. QED
  BY <1>1, <1>2, <1>3, <1>4, <1>7, <1>9 DEF SInv

\* So does a step of a spooler that is working on a job and goes on with it.
LEMMA GoesOn ==
    ASSUME IInv, NEW p \in Procs, pc[p] \in Working,
           NEW w \in {"load", "transfer", "respool"},
           pc' = [pc EXCEPT ![p] = w],
           \A q \in Procs \ {p} : job'[q] = job[q],
           w \in Loaded => job'[p] = item[p][2][1],
           UNCHANGED <<dir, serial, asked, sent, dismissed, item, mine, fresh>>
    PROVE  SInv'
<1> USE DEF IInv
<1> DEFINE Others == Procs \ {p}
<1>0. pc'[p] = w /\ \A q \in Others : pc'[q] = pc[q]
  BY DEF TInv, TypeOK
<1>1. Contents'
  BY DEF Contents
<1>2. Held'
  BY <1>0 DEF Held, Holding, Loaded, Working
<1>3. Apart'
  BY <1>0 DEF Apart, Holding, Working
<1>4. Writing'
  BY <1>0 DEF Writing
<1>5. \A j \in Jobs : Submitted(j)' = Submitted(j) /\ Done(j)' = Done(j) /\ InQueue(j)' = InQueue(j)
  BY DEF Submitted, Submitting, FirstName, Done, InQueue
<1>6. \A q \in Procs, j \in Jobs : WorksOn(q, j)' => WorksOn(q, j)
  BY <1>0 DEF WorksOn, Working
<1>7. OneCarrier'
  BY <1>5, <1>6 DEF OneCarrier, Waits
<1>8. \A n \in Names : Newer(n)' = Newer(n)
  BY DEF Newer
<1>9. Kept'
  <2>1. ASSUME NEW q \in Procs, pc'[q] = "drop" \/ pc'[q] = "unlinkOld"
        PROVE  q \in Others /\ pc[q] = pc'[q] /\ job'[q] = job[q]
    BY <1>0, <2>1
  <2>2. ASSUME NEW q \in Procs, pc'[q] \in {"drop", "unlinkOld"}
        PROVE  job[q] \in Jobs /\ item[q][2] \in Names
    BY <2>1, <2>2, LiveOf, NameParts DEF Held, Holding, Loaded
  <2>3. QED
    BY <1>5, <1>8, <2>1, <2>2 DEF Kept
<1>10. QED
  BY <1>1, <1>2, <1>3, <1>4, <1>7, <1>9 DEF SInv

\* What a spooler with a file knows.
LEMMA Has ==
    ASSUME IInv, NEW p \in Procs, pc[p] \in Holding
    PROVE  /\ item[p][2] \in Names
           /\ item[p] = Live(item[p][2])
           /\ mine[p] = Claimed(item[p][2])
           /\ dir[Claimed(item[p][2])] = item[p][2][1]
           /\ dir[Live(item[p][2])] = None
           /\ dir[Hidden(item[p][2])] = None
           /\ item[p][2][1] \in Jobs
           /\ item[p][2][2] <= serial
           /\ Exists(mine[p])
           /\ pc[p] \in Loaded => job[p] = item[p][2][1]
<1> DEFINE n == item[p][2]
<1>1. item[p] \in {"g"} \X Names /\ mine[p] = Claimed(n)
  BY DEF IInv, Held
<1>2. n \in Names /\ item[p] = Live(n)
  BY <1>1, LiveOf
<1>3. n[1] \in Jobs /\ n[2] \in Nat
  BY <1>2, NameParts
<1>4. dir[Claimed(n)] = n[1] /\ n[1] # None
  BY <1>1, <1>3, ContentAssumption DEF IInv, Held
<1>5. dir[Live(n)] = None /\ dir[Hidden(n)] = None /\ ~(n[2] > serial)
  BY <1>2, <1>4 DEF IInv, Contents
<1>6. serial \in Nat
  BY SpoolAssumption DEF IInv, TInv, TypeOK
<1>7. Exists(mine[p])
  BY <1>1, <1>2, <1>4, PathsApart DEF Exists
<1>8. pc[p] \in Loaded => job[p] = n[1]
  BY DEF IInv, Held
<1>9. n[2] <= serial
  BY <1>3, <1>5, <1>6
<1>10. QED
  BY <1>1, <1>2, <1>3, <1>4, <1>5, <1>7, <1>8, <1>9

-----------------------------------------------------------------------------
(***************************************************************************)
(* The steps that leave the directory alone.                               *)
(***************************************************************************)
LEMMA QuietSteps ==
    ASSUME IInv, NEW p \in Procs,
           \/ Start(p) \/ OpenDir(p) \/ (\E f \in Paths : Readdir(p, f)) \/ Look(p)
           \/ MarkInUse(p) \/ LoadItem(p) \/ TryLater(p)
           \/ CheckQuit(p) \/ EndPass(p) \/ Kill(p)
    PROVE  SInv'
<1> USE DEF queue, scan, sig, GoTo
<1>0. TInv
  BY DEF IInv
<1>1. CASE Start(p)
  BY <1>1, LetsGo DEF Start
<1>2. CASE OpenDir(p)
  BY <1>2, LetsGo DEF OpenDir
<1>3. ASSUME NEW f \in Paths, Readdir(p, f) PROVE SInv'
  <2>1. PICK w \in {"look", "read"} : pc' = [pc EXCEPT ![p] = w]
    BY <1>3 DEF Readdir
  <2>2. \A q \in Procs \ {p} : item'[q] = item[q]
    BY <1>0, <1>3 DEF Readdir, TInv, TypeOK
  <2>3. QED
    BY <1>3, <2>1, <2>2, LetsGo DEF Readdir
<1>4. CASE Look(p)
  <2>1. CASE Exists(item[p]) /\ item[p][2] \in due
    <3>1. mine'[p] = Claimed(item[p][2]) /\ item[p] \in {"g"} \X Names /\ item' = item
      BY <1>0, <1>4, <2>1 DEF Look, TInv, TypeOK, Shapes
    <3>2. \A q \in Procs \ {p} : mine'[q] = mine[q]
      BY <1>0, <1>4, <2>1 DEF Look, TInv, TypeOK
    <3>3. pc' = [pc EXCEPT ![p] = "claim"]
      BY <1>4, <2>1 DEF Look
    <3>4. QED
      BY <1>4, <3>1, <3>2, <3>3, LetsGo DEF Look
  <2>2. CASE ~(Exists(item[p]) /\ item[p][2] \in due)
    BY <1>4, <2>2, LetsGo DEF Look
  <2>3. QED
    BY <2>1, <2>2
<1>5. CASE MarkInUse(p)
  <2>1. pc[p] \in Working /\ "load" \notin Loaded
    BY <1>5 DEF MarkInUse, Working, Loaded
  <2>2. QED
    BY <1>5, <2>1, GoesOn DEF MarkInUse
<1>6. CASE LoadItem(p)
  <2>1. pc[p] \in Working /\ pc[p] \in Holding
    BY <1>6 DEF LoadItem, Working, Holding
  <2>2. Exists(mine[p]) /\ dir[mine[p]] = item[p][2][1] /\ dir[mine[p]] # Partial
    BY <2>1, Has, ContentAssumption
  <2>3. job' = [job EXCEPT ![p] = item[p][2][1]]
    BY <1>6, <2>2 DEF LoadItem
  <2>4. PICK w \in {"load", "transfer"} : pc' = [pc EXCEPT ![p] = w]
    BY <1>6, <2>2 DEF LoadItem
  <2>5. job'[p] = item[p][2][1] /\ \A q \in Procs \ {p} : job'[q] = job[q]
    BY <1>0, <2>3 DEF TInv, TypeOK
  <2>6. QED
    BY <1>6, <2>1, <2>4, <2>5, GoesOn DEF LoadItem
<1>7. CASE TryLater(p)
  <2>1. pc[p] \in Working /\ pc[p] \in Holding /\ pc[p] \in Loaded
    BY <1>7 DEF TryLater, Working, Holding, Loaded
  <2>2. job[p] = item[p][2][1]
    BY <2>1, Has
  <2>3. QED
    BY <1>7, <2>1, <2>2, GoesOn DEF TryLater
<1>8. ASSUME Gone(p), UNCHANGED queue PROVE SInv'
  <2>1. \A q \in Procs \ {p} : /\ item'[q] = item[q] /\ mine'[q] = mine[q]
                               /\ job'[q] = job[q] /\ fresh'[q] = fresh[q]
    BY <1>0, <1>8 DEF Gone, TInv, TypeOK
  <2>2. pc' = [pc EXCEPT ![p] = "off"]
    BY <1>8 DEF Gone
  <2>3. QED
    BY <1>8, <2>1, <2>2, LetsGo
<1>9. CASE CheckQuit(p)
  <2>1. CASE quit[p]
    BY <1>8, <1>9, <2>1 DEF CheckQuit
  <2>2. CASE ~quit[p]
    BY <1>9, <2>2, LetsGo DEF CheckQuit
  <2>3. QED
    BY <2>1, <2>2
<1>10. CASE EndPass(p)
  <2>1. CASE ~nItems[p] /\ ~GlobalSpooler
    BY <1>8, <1>10, <2>1 DEF EndPass
  <2>2. CASE ~(~nItems[p] /\ ~GlobalSpooler)
    BY <1>10, <2>2, LetsGo DEF EndPass
  <2>3. QED
    BY <2>1, <2>2
<1>11. CASE Kill(p)
  BY <1>8, <1>11 DEF Kill
<1>12. QED
  BY <1>1, <1>2, <1>3, <1>4, <1>5, <1>6, <1>7, <1>9, <1>10, <1>11

-----------------------------------------------------------------------------
(***************************************************************************)
(* Submitting.                                                             *)
(***************************************************************************)
LEMMA SubmitStep == ASSUME IInv, NEW j \in Jobs, Submit(j) PROVE SInv'
<1> USE SpoolAssumption, ContentAssumption DEF IInv
<1> DEFINE new == <<j, serial + 1>>
<1>0. TInv
  OBVIOUS
<1>1. serial \in Nat /\ serial' = serial + 1 /\ new \in Names /\ new[1] = j /\ new[2] = serial + 1
  BY DEF Submit, Names, TInv, TypeOK
<1>2. /\ dir[Live(new)] = None /\ dir[Claimed(new)] = None /\ dir[Hidden(new)] = None
  BY <1>1 DEF Contents
<1>3. \A n \in Names : /\ dir'[Live(n)] = dir[Live(n)]
                       /\ dir'[Claimed(n)] = dir[Claimed(n)]
                       /\ dir'[Hidden(n)] = IF n = new THEN Partial ELSE dir[Hidden(n)]
  BY <1>0, <1>1, PathsApart DEF Submit, TInv, TypeOK
<1>4. /\ asked'[j] = serial + 1 /\ asked[j] = 0
      /\ \A i \in Jobs \ {j} : asked'[i] = asked[i]
      /\ \A i \in Jobs : asked[i] \in Nat
  BY <1>0, <1>1 DEF Submit, TInv, TypeOK
<1>5. UNCHANGED <<pc, item, mine, job, fresh, sent, dismissed>>
  BY DEF Submit
<1>6. Contents'
  <2>1. ASSUME NEW n \in Names, n[2] > serial + 1 PROVE n[2] > serial /\ n # new
    BY <1>1, <2>1, NameParts
  <2>2. QED
    BY <1>1, <1>2, <1>3, <2>1 DEF Contents
<1>7. Held' /\ Apart'
  <2>1. \A p \in Procs : pc[p] \in Holding => dir'[mine[p]] = dir[mine[p]]
    BY <1>3, Has
  <2>2. QED
    BY <1>5, <2>1 DEF Held, Apart
<1>8. Writing'
  <2>1. \A i \in Jobs : asked'[i] <= serial'
    BY <1>1, <1>4 DEF Writing
  <2>2. ASSUME NEW p \in Procs, pc[p] = "publish"
        PROVE  /\ fresh[p][2] \in Names /\ dir[Hidden(fresh[p][2])] = Partial
               /\ fresh[p][2] # new /\ job[p] \in Jobs
               /\ asked[job[p]] < fresh[p][2][2] /\ fresh[p][2][1] = job[p]
    BY <1>2, <2>2, LiveOf, NonePartial DEF Writing, TInv, Shapes
  <2>3. ASSUME NEW p \in Procs, pc[p] = "publish" PROVE job[p] # j
    <3>1. pc[p] \in Holding /\ WorksOn(p, job[p])
      BY <2>3, Has DEF Holding, Loaded, WorksOn, Working
    <3>2. ~Submitted(j)
      BY <1>4 DEF Submitted
    <3>3. QED
      BY <3>1, <3>2 DEF OneCarrier
  <2>4. QED
    BY <1>3, <1>4, <1>5, <2>1, <2>2, <2>3 DEF Writing
<1>9. \A i \in Jobs : Submitted(i)' = Submitted(i) /\ Done(i)' = Done(i)
  <2>1. ~Submitted(j) /\ ~Submitted(j)'
    BY <1>1, <1>3, <1>4 DEF Submitted, Submitting, FirstName
  <2>2. ASSUME NEW i \in Jobs, i # j, asked[i] # 0 PROVE FirstName(i) \in Names /\ FirstName(i) # new
    BY <1>0, <2>2 DEF FirstName, Names, TInv, TypeOK
  <2>3. QED
    BY <1>3, <1>4, <1>5, <2>1, <2>2 DEF Submitted, Submitting, FirstName, Done
<1>10. OneCarrier'
  BY <1>3, <1>5, <1>9 DEF OneCarrier, Waits, WorksOn
<1>11. Kept'
  <2>1. \A n \in Names : Newer(n)' = Newer(n)
    BY <1>3 DEF Newer
  <2>2. \A i \in Jobs : InQueue(i)' = InQueue(i)
    BY <1>3 DEF InQueue
  <2>3. ASSUME NEW p \in Procs, pc[p] \in {"drop", "unlinkOld"}
        PROVE  job[p] \in Jobs /\ item[p][2] \in Names
    BY <2>3, Has DEF Holding, Loaded
  <2>4. QED
    BY <1>5, <1>9, <2>1, <2>2, <2>3 DEF Kept
<1>12. QED
  BY <1>6, <1>7, <1>8, <1>10, <1>11 DEF SInv

LEMMA SubmitEndsStep == ASSUME IInv, NEW j \in Jobs, SubmitEnds(j) PROVE SInv'
<1> USE SpoolAssumption, ContentAssumption, NonePartial DEF IInv
<1> DEFINE new == FirstName(j)
<1>0. TInv
  OBVIOUS
<1>1. new \in Names /\ new[1] = j /\ new[2] = asked[j] /\ dir[Hidden(new)] = Partial
  BY <1>0 DEF SubmitEnds, Submitting, FirstName, Names, TInv, TypeOK
<1>2. dir[Live(new)] = None /\ dir[Claimed(new)] = None
  BY <1>1 DEF Contents
<1>3. \A n \in Names : /\ dir'[Live(n)] = IF n = new THEN j ELSE dir[Live(n)]
                       /\ dir'[Claimed(n)] = dir[Claimed(n)]
                       /\ dir'[Hidden(n)] = IF n = new THEN None ELSE dir[Hidden(n)]
  BY <1>0, <1>1, PathsApart DEF SubmitEnds, TInv, TypeOK
<1>4. UNCHANGED <<serial, asked, pc, item, mine, job, fresh, sent, dismissed>>
  BY DEF SubmitEnds
<1>5. Contents'
  BY <1>1, <1>2, <1>3, <1>4 DEF Contents
<1>6. Held' /\ Apart'
  <2>1. \A p \in Procs : pc[p] \in Holding => dir'[mine[p]] = dir[mine[p]]
    BY <1>3, Has
  <2>2. QED
    BY <1>4, <2>1 DEF Held, Apart
<1>7. Writing'
  <2>1. ASSUME NEW p \in Procs, pc[p] = "publish"
        PROVE  fresh[p][2] \in Names /\ fresh[p][2] # new
    <3>1. fresh[p][2] \in Names /\ fresh[p][2][2] \in Nat /\ job[p] \in Jobs
      BY <2>1, LiveOf, NameParts DEF Writing, TInv, Shapes
    <3>2. asked[job[p]] < fresh[p][2][2] /\ fresh[p][2][1] = job[p]
      BY <2>1 DEF Writing
    <3>3. asked[j] \in Nat
      BY <1>0 DEF TInv, TypeOK
    <3>4. QED
      BY <1>1, <3>1, <3>2, <3>3
  <2>2. QED
    BY <1>3, <1>4, <2>1 DEF Writing
<1>8. /\ Submitted(j)' /\ ~Submitted(j)
      /\ \A i \in Jobs \ {j} : Submitted(i)' = Submitted(i)
      /\ \A i \in Jobs : Done(i)' = Done(i)
  <2>1. ~Submitted(j) /\ Submitted(j)'
    BY <1>1, <1>3, <1>4 DEF Submitted, Submitting, FirstName, SubmitEnds
  <2>2. ASSUME NEW i \in Jobs, i # j, asked[i] # 0 PROVE FirstName(i) \in Names /\ FirstName(i) # new
    BY <1>0, <2>2 DEF FirstName, Names, TInv, TypeOK
  <2>3. QED
    BY <1>3, <1>4, <2>1, <2>2 DEF Submitted, Submitting, FirstName, Done
<1>9. OneCarrier'
  <2>1. \A n \in Names : Waits(n)' <=> Waits(n) \/ n = new
    BY <1>3 DEF Waits
  <2>2. \A p \in Procs, i \in Jobs : WorksOn(p, i)' = WorksOn(p, i)
    BY <1>4 DEF WorksOn
  <2>3. QED
    BY <1>1, <1>4, <1>8, <2>1, <2>2 DEF OneCarrier
<1>10. Kept'
  <2>1. \A n \in Names : Newer(n) => Newer(n)'
    BY <1>2, <1>3 DEF Newer
  <2>2. \A i \in Jobs : InQueue(i) => InQueue(i)'
    BY <1>2, <1>3 DEF InQueue
  <2>3. InQueue(j)'
    BY <1>1, <1>3 DEF InQueue
  <2>4. ASSUME NEW p \in Procs, pc[p] \in {"drop", "unlinkOld"}
        PROVE  job[p] \in Jobs /\ item[p][2] \in Names
    BY <2>4, Has DEF Holding, Loaded
  <2>5. QED
    BY <1>4, <1>8, <2>1, <2>2, <2>3, <2>4 DEF Kept
<1>11. QED
  BY <1>5, <1>6, <1>7, <1>9, <1>10 DEF SInv

LEMMA SubmitFailsStep == ASSUME IInv, NEW j \in Jobs, SubmitFails(j) PROVE SInv'
<1> USE SpoolAssumption, ContentAssumption, NonePartial DEF IInv
<1> DEFINE new == FirstName(j)
<1>0. TInv
  OBVIOUS
<1>1. new \in Names /\ new[1] = j /\ new[2] = asked[j] /\ dir[Hidden(new)] = Partial
  BY <1>0 DEF SubmitFails, Submitting, FirstName, Names, TInv, TypeOK
<1>3. \A n \in Names : /\ dir'[Live(n)] = dir[Live(n)]
                       /\ dir'[Claimed(n)] = dir[Claimed(n)]
                       /\ dir'[Hidden(n)] = IF n = new THEN None ELSE dir[Hidden(n)]
  BY <1>0, <1>1, PathsApart DEF SubmitFails, TInv, TypeOK
<1>4. /\ UNCHANGED <<serial, pc, item, mine, job, fresh, sent, dismissed>>
      /\ asked'[j] = 0 /\ \A i \in Jobs \ {j} : asked'[i] = asked[i]
      /\ \A i \in Jobs : asked[i] \in Nat
      /\ serial \in Nat
  BY <1>0 DEF SubmitFails, TInv, TypeOK
<1>5. Contents'
  BY <1>1, <1>3, <1>4 DEF Contents
<1>6. Held' /\ Apart'
  <2>1. \A p \in Procs : pc[p] \in Holding => dir'[mine[p]] = dir[mine[p]]
    BY <1>3, Has
  <2>2. QED
    BY <1>4, <2>1 DEF Held, Apart
<1>7. Writing'
  <2>1. ASSUME NEW p \in Procs, pc[p] = "publish"
        PROVE  /\ fresh[p][2] \in Names /\ fresh[p][2] # new
               /\ asked'[job[p]] < fresh[p][2][2]
    <3>1. fresh[p][2] \in Names /\ fresh[p][2][2] \in Nat /\ job[p] \in Jobs
      BY <2>1, LiveOf, NameParts DEF Writing, TInv, Shapes
    <3>2. asked[job[p]] < fresh[p][2][2] /\ fresh[p][2][1] = job[p]
      BY <2>1 DEF Writing
    <3>3. fresh[p][2] # new
      BY <1>1, <1>4, <3>1, <3>2
    <3>4. asked'[job[p]] = 0 \/ asked'[job[p]] = asked[job[p]]
      BY <1>4, <3>1
    <3>5. QED
      BY <1>4, <3>1, <3>2, <3>3, <3>4
  <2>2. \A i \in Jobs : asked'[i] <= serial'
    BY <1>4 DEF Writing
  <2>3. QED
    BY <1>3, <1>4, <2>1, <2>2 DEF Writing
<1>8. \A i \in Jobs : Submitted(i)' = Submitted(i) /\ Done(i)' = Done(i)
  <2>1. ~Submitted(j) /\ ~Submitted(j)'
    BY <1>4 DEF Submitted, SubmitFails
  <2>2. ASSUME NEW i \in Jobs, i # j, asked[i] # 0 PROVE FirstName(i) \in Names /\ FirstName(i) # new
    BY <1>0, <2>2 DEF FirstName, Names, TInv, TypeOK
  <2>3. QED
    BY <1>3, <1>4, <2>1, <2>2 DEF Submitted, Submitting, FirstName, Done
<1>9. OneCarrier'
  BY <1>3, <1>4, <1>8 DEF OneCarrier, Waits, WorksOn
<1>10. Kept'
  <2>1. \A n \in Names : Newer(n)' = Newer(n)
    BY <1>3 DEF Newer
  <2>2. \A i \in Jobs : InQueue(i)' = InQueue(i)
    BY <1>3 DEF InQueue
  <2>3. ASSUME NEW p \in Procs, pc[p] \in {"drop", "unlinkOld"}
        PROVE  job[p] \in Jobs /\ item[p][2] \in Names
    BY <2>3, Has DEF Holding, Loaded
  <2>4. QED
    BY <1>4, <1>8, <2>1, <2>2, <2>3 DEF Kept
<1>11. QED
  BY <1>5, <1>6, <1>7, <1>9, <1>10 DEF SInv

\* A step that changes no variable of the invariant keeps it: the passing of
\* time, and a stutter.
LEMMA IdleStep ==
    ASSUME IInv,
           UNCHANGED <<dir, serial, asked, sent, dismissed, pc, item, mine, job, fresh>>
    PROVE  SInv'
  BY DEF IInv, SInv, Contents, Held, Apart, Writing, OneCarrier, Kept, Waits, WorksOn,
         Done, Submitted, Submitting, FirstName, Newer, InQueue

-----------------------------------------------------------------------------
(***************************************************************************)
(* Taking a job and running it.                                            *)
(***************************************************************************)
LEMMA ClaimStep == ASSUME IInv, NEW p \in Procs, Claim(p) PROVE SInv'
<1> USE SpoolAssumption, ContentAssumption DEF IInv
<1> DEFINE n == item[p][2]
<1>0. TInv
  OBVIOUS
<1>1. n \in Names /\ item[p] = Live(n) /\ mine[p] = Claimed(n) /\ item[p] \in {"g"} \X Names
  BY LiveOf DEF Claim, Held
<1>2. UNCHANGED <<serial, asked, item, mine, job, fresh, sent, dismissed>>
  BY DEF Claim
<1>3. CASE ~Exists(item[p])
  <2>1. dir' = dir /\ pc' = [pc EXCEPT ![p] = "check"]
    BY <1>3 DEF Claim, Renamed, GoTo
  <2>2. QED
    BY <1>2, <2>1, LetsGo
<1>4. CASE Exists(item[p])
  <2>1. dir[Live(n)] = n[1] /\ n[1] \in Jobs /\ n[1] # None
    BY <1>1, <1>4, NameParts DEF Exists, Contents
  <2>2. dir[Claimed(n)] = None
    BY <1>1, <2>1 DEF Contents
  <2>3. dir' = [dir EXCEPT ![Claimed(n)] = n[1], ![Live(n)] = None]
    BY <1>1, <1>4, <2>1, PathsApart DEF Claim, Renamed
  <2>4. \A m \in Names : /\ dir'[Live(m)] = IF m = n THEN None ELSE dir[Live(m)]
                         /\ dir'[Claimed(m)] = IF m = n THEN n[1] ELSE dir[Claimed(m)]
                         /\ dir'[Hidden(m)] = dir[Hidden(m)]
    BY <1>0, <1>1, <2>3, PathsApart DEF TInv, TypeOK
  <2>5. pc[p] = "claim" /\ pc'[p] = "mark" /\ \A q \in Procs \ {p} : pc'[q] = pc[q]
    BY <1>0, <1>4 DEF Claim, GoTo, TInv, TypeOK
  <2>6. Contents'
    BY <1>1, <1>2, <2>1, <2>4 DEF Contents
  <2>7. ASSUME NEW q \in Procs \ {p}, pc[q] \in Holding
        PROVE  item[q] # item[p] /\ dir'[mine[q]] = dir[mine[q]]
    <3>1. /\ item[q][2] \in Names /\ mine[q] = Claimed(item[q][2])
          /\ dir[Claimed(item[q][2])] = item[q][2][1] /\ item[q][2][1] \in Jobs
      BY <2>7, Has
    <3>2. item[q][2] # n
      BY <2>2, <3>1
    <3>3. QED
      BY <1>1, <2>4, <3>1, <3>2
  <2>8. Held'
    <3>1. dir'[mine[p]] = n[1]
      BY <1>1, <2>4
    <3>2. QED
      BY <1>1, <1>2, <2>5, <2>7, <3>1 DEF Held, Holding, Loaded
  <2>9. Apart'
    BY <1>2, <2>5, <2>7 DEF Apart, Holding
  <2>10. Writing'
    <3>1. ASSUME NEW q \in Procs, pc'[q] = "publish"
          PROVE  pc[q] = "publish" /\ fresh[q][2] \in Names
      BY <2>5, <3>1, LiveOf DEF Writing
    <3>2. QED
      BY <1>2, <2>4, <3>1 DEF Writing
  <2>11. \A j \in Jobs : Submitted(j)' = Submitted(j) /\ Done(j)' = Done(j)
    <3>1. ASSUME NEW j \in Jobs, asked[j] # 0 PROVE FirstName(j) \in Names
      BY <1>0, <3>1 DEF FirstName, Names, TInv, TypeOK
    <3>2. QED
      BY <1>2, <2>4, <3>1 DEF Submitted, Submitting, FirstName, Done
  <2>12. OneCarrier'
    <3>1. \A m \in Names : Waits(m)' <=> Waits(m) /\ m # n
      BY <2>4 DEF Waits
    <3>2. \A q \in Procs, j \in Jobs : WorksOn(q, j)' <=> WorksOn(q, j) \/ (q = p /\ j = n[1])
      BY <1>2, <2>5 DEF WorksOn, Working
    <3>3. Waits(n)
      BY <2>1 DEF Waits
    <3>4. QED
      BY <1>1, <1>2, <2>1, <2>11, <3>1, <3>2, <3>3 DEF OneCarrier
  <2>13. Kept'
    <3>1. \A m \in Names : Newer(m) => Newer(m)'
      BY <2>1, <2>4 DEF Newer
    <3>2. \A j \in Jobs : InQueue(j) => InQueue(j)'
      BY <1>1, <2>1, <2>2, <2>4 DEF InQueue
    <3>3. ASSUME NEW q \in Procs, pc'[q] \in {"drop", "unlinkOld"}
          PROVE  pc[q] = pc'[q] /\ job[q] \in Jobs /\ item[q][2] \in Names
      BY <2>5, <3>3, Has DEF Holding, Loaded
    <3>4. QED
      BY <1>2, <2>11, <3>1, <3>2, <3>3 DEF Kept
  <2>14. QED
    BY <2>6, <2>8, <2>9, <2>10, <2>12, <2>13 DEF SInv
<1>5. QED
  BY <1>3, <1>4

\* The two ways in which a job ends.
LEMMA EndStep == ASSUME IInv, NEW p \in Procs, Transferred(p) \/ Dismissed(p) PROVE SInv'
<1> USE DEF IInv
<1> DEFINE j == job[p]
<1>0. TInv
  OBVIOUS
<1>1. pc[p] = "transfer" /\ pc'[p] = "drop" /\ \A q \in Procs \ {p} : pc'[q] = pc[q]
  BY <1>0 DEF Transferred, Dismissed, GoTo, TInv, TypeOK
<1>2. UNCHANGED <<dir, serial, asked, item, mine, job, fresh>>
  BY DEF Transferred, Dismissed
<1>3. j \in Jobs /\ item[p][2][1] = j /\ WorksOn(p, j)
  BY <1>0, <1>1, Has DEF TInv, Shapes, Holding, Loaded, Working, WorksOn
<1>4. ~Done(j) /\ Submitted(j) /\ sent[j] = 0 /\ j \notin dismissed
  BY <1>0, <1>3 DEF OneCarrier, Done, TInv, TypeOK
<1>5. /\ Done(j)' /\ sent'[j] <= IF j \in dismissed' THEN 0 ELSE 1
      /\ \A i \in Jobs \ {j} : /\ Done(i)' = Done(i) /\ sent'[i] = sent[i]
                              /\ (i \in dismissed') = (i \in dismissed)
  <2>1. CASE Transferred(p)
    BY <1>0, <1>3, <1>4, <2>1 DEF Transferred, Done, TInv, TypeOK
  <2>2. CASE Dismissed(p)
    BY <1>0, <1>3, <1>4, <2>2 DEF Dismissed, Done, TInv, TypeOK
  <2>3. QED
    BY <2>1, <2>2
<1>6. Contents'
  BY <1>2 DEF Contents
<1>7. Held'
  <2>1. j = item[p][2][1]
    BY <1>3
  <2>2. QED
    BY <1>1, <1>2, <2>1 DEF Held, Holding, Loaded
<1>8. Apart'
  BY <1>1, <1>2 DEF Apart, Holding
<1>9. Writing'
  BY <1>1, <1>2 DEF Writing
<1>10. \A i \in Jobs : Submitted(i)' = Submitted(i) /\ InQueue(i)' = InQueue(i)
  BY <1>2 DEF Submitted, Submitting, FirstName, InQueue
<1>11. OneCarrier'
  <2>1. \A q \in Procs, i \in Jobs : WorksOn(q, i)' <=> WorksOn(q, i) /\ q # p
    BY <1>1, <1>2 DEF WorksOn, Working
  <2>2. \A n \in Names : Waits(n)' = Waits(n)
    BY <1>2 DEF Waits
  <2>3. QED
    BY <1>3, <1>4, <1>5, <1>10, <2>1, <2>2 DEF OneCarrier
<1>12. Kept'
  <2>1. \A n \in Names : Newer(n)' = Newer(n)
    BY <1>2 DEF Newer
  <2>2. \A i \in Jobs : Done(i) => Done(i)'
    BY <1>2, <1>5
  <2>3. ASSUME NEW q \in Procs \ {p}, pc'[q] \in {"drop", "unlinkOld"}
        PROVE  pc[q] = pc'[q] /\ job[q] \in Jobs /\ item[q][2] \in Names
    BY <1>1, <2>3, Has DEF Holding, Loaded
  <2>4. QED
    BY <1>1, <1>2, <1>5, <1>10, <2>1, <2>2, <2>3 DEF Kept
<1>13. QED
  BY <1>6, <1>7, <1>8, <1>9, <1>11, <1>12 DEF SInv

\* FTPInitConnectionInfo fails: the job goes back to its name, or stays in its
\* x file, and the spooler leaves.
LEMMA InitFailsStep == ASSUME IInv, NEW p \in Procs, InitFails(p) PROVE SInv'
<1> USE SpoolAssumption, ContentAssumption DEF IInv
<1> DEFINE n == item[p][2]
<1>0. TInv
  OBVIOUS
<1>1. UNCHANGED <<serial, asked, sent, dismissed>>
  BY DEF InitFails
<1>2. /\ pc' = [pc EXCEPT ![p] = "off"]
      /\ pc[p] = "transfer" /\ pc'[p] = "off" /\ \A q \in Procs \ {p} : pc'[q] = pc[q]
  BY <1>0 DEF InitFails, Gone, TInv, TypeOK
<1>3. \A q \in Procs \ {p} : /\ item'[q] = item[q] /\ mine'[q] = mine[q]
                             /\ job'[q] = job[q] /\ fresh'[q] = fresh[q]
  BY <1>0 DEF InitFails, Gone, TInv, TypeOK
<1>4. CASE ~itemInUse[p]
  <2>1. dir' = dir
    BY <1>4 DEF InitFails, ExitStuff
  <2>2. QED
    BY <1>1, <1>2, <1>3, <2>1, LetsGo
<1>5. CASE itemInUse[p]
  <2>1. /\ n \in Names /\ item[p] = Live(n) /\ mine[p] = Claimed(n)
        /\ dir[Claimed(n)] = n[1] /\ n[1] \in Jobs /\ Exists(mine[p])
        /\ dir[Live(n)] = None /\ dir[Hidden(n)] = None /\ n[2] <= serial
    BY <1>2, Has DEF Holding
  <2>2. dir' = [dir EXCEPT ![Live(n)] = n[1], ![Claimed(n)] = None]
    BY <1>5, <2>1, PathsApart DEF InitFails, ExitStuff, Renamed
  <2>3. \A m \in Names : /\ dir'[Live(m)] = IF m = n THEN n[1] ELSE dir[Live(m)]
                         /\ dir'[Claimed(m)] = IF m = n THEN None ELSE dir[Claimed(m)]
                         /\ dir'[Hidden(m)] = dir[Hidden(m)]
    BY <1>0, <2>1, <2>2, PathsApart DEF TInv, TypeOK
  <2>4. serial \in Nat /\ n[2] \in Nat
    BY <1>0, <2>1, NameParts DEF TInv, TypeOK
  <2>5. Contents'
    BY <1>1, <2>1, <2>3, <2>4 DEF Contents
  <2>6. ASSUME NEW q \in Procs \ {p}, pc[q] \in Holding
        PROVE  dir'[mine[q]] = dir[mine[q]]
    <3>1. item[q][2] \in Names /\ mine[q] = Claimed(item[q][2]) /\ item[q] = Live(item[q][2])
      BY <2>6, Has
    <3>2. item[q] # item[p]
      BY <1>2, <2>6 DEF Apart, Holding
    <3>3. item[q][2] # n
      BY <2>1, <3>1, <3>2
    <3>4. QED
      BY <2>1, <2>3, <3>1, <3>3
  <2>7. Held'
    BY <1>2, <1>3, <2>6 DEF Held, Holding, Loaded
  <2>8. Apart'
    BY <1>2, <1>3 DEF Apart, Holding
  <2>9. Writing'
    <3>1. ASSUME NEW q \in Procs, pc'[q] = "publish"
          PROVE  q # p /\ pc[q] = "publish" /\ fresh[q][2] \in Names
      BY <1>2, <3>1, LiveOf DEF Writing
    <3>2. QED
      BY <1>1, <1>3, <2>3, <3>1 DEF Writing
  <2>10. \A j \in Jobs : Submitted(j)' = Submitted(j) /\ Done(j)' = Done(j)
    <3>1. ASSUME NEW j \in Jobs, asked[j] # 0 PROVE FirstName(j) \in Names
      BY <1>0, <3>1 DEF FirstName, Names, TInv, TypeOK
    <3>2. QED
      BY <1>1, <2>3, <3>1 DEF Submitted, Submitting, FirstName, Done
  <2>11. OneCarrier'
    <3>1. \A m \in Names : Waits(m)' <=> Waits(m) \/ m = n
      BY <2>1, <2>3 DEF Waits
    <3>2. \A q \in Procs, j \in Jobs : WorksOn(q, j)' <=> WorksOn(q, j) /\ q # p
      BY <1>2, <1>3 DEF WorksOn, Working
    <3>3. WorksOn(p, n[1])
      BY <1>2 DEF WorksOn, Working
    <3>4. QED
      BY <1>1, <2>1, <2>10, <3>1, <3>2, <3>3 DEF OneCarrier
  <2>12. Kept'
    <3>1. \A m \in Names : Newer(m) => Newer(m)'
      BY <2>1, <2>3 DEF Newer
    <3>2. \A j \in Jobs : InQueue(j) => InQueue(j)'
      BY <2>1, <2>3 DEF InQueue
    <3>3. ASSUME NEW q \in Procs, pc'[q] \in {"drop", "unlinkOld"}
          PROVE  q # p /\ pc[q] = pc'[q] /\ job[q] \in Jobs /\ item[q][2] \in Names
      BY <1>2, <3>3, Has DEF Holding, Loaded
    <3>4. QED
      BY <1>3, <2>10, <3>1, <3>2, <3>3 DEF Kept
  <2>13. QED
    BY <2>5, <2>7, <2>8, <2>9, <2>11, <2>12 DEF SInv
<1>6. QED
  BY <1>4, <1>5

-----------------------------------------------------------------------------
(***************************************************************************)
(* Spooling a job again.                                                   *)
(***************************************************************************)
LEMMA RespoolWriteStep == ASSUME IInv, NEW p \in Procs, RespoolWrite(p) PROVE SInv'
<1> USE SpoolAssumption, ContentAssumption, NonePartial DEF IInv
<1> DEFINE j == job[p]
           new == <<j, serial + 1>>
<1>0. TInv
  OBVIOUS
<1>1. /\ pc[p] = "respool" /\ pc'[p] = "publish"
      /\ \A q \in Procs \ {p} : pc'[q] = pc[q]
  BY <1>0 DEF RespoolWrite, GoTo, TInv, TypeOK
<1>2. /\ j \in Jobs /\ item[p][2][1] = j /\ item[p][2] \in Names
      /\ item[p][2][2] <= serial
  BY <1>0, <1>1, Has DEF TInv, Shapes, Holding, Loaded
<1>3. /\ serial \in Nat /\ serial' = serial + 1
      /\ new \in Names /\ new[1] = j /\ new[2] = serial + 1
  BY <1>0, <1>2 DEF RespoolWrite, Names, TInv, TypeOK
<1>4. dir[Live(new)] = None /\ dir[Claimed(new)] = None /\ dir[Hidden(new)] = None
  BY <1>3 DEF Contents
<1>5. \A n \in Names : /\ dir'[Live(n)] = dir[Live(n)]
                       /\ dir'[Claimed(n)] = dir[Claimed(n)]
                       /\ dir'[Hidden(n)] = IF n = new THEN Partial ELSE dir[Hidden(n)]
  BY <1>0, <1>3, PathsApart DEF RespoolWrite, TInv, TypeOK
<1>6. UNCHANGED <<asked, item, mine, job, sent, dismissed>>
  BY DEF RespoolWrite
<1>7. fresh'[p] = Live(new) /\ \A q \in Procs \ {p} : fresh'[q] = fresh[q]
  BY <1>0 DEF RespoolWrite, TInv, TypeOK
<1>8. Contents'
  <2>1. ASSUME NEW n \in Names, n[2] > serial + 1 PROVE n[2] > serial /\ n # new
    BY <1>3, <2>1, NameParts
  <2>2. QED
    BY <1>3, <1>4, <1>5, <2>1 DEF Contents
<1>9. Held' /\ Apart'
  <2>1. \A q \in Procs : pc[q] \in Holding => dir'[mine[q]] = dir[mine[q]]
    BY <1>5, Has
  <2>2. Held'
    BY <1>1, <1>6, <2>1 DEF Held, Holding, Loaded
  <2>3. Apart'
    BY <1>1, <1>6 DEF Apart, Holding
  <2>4. QED
    BY <2>2, <2>3
<1>10. Writing'
  <2>1. \A i \in Jobs : asked[i] \in Nat /\ asked[i] <= serial
    BY <1>0 DEF Writing, TInv, TypeOK
  <2>2. /\ fresh'[p] \in {"g"} \X Names /\ fresh'[p][2] = new
        /\ dir'[Hidden(new)] = Partial
    BY <1>3, <1>5, <1>7 DEF Live
  <2>3. asked[j] < new[2] /\ new[2] > item[p][2][2]
    BY <1>2, <1>3, <2>1, NameParts
  <2>4. ASSUME NEW q \in Procs \ {p}, pc[q] = "publish"
        PROVE  /\ fresh[q][2] \in Names /\ fresh[q][2] # new /\ fresh[q] # Live(new)
               /\ dir'[Hidden(fresh[q][2])] = Partial
    <3>1. fresh[q][2] \in Names /\ dir[Hidden(fresh[q][2])] = Partial
      BY <2>4, LiveOf DEF Writing
    <3>2. fresh[q][2] # new
      BY <1>4, <3>1
    <3>3. Live(new)[2] = new
      BY DEF Live
    <3>4. dir'[Hidden(fresh[q][2])] = Partial
      BY <1>5, <3>1, <3>2
    <3>5. QED
      BY <3>1, <3>2, <3>3, <3>4
  <2>5. \A i \in Jobs : asked'[i] <= serial'
    BY <1>3, <1>6, <2>1
  <2>6. ASSUME NEW q \in Procs, pc'[q] = "publish"
        PROVE  /\ fresh'[q] \in {"g"} \X Names
               /\ fresh'[q][2][1] = job'[q]
               /\ fresh'[q][2][2] > item'[q][2][2]
               /\ dir'[Hidden(fresh'[q][2])] = Partial
               /\ asked'[job'[q]] < fresh'[q][2][2]
    <3>1. CASE q = p
      BY <1>3, <1>6, <2>2, <2>3, <3>1
    <3>2. CASE q # p
      BY <1>1, <1>6, <1>7, <2>4, <2>6, <3>2 DEF Writing
    <3>3. QED
      BY <3>1, <3>2
  <2>7. ASSUME NEW q \in Procs, NEW r \in Procs, q # r, pc'[q] = "publish", pc'[r] = "publish"
        PROVE  fresh'[q] # fresh'[r]
    BY <1>1, <1>7, <2>4, <2>7 DEF Writing
  <2>8. QED
    BY <2>5, <2>6, <2>7 DEF Writing
<1>11. \A i \in Jobs : Submitted(i)' = Submitted(i) /\ Done(i)' = Done(i)
  <2>1. ASSUME NEW i \in Jobs, asked[i] # 0 PROVE FirstName(i) \in Names /\ FirstName(i) # new
    <3>1. asked[i] \in Nat /\ asked[i] <= serial
      BY <1>0 DEF Writing, TInv, TypeOK
    <3>2. QED
      BY <1>0, <1>3, <2>1, <3>1 DEF FirstName, Names, TInv, TypeOK
  <2>2. QED
    BY <1>5, <1>6, <2>1 DEF Submitted, Submitting, FirstName, Done
<1>12. OneCarrier'
  <2>1. \A q \in Procs, i \in Jobs : WorksOn(q, i)' = WorksOn(q, i)
    BY <1>1, <1>6 DEF WorksOn, Working
  <2>2. \A n \in Names : Waits(n)' = Waits(n)
    BY <1>5 DEF Waits
  <2>3. QED
    BY <1>6, <1>11, <2>1, <2>2 DEF OneCarrier
<1>13. Kept'
  <2>1. \A n \in Names : Newer(n)' = Newer(n)
    BY <1>5 DEF Newer
  <2>2. \A i \in Jobs : InQueue(i)' = InQueue(i)
    BY <1>5 DEF InQueue
  <2>3. ASSUME NEW q \in Procs, pc'[q] \in {"drop", "unlinkOld"}
        PROVE  pc[q] = pc'[q] /\ job[q] \in Jobs /\ item[q][2] \in Names
    BY <1>1, <2>3, Has DEF Holding, Loaded
  <2>4. QED
    BY <1>6, <1>11, <2>1, <2>2, <2>3 DEF Kept
<1>14. QED
  BY <1>8, <1>9, <1>10, <1>12, <1>13 DEF SInv

LEMMA RespoolPublishStep == ASSUME IInv, NEW p \in Procs, RespoolPublish(p) PROVE SInv'
<1> USE SpoolAssumption, ContentAssumption, NonePartial DEF IInv
<1> DEFINE j == job[p]
           old == item[p][2]
           new == fresh[p][2]
<1>0. TInv
  OBVIOUS
<1>1. /\ pc[p] = "publish" /\ pc'[p] = "unlinkOld"
      /\ \A q \in Procs \ {p} : pc'[q] = pc[q]
  BY <1>0 DEF RespoolPublish, GoTo, TInv, TypeOK
<1>2. /\ new \in Names /\ fresh[p] = Live(new) /\ new[1] = j /\ new[2] > old[2]
      /\ dir[Hidden(new)] = Partial /\ asked[j] < new[2]
  BY <1>1, LiveOf DEF Writing
<1>3. /\ j \in Jobs /\ j # None /\ old[1] = j /\ old \in Names /\ dir[Claimed(old)] = j
      /\ WorksOn(p, j)
  BY <1>0, <1>1, Has DEF TInv, Shapes, Holding, Loaded, WorksOn, Working
<1>4. dir[Live(new)] = None /\ dir[Claimed(new)] = None
  BY <1>2 DEF Contents
<1>5. \A n \in Names : /\ dir'[Live(n)] = IF n = new THEN j ELSE dir[Live(n)]
                       /\ dir'[Claimed(n)] = dir[Claimed(n)]
                       /\ dir'[Hidden(n)] = IF n = new THEN None ELSE dir[Hidden(n)]
  BY <1>0, <1>2, PathsApart DEF RespoolPublish, TInv, TypeOK
<1>6. UNCHANGED <<serial, asked, item, mine, job, fresh, sent, dismissed>>
  BY DEF RespoolPublish
<1>7. Contents'
  BY <1>2, <1>4, <1>5, <1>6 DEF Contents
<1>8. Held' /\ Apart'
  <2>1. \A q \in Procs : pc[q] \in Holding => dir'[mine[q]] = dir[mine[q]]
    BY <1>5, Has
  <2>2. Held'
    BY <1>1, <1>6, <2>1 DEF Held, Holding, Loaded
  <2>3. Apart'
    BY <1>1, <1>6 DEF Apart, Holding
  <2>4. QED
    BY <2>2, <2>3
<1>9. Writing'
  <2>1. ASSUME NEW q \in Procs, pc'[q] = "publish"
        PROVE  q # p /\ pc[q] = "publish" /\ fresh[q][2] \in Names /\ fresh[q][2] # new
    <3>1. q # p /\ pc[q] = "publish"
      BY <1>1, <2>1
    <3>2. fresh[q][2] \in Names /\ fresh[q] = Live(fresh[q][2])
      BY <3>1, LiveOf DEF Writing
    <3>3. fresh[q] # fresh[p]
      BY <1>1, <3>1 DEF Writing
    <3>4. QED
      BY <1>2, <3>1, <3>2, <3>3
  <2>2. QED
    BY <1>5, <1>6, <2>1 DEF Writing
<1>10. \A i \in Jobs : Submitted(i)' = Submitted(i) /\ Done(i)' = Done(i)
  <2>1. ASSUME NEW i \in Jobs, asked[i] # 0 PROVE FirstName(i) \in Names /\ FirstName(i) # new
    <3>1. FirstName(i) \in Names /\ FirstName(i)[1] = i /\ FirstName(i)[2] = asked[i]
      BY <1>0, <2>1 DEF FirstName, Names, TInv, TypeOK
    <3>2. asked[i] \in Nat
      BY <1>0 DEF TInv, TypeOK
    <3>3. asked[j] # new[2]
      BY <1>0, <1>2, <1>3, NameParts DEF TInv, TypeOK
    <3>4. QED
      BY <1>2, <3>1, <3>2, <3>3
  <2>2. QED
    BY <1>5, <1>6, <2>1 DEF Submitted, Submitting, FirstName, Done
<1>11. OneCarrier'
  <2>1. \A q \in Procs, i \in Jobs : WorksOn(q, i)' <=> WorksOn(q, i) /\ q # p
    BY <1>1, <1>6 DEF WorksOn, Working
  <2>2. \A n \in Names : Waits(n)' <=> Waits(n) \/ n = new
    BY <1>3, <1>5 DEF Waits
  <2>3. QED
    BY <1>2, <1>3, <1>6, <1>10, <2>1, <2>2 DEF OneCarrier
<1>12. Kept'
  <2>1. \A n \in Names : Newer(n) => Newer(n)'
    BY <1>3, <1>5 DEF Newer
  <2>2. Newer(old)'
    BY <1>2, <1>3, <1>5, <1>6 DEF Newer
  <2>3. \A i \in Jobs : InQueue(i) => InQueue(i)'
    BY <1>4, <1>5 DEF InQueue
  <2>4. ASSUME NEW q \in Procs \ {p}, pc'[q] \in {"drop", "unlinkOld"}
        PROVE  pc[q] = pc'[q] /\ job[q] \in Jobs /\ item[q][2] \in Names
    BY <1>1, <2>4, Has DEF Holding, Loaded
  <2>5. QED
    BY <1>1, <1>6, <1>10, <2>1, <2>2, <2>3, <2>4 DEF Kept
<1>13. QED
  BY <1>7, <1>8, <1>9, <1>11, <1>12 DEF SInv

LEMMA RespoolFailsStep == ASSUME IInv, NEW p \in Procs, RespoolFails(p) PROVE SInv'
<1> USE SpoolAssumption, ContentAssumption, NonePartial DEF IInv
<1> DEFINE new == fresh[p][2]
<1>0. TInv
  OBVIOUS
<1>1. UNCHANGED <<serial, asked, sent, dismissed>>
  BY DEF RespoolFails
<1>2. /\ pc' = [pc EXCEPT ![p] = "off"]
      /\ pc'[p] = "off" /\ \A q \in Procs \ {p} : pc'[q] = pc[q]
  BY <1>0 DEF RespoolFails, Gone, TInv, TypeOK
<1>3. \A q \in Procs \ {p} : /\ item'[q] = item[q] /\ mine'[q] = mine[q]
                             /\ job'[q] = job[q] /\ fresh'[q] = fresh[q]
  BY <1>0 DEF RespoolFails, Gone, TInv, TypeOK
<1>4. CASE pc[p] # "publish"
  <2>1. dir' = dir
    BY <1>4 DEF RespoolFails
  <2>2. QED
    BY <1>1, <1>2, <1>3, <2>1, LetsGo
<1>5. CASE pc[p] = "publish"
  <2>1. new \in Names /\ fresh[p] = Live(new) /\ dir[Hidden(new)] = Partial
        /\ new[1] = job[p] /\ asked[job[p]] < new[2] /\ job[p] \in Jobs
    BY <1>0, <1>5, LiveOf DEF Writing, TInv, Shapes
  <2>2. \A n \in Names : /\ dir'[Live(n)] = dir[Live(n)]
                         /\ dir'[Claimed(n)] = dir[Claimed(n)]
                         /\ dir'[Hidden(n)] = IF n = new THEN None ELSE dir[Hidden(n)]
    BY <1>0, <1>5, <2>1, PathsApart DEF RespoolFails, TInv, TypeOK
  <2>3. Contents'
    BY <1>1, <2>2 DEF Contents
  <2>4. Held' /\ Apart'
    <3>1. \A q \in Procs : pc[q] \in Holding => dir'[mine[q]] = dir[mine[q]]
      BY <2>2, Has
    <3>2. Held'
      BY <1>2, <1>3, <3>1 DEF Held, Holding, Loaded
    <3>3. Apart'
      BY <1>2, <1>3 DEF Apart, Holding
    <3>4. QED
      BY <3>2, <3>3
  <2>5. Writing'
    <3>1. ASSUME NEW q \in Procs, pc'[q] = "publish"
          PROVE  q # p /\ pc[q] = "publish" /\ fresh[q][2] \in Names /\ fresh[q][2] # new
      <4>1. q # p /\ pc[q] = "publish"
        BY <1>2, <3>1
      <4>2. fresh[q][2] \in Names /\ fresh[q] = Live(fresh[q][2])
        BY <4>1, LiveOf DEF Writing
      <4>3. fresh[q] # fresh[p]
        BY <1>5, <4>1 DEF Writing
      <4>4. QED
        BY <2>1, <4>1, <4>2, <4>3
    <3>2. QED
      BY <1>1, <1>3, <2>2, <3>1 DEF Writing
  <2>6. \A i \in Jobs : Submitted(i)' = Submitted(i) /\ Done(i)' = Done(i)
    <3>1. ASSUME NEW i \in Jobs, asked[i] # 0 PROVE FirstName(i) \in Names /\ FirstName(i) # new
      <4>1. FirstName(i) \in Names /\ FirstName(i)[1] = i /\ FirstName(i)[2] = asked[i]
        BY <1>0, <3>1 DEF FirstName, Names, TInv, TypeOK
      <4>2. asked[job[p]] # new[2]
        BY <1>0, <2>1, NameParts DEF TInv, TypeOK
      <4>3. QED
        BY <2>1, <4>1, <4>2
    <3>2. QED
      BY <1>1, <2>2, <3>1 DEF Submitted, Submitting, FirstName, Done
  <2>7. OneCarrier'
    <3>1. \A q \in Procs, i \in Jobs : WorksOn(q, i)' => WorksOn(q, i)
      BY <1>2, <1>3 DEF WorksOn, Working
    <3>2. \A n \in Names : Waits(n)' = Waits(n)
      BY <2>2 DEF Waits
    <3>3. QED
      BY <1>1, <2>6, <3>1, <3>2 DEF OneCarrier
  <2>8. Kept'
    <3>1. \A n \in Names : Newer(n)' = Newer(n)
      BY <2>2 DEF Newer
    <3>2. \A i \in Jobs : InQueue(i)' = InQueue(i)
      BY <2>2 DEF InQueue
    <3>3. ASSUME NEW q \in Procs, pc'[q] \in {"drop", "unlinkOld"}
          PROVE  q # p /\ pc[q] = pc'[q] /\ job[q] \in Jobs /\ item[q][2] \in Names
      BY <1>2, <3>3, Has DEF Holding, Loaded
    <3>4. QED
      BY <1>3, <2>6, <3>1, <3>2, <3>3 DEF Kept
  <2>9. QED
    BY <2>3, <2>4, <2>5, <2>7, <2>8 DEF SInv
<1>6. QED
  BY <1>4, <1>5

-----------------------------------------------------------------------------
(***************************************************************************)
(* Deleting the old file.                                                  *)
(***************************************************************************)
LEMMA UnlinkStep ==
    ASSUME IInv, NEW p \in Procs, UnlinkOld(p) \/ UnlinkDone(p)
    PROVE  SInv'
<1> USE SpoolAssumption, ContentAssumption DEF IInv
<1> DEFINE j == job[p]
           n == item[p][2]
<1>0. TInv
  OBVIOUS
<1>1. PICK may : Unlink(p, may)
  BY DEF UnlinkOld, UnlinkDone
<1>2. pc[p] \in {"drop", "unlinkOld"}
  BY DEF UnlinkOld, UnlinkDone
<1>3. /\ n \in Names /\ item[p] = Live(n) /\ mine[p] = Claimed(n) /\ Exists(mine[p])
      /\ j = n[1] /\ n[1] \in Jobs /\ dir[Claimed(n)] = n[1]
  BY <1>2, Has DEF Holding, Loaded
<1>4. /\ pc'[p] = "check" /\ \A q \in Procs \ {p} : pc'[q] = pc[q]
      /\ UNCHANGED <<serial, asked, item, mine, job, fresh, sent, dismissed>>
  BY <1>0, <1>1, <1>3 DEF Unlink, GoTo, scan, TInv, TypeOK
<1>5. \A m \in Names : /\ dir'[Live(m)] = dir[Live(m)]
                       /\ dir'[Claimed(m)] = IF m = n THEN None ELSE dir[Claimed(m)]
                       /\ dir'[Hidden(m)] = dir[Hidden(m)]
  BY <1>0, <1>1, <1>3, PathsApart DEF Unlink, TInv, TypeOK
<1>6. Done(j) \/ Newer(n)
  BY <1>2 DEF Kept
<1>7. Contents'
  BY <1>4, <1>5 DEF Contents
<1>8. Held' /\ Apart'
  <2>1. ASSUME NEW q \in Procs \ {p}, pc[q] \in Holding
        PROVE  dir'[mine[q]] = dir[mine[q]]
    <3>1. item[q][2] \in Names /\ mine[q] = Claimed(item[q][2]) /\ item[q] = Live(item[q][2])
      BY <2>1, Has
    <3>2. item[q] # item[p]
      BY <1>2, <2>1 DEF Apart, Holding
    <3>3. QED
      BY <1>3, <1>5, <3>1, <3>2
  <2>2. Held'
    BY <1>4, <2>1 DEF Held, Holding, Loaded
  <2>3. Apart'
    BY <1>4 DEF Apart, Holding
  <2>4. QED
    BY <2>2, <2>3
<1>9. Writing'
  <2>1. ASSUME NEW q \in Procs, pc'[q] = "publish"
        PROVE  pc[q] = "publish" /\ fresh[q][2] \in Names
    BY <1>4, <2>1, LiveOf DEF Writing
  <2>2. QED
    BY <1>4, <1>5, <2>1 DEF Writing
<1>10. \A i \in Jobs : Submitted(i)' = Submitted(i) /\ Done(i)' = Done(i)
  <2>1. ASSUME NEW i \in Jobs, asked[i] # 0 PROVE FirstName(i) \in Names
    BY <1>0, <2>1 DEF FirstName, Names, TInv, TypeOK
  <2>2. QED
    BY <1>4, <1>5, <2>1 DEF Submitted, Submitting, FirstName, Done
<1>11. OneCarrier'
  <2>1. \A q \in Procs, i \in Jobs : WorksOn(q, i)' => WorksOn(q, i)
    BY <1>4 DEF WorksOn, Working
  <2>2. \A m \in Names : Waits(m)' = Waits(m)
    BY <1>5 DEF Waits
  <2>3. QED
    BY <1>4, <1>10, <2>1, <2>2 DEF OneCarrier
<1>12. \A m \in Names : Newer(m) => Newer(m)' \/ (m[1] = j /\ Done(j))
  <2>1. ASSUME NEW m \in Names, Newer(m), ~Newer(m)' PROVE m[1] = j /\ Done(j)
    <3>1. m[1] = n[1] /\ n[2] > m[2]
      BY <1>5, <2>1 DEF Newer
    <3>2. CASE Done(j)
      BY <1>3, <3>1, <3>2
    <3>3. CASE Newer(n)
      <4>1. PICK k \in Names : /\ k[1] = n[1] /\ k[2] > n[2]
                               /\ dir[Live(k)] # None \/ dir[Claimed(k)] # None
        BY <3>3 DEF Newer
      <4>2. m[2] \in Nat /\ n[2] \in Nat /\ k[2] \in Nat
        BY <1>3, <4>1, NameParts
      <4>3. k # n /\ k[1] = m[1] /\ k[2] > m[2]
        BY <3>1, <4>1, <4>2
      <4>4. Newer(m)'
        BY <1>5, <4>1, <4>3 DEF Newer
      <4>5. QED
        BY <2>1, <4>4
    <3>4. QED
      BY <1>6, <3>2, <3>3
  <2>2. QED
    BY <2>1
<1>13. Kept'
  <2>1. ASSUME NEW i \in Jobs, InQueue(i), ~Done(i) PROVE InQueue(i)'
    <3>1. PICK m \in Names : i \in {dir[Live(m)], dir[Claimed(m)]}
      BY <2>1 DEF InQueue
    <3>2. CASE dir[Live(m)] = i \/ m # n
      BY <1>5, <3>1, <3>2 DEF InQueue
    <3>3. CASE m = n /\ dir[Claimed(m)] = i
      <4>1. Newer(n) /\ i = n[1]
        BY <1>3, <1>6, <2>1, <3>3
      <4>2. PICK k \in Names : /\ k[1] = n[1] /\ k[2] > n[2]
                               /\ dir[Live(k)] # None \/ dir[Claimed(k)] # None
        BY <4>1 DEF Newer
      <4>3. k # n
        BY <1>3, <4>2, NameParts
      <4>4. i \in {dir[Live(k)], dir[Claimed(k)]}
        BY <4>1, <4>2 DEF Contents
      <4>5. QED
        BY <1>5, <4>3, <4>4 DEF InQueue
    <3>4. QED
      BY <3>1, <3>2, <3>3
  <2>2. ASSUME NEW q \in Procs, pc'[q] \in {"drop", "unlinkOld"}
        PROVE  /\ pc[q] = pc'[q] /\ job[q] \in Jobs /\ item[q][2] \in Names
               /\ job[q] = item[q][2][1]
    BY <1>4, <2>2, Has DEF Holding, Loaded
  <2>3. ASSUME NEW q \in Procs, pc'[q] = "unlinkOld"
        PROVE  Done(job[q]) \/ Newer(item[q][2])'
    BY <1>4, <1>12, <2>2, <2>3 DEF Kept
  <2>4. ASSUME NEW q \in Procs, pc'[q] = "drop" PROVE Done(job[q])
    BY <2>2, <2>4 DEF Kept
  <2>5. QED
    BY <1>4, <1>10, <2>1, <2>2, <2>3, <2>4 DEF Kept
<1>14. QED
  BY <1>7, <1>8, <1>9, <1>11, <1>13 DEF SInv

-----------------------------------------------------------------------------
LEMMA NextIInv == ASSUME ~MaySignal, IInv, [Next]_vars PROVE IInv'
<1>1. TInv'
  BY NextTInv DEF IInv
<1>2. SInv'
  <2>1. ASSUME NEW j \in Jobs, Submit(j) \/ SubmitEnds(j) \/ SubmitFails(j) PROVE SInv'
    BY <2>1, SubmitStep, SubmitEndsStep, SubmitFailsStep
  <2>2. ASSUME NEW n \in Names, ComesDue(n) PROVE SInv'
    BY <2>2, IdleStep DEF ComesDue
  <2>3. ASSUME NEW p \in Procs, Start(p) \/ Runs(p) \/ InitFails(p) \/ RespoolFails(p)
        PROVE  SInv'
    BY <2>3, QuietSteps, ClaimStep, EndStep, InitFailsStep, RespoolWriteStep,
       RespoolPublishStep, RespoolFailsStep, UnlinkStep DEF Runs
  <2>4. ASSUME NEW p \in Procs, SigExit(p) \/ Kill(p) PROVE SInv'
    BY <2>4, QuietSteps DEF SigExit
  <2>5. CASE UNCHANGED vars
    BY <2>5, IdleStep DEF vars, queue
  <2>6. QED
    BY <2>1, <2>2, <2>3, <2>4, <2>5 DEF Next
<1>3. QED
  BY <1>1, <1>2 DEF IInv, SInv

LEMMA AlwaysIInv == ASSUME ~MaySignal PROVE Spec => []IInv
<1>1. IInv /\ [Next]_vars => IInv'
  BY NextIInv
<1>2. QED
  BY InitIInv, <1>1, PTL DEF Spec

-----------------------------------------------------------------------------
\* Of several spoolers, of which any may die at any point, no two have the
\* same job file, and each has the one it believes to have.
THEOREM AlwaysOneHolder == ASSUME ~MaySignal PROVE Spec => []OneHolder
<1>1. IInv => OneHolder
  <2> SUFFICES ASSUME IInv, NEW p \in Procs, pc[p] \in Holding
               PROVE  /\ Exists(mine[p])
                      /\ \A q \in Procs \ {p} : pc[q] \in Holding => mine[q] # mine[p]
    BY DEF OneHolder
  <2>1. ASSUME NEW q \in Procs \ {p}, pc[q] \in Holding PROVE mine[q] # mine[p]
    <3>1. item[q] # item[p]
      BY <2>1 DEF IInv, Apart
    <3>2. item[q][2] # item[p][2]
      BY <2>1, <3>1, Has
    <3>3. QED
      BY <2>1, <3>2, Has, PathsApart
  <2>2. QED
    BY <2>1, Has
<1>2. QED
  BY AlwaysIInv, <1>1, PTL

\* No job is run by two spoolers at a time, or after it is done with.
THEOREM AlwaysRunOnce == ASSUME ~MaySignal PROVE Spec => []RunOnce
<1>1. IInv => RunOnce
  <2> SUFFICES ASSUME IInv PROVE RunOnce
    OBVIOUS
  <2>1. ASSUME NEW p \in Procs, pc[p] = "transfer" PROVE job[p] \in Jobs /\ WorksOn(p, job[p])
    BY <2>1, Has DEF Holding, Loaded, WorksOn, Working
  <2>2. QED
    BY <2>1 DEF RunOnce, IInv, OneCarrier
<1>2. QED
  BY AlwaysIInv, <1>1, PTL

\* A job that was submitted stays in the queue until it is done with, whenever
\* spoolers die and whatever fails.
THEOREM AlwaysNoJobLost == ASSUME ~MaySignal PROVE Spec => []NoJobLost
<1>1. IInv => NoJobLost
  BY DEF IInv, Kept, NoJobLost, Done
<1>2. QED
  BY AlwaysIInv, <1>1, PTL

\* A job waits under one name at most, also after it was put back.
THEOREM AlwaysOneEntry == ASSUME ~MaySignal PROVE Spec => []OneEntry
<1>1. IInv => OneEntry
  <2> SUFFICES ASSUME IInv, NEW m \in Names, NEW n \in Names,
                      dir[Live(m)] = dir[Live(n)], dir[Live(m)] \in Jobs
               PROVE  m = n
    BY DEF OneEntry
  <2>1. dir[Live(m)] = m[1] /\ dir[Live(n)] = n[1]
    BY ContentAssumption DEF IInv, Contents
  <2>2. Waits(m) /\ Waits(n)
    BY ContentAssumption DEF Waits
  <2>3. QED
    BY <2>1, <2>2 DEF IInv, OneCarrier
<1>2. QED
  BY AlwaysIInv, <1>1, PTL
-----------------------------------------------------------------------------
(***************************************************************************)
(* The spool directory implements the queue of JobQueue, for any number of *)
(* spoolers and jobs.  Any spooler may die at any point and any write may  *)
(* fail, but no signal arrives.                                            *)
(***************************************************************************)
\* The state of a job and who has it, in the terms of the invariant: a
\* spooler that works on a job that is not done is one that holds it.
Waiting(j) == \E n \in Names : n[1] = j /\ Waits(n)
Workers(j) == {p \in Procs : WorksOn(p, j)}

AbsState(j) ==
    IF Done(j) THEN "done"
    ELSE IF ~Submitted(j) THEN "new"
    ELSE IF Waiting(j) THEN "waiting"
    ELSE IF Workers(j) # {} THEN "taken" ELSE "stuck"

QState  == [j \in Jobs |-> AbsState(j)]
QWorker == [j \in Jobs |-> Workers(j)]

Mapped ==
    /\ QState = [j \in Jobs |-> StateOf(j)]
    /\ QWorker = [j \in Jobs |-> IF StateOf(j) = "taken" THEN HolderOf(j) ELSE {}]

LEMMA IInvMapped == IInv => Mapped
<1> SUFFICES ASSUME IInv, NEW j \in Jobs
             PROVE  /\ AbsState(j) = StateOf(j)
                    /\ Workers(j) = IF StateOf(j) = "taken" THEN HolderOf(j) ELSE {}
  BY DEF Mapped, QState, QWorker
<1>1. Waiting(j) <=> \E n \in Names : dir[Live(n)] = j
  BY NameParts, ContentAssumption DEF IInv, Contents, Waiting, Waits
<1>2. ASSUME ~Done(j) PROVE HolderOf(j) = Workers(j)
  <2>1. ASSUME NEW p \in Procs, pc[p] \in Holding \ {"unlinkOld"}, dir[mine[p]] = j
        PROVE  WorksOn(p, j)
    <3>1. item[p][2][1] = j /\ (pc[p] \in Loaded => job[p] = j)
      BY <2>1, Has
    <3>2. pc[p] # "drop"
      BY <1>2, <3>1 DEF IInv, Kept, Loaded
    <3>3. QED
      BY <2>1, <3>1, <3>2 DEF WorksOn, Working, Holding
  <2>2. ASSUME NEW p \in Procs, WorksOn(p, j)
        PROVE  pc[p] \in Holding \ {"unlinkOld"} /\ dir[mine[p]] = j
    <3>1. pc[p] \in Holding \ {"unlinkOld"} /\ item[p][2][1] = j
      BY <2>2 DEF WorksOn, Working, Holding
    <3>2. QED
      BY <3>1, Has
  <2>3. QED
    BY <2>1, <2>2 DEF HolderOf, Workers
<1>3. Workers(j) # {} => ~Done(j) /\ Submitted(j) /\ ~Waiting(j)
  BY DEF IInv, OneCarrier, Workers, Waiting
<1>4. AbsState(j) = StateOf(j)
  BY <1>1, <1>2 DEF AbsState, StateOf, Done
<1>5. QED
  BY <1>2, <1>3, <1>4 DEF AbsState

LEMMA IInvMappedNext == IInv' => Mapped'
  BY IInvMapped, PTL

\* What a job's state is made of, without those who work on it.
Same(j) ==
    /\ Done(j)' <=> Done(j)
    /\ Submitted(j)' <=> Submitted(j)
    /\ Waiting(j)' <=> Waiting(j)

Alike(j) == Same(j) /\ \A p \in Procs : WorksOn(p, j)' <=> WorksOn(p, j)

LEMMA AlikeState ==
    ASSUME NEW j \in Jobs, Alike(j)
    PROVE  AbsState(j)' = AbsState(j) /\ Workers(j)' = Workers(j)
<1>1. Workers(j)' = Workers(j)
  BY DEF Alike, Workers
<1>2. QED
  BY <1>1 DEF Alike, Same, AbsState

\* The files that count for a job: its first name, and its live ones.
LEMMA SameFiles ==
    ASSUME NEW j \in Jobs, IInv, asked'[j] = asked[j], UNCHANGED <<sent, dismissed>>,
           \A n \in Names : n[1] = j => dir'[Live(n)] = dir[Live(n)],
           asked[j] # 0 => dir'[Hidden(FirstName(j))] = dir[Hidden(FirstName(j))]
    PROVE  Same(j)
  BY DEF Same, Done, Submitted, Submitting, FirstName, Waiting, Waits

LEMMA FirstNames == ASSUME IInv, NEW j \in Jobs, asked[j] # 0 PROVE FirstName(j) \in Names
  BY DEF FirstName, Names, IInv, TInv, TypeOK

-----------------------------------------------------------------------------
(***************************************************************************)
(* The steps of JobQueue.                                                  *)
(***************************************************************************)
\* A step after which every job is as it was is a stutter.
LEMMA Stutters ==
    ASSUME IInv, IInv', \A i \in Jobs : Alike(i)
    PROVE  UNCHANGED Queue!vars
<1>1. QState' = QState /\ QWorker' = QWorker
  BY AlikeState DEF QState, QWorker
<1>2. QED
  BY <1>1, IInvMapped, IInvMappedNext DEF Mapped, Queue!vars

\* So is one in which the spoolers that work on a job are the same, and
\* work on the same ones.
LEMMA SameWork ==
    ASSUME IInv, IInv', \A i \in Jobs : Same(i),
           \A q \in Procs : /\ pc'[q] \in Working <=> pc[q] \in Working
                            /\ pc[q] \in Working => item'[q] = item[q]
    PROVE  UNCHANGED Queue!vars
<1>1. \A q \in Procs, i \in Jobs : WorksOn(q, i)' <=> WorksOn(q, i)
  BY DEF WorksOn
<1>2. \A i \in Jobs : Alike(i)
  BY <1>1 DEF Alike
<1>3. QED
  BY <1>2, Stutters

\* A step that changes one job.
LEMMA Changes ==
    ASSUME NEW j \in Jobs, NEW s, NEW w, AbsState(j)' = s, Workers(j)' = w,
           \A i \in Jobs \ {j} : Alike(i)
    PROVE  QState' = [QState EXCEPT ![j] = s] /\ QWorker' = [QWorker EXCEPT ![j] = w]
<1>1. \A i \in Jobs \ {j} : AbsState(i)' = AbsState(i) /\ Workers(i)' = Workers(i)
  BY AlikeState
<1>2. QED
  BY <1>1 DEF QState, QWorker

\* A spooler that stops working on a job, which remains submitted, lets
\* go of it, whatever has become of the job.
LEMMA LetsGoOfJob ==
    ASSUME IInv, IInv', NEW p \in Procs, pc[p] \in Working, pc'[p] \notin Working,
           NEW j \in Jobs, item[p][2][1] = j, Submitted(j)',
           \A q \in Procs \ {p} : pc'[q] = pc[q] /\ item'[q] = item[q],
           \A i \in Jobs \ {j} : Same(i)
    PROVE  Queue!Next
<1>0. WorksOn(p, j)
  BY DEF WorksOn
<1>1. \A i \in Jobs : ~WorksOn(p, i)'
  BY DEF WorksOn
<1>2. \A q \in Procs \ {p}, i \in Jobs : WorksOn(q, i)' <=> WorksOn(q, i)
  BY DEF WorksOn
<1>3. \A q \in Procs \ {p} : ~WorksOn(q, j)
  BY <1>0 DEF IInv, OneCarrier
<1>4. \A i \in Jobs \ {j} : ~WorksOn(p, i)
  BY DEF WorksOn
<1>5. \A i \in Jobs \ {j} : Alike(i)
  BY <1>1, <1>2, <1>4 DEF Alike
<1>6. Workers(j)' = {}
  BY <1>0, <1>1, <1>2, <1>3 DEF Workers
<1>7. AbsState(j)' \in {"done", "waiting", "stuck"}
  BY <1>6 DEF AbsState
<1>8. AbsState(j) = "taken"
  BY <1>0 DEF AbsState, IInv, OneCarrier, Workers, Waiting
<1>9. QState[j] = "taken"
  BY <1>0, <1>8 DEF QState
<1>10. QState' = [QState EXCEPT ![j] = AbsState(j)'] /\ QWorker' = [QWorker EXCEPT ![j] = {}]
  BY <1>0, <1>5, <1>6, Changes
<1>11. Queue!LetGo(j)
  BY <1>7, <1>9, <1>10, IInvMapped, IInvMappedNext DEF Mapped, Queue!LetGo
<1>12. QED
  BY <1>0, <1>11 DEF Queue!Next

-----------------------------------------------------------------------------
(***************************************************************************)
(* Submitting.                                                             *)
(***************************************************************************)
LEMMA SubmitMaps == ASSUME IInv, IInv', NEW j \in Jobs, Submit(j) PROVE UNCHANGED Queue!vars
<1> USE SpoolAssumption
<1> DEFINE new == <<j, serial + 1>>
<1>0. TInv
  BY DEF IInv
<1>1. new \in Names
  BY <1>0 DEF Submit, Names, TInv, TypeOK
<1>2. \A n \in Names : /\ dir'[Live(n)] = dir[Live(n)]
                       /\ dir'[Hidden(n)] = IF n = new THEN Partial ELSE dir[Hidden(n)]
  BY <1>0, <1>1, PathsApart DEF Submit, TInv, TypeOK
<1>3. /\ asked[j] = 0 /\ asked'[j] = serial + 1 /\ serial \in Nat
      /\ \A i \in Jobs \ {j} : asked'[i] = asked[i]
      /\ UNCHANGED <<pc, item, sent, dismissed>>
  BY <1>0 DEF Submit, TInv, TypeOK
<1>4. Same(j)
  <2>1. ~Submitted(j)
    BY <1>3 DEF Submitted
  <2>2. FirstName(j)' = new
    BY <1>3 DEF FirstName
  <2>3. ~Submitted(j)'
    BY <1>1, <1>2, <1>3, <2>2 DEF Submitted, Submitting
  <2>4. QED
    BY <1>2, <1>3, <2>1, <2>3 DEF Same, Done, Waiting, Waits
<1>5. ASSUME NEW i \in Jobs \ {j} PROVE Same(i)
  <2>1. asked[i] # 0 => FirstName(i) \in Names /\ FirstName(i) # new
    BY FirstNames DEF FirstName
  <2>2. QED
    BY <1>2, <1>3, <2>1, SameFiles
<1>6. QED
  BY <1>3, <1>4, <1>5, SameWork

LEMMA SubmitFailsMaps ==
    ASSUME IInv, IInv', NEW j \in Jobs, SubmitFails(j) PROVE UNCHANGED Queue!vars
<1> DEFINE new == FirstName(j)
<1>0. TInv
  BY DEF IInv
<1>1. new \in Names
  BY FirstNames DEF SubmitFails, Submitting
<1>2. \A n \in Names : /\ dir'[Live(n)] = dir[Live(n)]
                       /\ n # new => dir'[Hidden(n)] = dir[Hidden(n)]
  BY <1>0, <1>1, PathsApart DEF SubmitFails, TInv, TypeOK
<1>3. /\ asked'[j] = 0 /\ \A i \in Jobs \ {j} : asked'[i] = asked[i]
      /\ UNCHANGED <<pc, item, sent, dismissed>>
  BY <1>0 DEF SubmitFails, TInv, TypeOK
<1>4. Same(j)
  <2>1. ~Submitted(j) /\ ~Submitted(j)'
    BY <1>3 DEF Submitted, SubmitFails
  <2>2. QED
    BY <1>2, <1>3, <2>1 DEF Same, Done, Waiting, Waits
<1>5. ASSUME NEW i \in Jobs \ {j} PROVE Same(i)
  <2>1. asked[i] # 0 => FirstName(i) \in Names /\ FirstName(i) # new
    BY FirstNames DEF FirstName
  <2>2. QED
    BY <1>2, <1>3, <2>1, SameFiles
<1>6. QED
  BY <1>3, <1>4, <1>5, SameWork

LEMMA SubmitEndsMaps == ASSUME IInv, IInv', NEW j \in Jobs, SubmitEnds(j) PROVE Queue!Next
<1> USE SpoolAssumption, ContentAssumption, NonePartial
<1> DEFINE new == FirstName(j)
<1>0. TInv
  BY DEF IInv
<1>1. new \in Names /\ new[1] = j
  BY FirstNames DEF SubmitEnds, Submitting, FirstName
<1>2. \A n \in Names : /\ dir'[Live(n)] = IF n = new THEN j ELSE dir[Live(n)]
                       /\ dir'[Hidden(n)] = IF n = new THEN None ELSE dir[Hidden(n)]
  BY <1>0, <1>1, PathsApart DEF SubmitEnds, TInv, TypeOK
<1>3. UNCHANGED <<asked, pc, item, sent, dismissed>>
  BY DEF SubmitEnds
<1>4. ASSUME NEW i \in Jobs \ {j} PROVE Alike(i)
  <2>1. asked[i] # 0 => FirstName(i) \in Names /\ FirstName(i) # new
    BY FirstNames DEF FirstName
  <2>2. Same(i)
    BY <1>1, <1>2, <1>3, <2>1, SameFiles
  <2>3. QED
    BY <1>3, <2>2 DEF Alike, WorksOn
<1>5. ~Submitted(j) /\ Submitted(j)'
  BY <1>1, <1>2, <1>3 DEF Submitted, Submitting, FirstName, SubmitEnds
<1>6. ~Done(j) /\ ~Done(j)' /\ Workers(j) = {} /\ Workers(j)' = {}
  <2>1. ~Done(j) /\ \A p \in Procs : ~WorksOn(p, j)
    BY <1>5 DEF IInv, OneCarrier
  <2>2. QED
    BY <1>3, <2>1 DEF Done, Workers, WorksOn
<1>7. Waiting(j)'
  BY <1>1, <1>2 DEF Waiting, Waits
<1>8. AbsState(j) = "new" /\ AbsState(j)' = "waiting"
  BY <1>5, <1>6, <1>7 DEF AbsState
<1>9. /\ QState[j] = "new" /\ QWorker[j] = {}
      /\ QState' = [QState EXCEPT ![j] = "waiting"]
      /\ QWorker' = [QWorker EXCEPT ![j] = {}]
  BY <1>4, <1>6, <1>8, Changes DEF QState, QWorker
<1>10. QWorker' = QWorker
  BY <1>9 DEF QWorker
<1>11. Queue!Submit(j)
  BY <1>9, <1>10, IInvMapped, IInvMappedNext DEF Mapped, Queue!Submit
<1>12. QED
  BY <1>11 DEF Queue!Next

-----------------------------------------------------------------------------
(***************************************************************************)
(* Taking a job.                                                           *)
(***************************************************************************)
LEMMA ClaimMaps ==
    ASSUME IInv, IInv', NEW p \in Procs, Claim(p) PROVE Queue!Next \/ UNCHANGED Queue!vars
<1> USE SpoolAssumption, ContentAssumption
<1> DEFINE n == item[p][2]
<1>0. TInv
  BY DEF IInv
<1>1. n \in Names /\ item[p] = Live(n) /\ mine[p] = Claimed(n)
  BY LiveOf DEF Claim, IInv, Held
<1>2. UNCHANGED <<asked, item, sent, dismissed>> /\ pc[p] = "claim"
  BY DEF Claim
<1>3. CASE ~Exists(item[p])
  <2>1. dir' = dir /\ pc' = [pc EXCEPT ![p] = "check"]
    BY <1>3 DEF Claim, Renamed, GoTo
  <2>2. \A i \in Jobs : Same(i)
    BY <1>2, <2>1, SameFiles
  <2>3. \A q \in Procs : pc'[q] \in Working <=> pc[q] \in Working
    BY <1>0, <1>2, <2>1 DEF Working, TInv, TypeOK
  <2>4. QED
    BY <1>2, <2>2, <2>3, SameWork
<1>4. CASE Exists(item[p])
  <2>1. PICK j \in Jobs : n[1] = j
    BY <1>1, NameParts
  <2>2. dir[Live(n)] = j /\ dir[Claimed(n)] = None
    BY <1>1, <1>4, <2>1 DEF Exists, IInv, Contents
  <2>3. dir' = [dir EXCEPT ![Claimed(n)] = j, ![Live(n)] = None]
    BY <1>1, <1>4, <2>2, PathsApart DEF Claim, Renamed
  <2>4. \A m \in Names : /\ dir'[Live(m)] = IF m = n THEN None ELSE dir[Live(m)]
                         /\ dir'[Hidden(m)] = dir[Hidden(m)]
    BY <1>0, <1>1, <2>3, PathsApart DEF TInv, TypeOK
  <2>5. pc'[p] = "mark" /\ \A q \in Procs \ {p} : pc'[q] = pc[q]
    BY <1>0, <1>4 DEF Claim, GoTo, TInv, TypeOK
  <2>6. \A q \in Procs, i \in Jobs : WorksOn(q, i)' <=> WorksOn(q, i) \/ (q = p /\ i = j)
    BY <1>2, <2>1, <2>5 DEF WorksOn, Working
  <2>7. ASSUME NEW i \in Jobs \ {j} PROVE Alike(i)
    BY <1>2, <2>1, <2>4, <2>6, FirstNames, SameFiles DEF Alike
  <2>8. Waiting(j) /\ ~Done(j) /\ Submitted(j) /\ \A q \in Procs : ~WorksOn(q, j)
    BY <1>1, <2>1, <2>2 DEF Waiting, Waits, IInv, OneCarrier
  <2>9. AbsState(j) = "waiting"
    BY <2>8 DEF AbsState
  <2>10. Workers(j)' = {p}
    BY <2>6, <2>8 DEF Workers
  <2>11. AbsState(j)' = "taken"
    <3>1. WorksOn(p, j)'
      BY <2>6
    <3>2. ~Done(j)' /\ Submitted(j)' /\ ~Waiting(j)'
      BY <3>1 DEF IInv, OneCarrier, Waiting
    <3>3. QED
      BY <2>10, <3>2 DEF AbsState
  <2>12. \A i \in Jobs : p \notin QWorker[i]
    BY <1>2 DEF QWorker, Workers, WorksOn, Working
  <2>13. /\ QState[j] = "waiting"
         /\ QState' = [QState EXCEPT ![j] = "taken"]
         /\ QWorker' = [QWorker EXCEPT ![j] = {p}]
    BY <2>7, <2>9, <2>10, <2>11, Changes DEF QState
  <2>14. Queue!Take(j, p)
    BY <2>12, <2>13, IInvMapped, IInvMappedNext DEF Mapped, Queue!Take
  <2>15. QED
    BY <2>14 DEF Queue!Next
<1>5. QED
  BY <1>3, <1>4

-----------------------------------------------------------------------------
(***************************************************************************)
(* Running it, and letting go of it.                                       *)
(***************************************************************************)
\* A step of one spooler that leaves the files of every job alone.
LEMMA OwnStep ==
    ASSUME IInv, IInv', NEW p \in Procs, UNCHANGED <<asked, sent, dismissed>>,
           \A n \in Names : dir'[Live(n)] = dir[Live(n)],
           \A i \in Jobs : asked[i] # 0 =>
               dir'[Hidden(FirstName(i))] = dir[Hidden(FirstName(i))],
           \A q \in Procs \ {p} : pc'[q] = pc[q] /\ item'[q] = item[q],
           pc'[p] \in Working => pc[p] \in Working /\ item'[p] = item[p]
    PROVE  Queue!Next \/ UNCHANGED Queue!vars
<1>1. \A i \in Jobs : Same(i)
  BY SameFiles
<1>2. CASE pc'[p] \in Working \/ pc[p] \notin Working
  BY <1>1, <1>2, SameWork
<1>3. CASE pc[p] \in Working /\ pc'[p] \notin Working
  <2>1. PICK j \in Jobs : item[p][2][1] = j
    BY <1>3, Has DEF Working, Holding
  <2>2. Submitted(j)
    BY <1>3, <2>1 DEF IInv, OneCarrier, WorksOn
  <2>3. Submitted(j)'
    BY <1>1, <2>2 DEF Same
  <2>4. QED
    BY <1>1, <1>3, <2>1, <2>3, LetsGoOfJob
<1>4. QED
  BY <1>2, <1>3

LEMMA QuietMaps ==
    ASSUME IInv, IInv', NEW p \in Procs,
           \/ Start(p) \/ OpenDir(p) \/ (\E f \in Paths : Readdir(p, f)) \/ Look(p)
           \/ MarkInUse(p) \/ LoadItem(p) \/ TryLater(p)
           \/ CheckQuit(p) \/ EndPass(p) \/ Kill(p)
    PROVE  Queue!Next \/ UNCHANGED Queue!vars
<1> USE DEF queue, scan, sig, GoTo
<1>0. TInv
  BY DEF IInv
<1>1. UNCHANGED <<dir, asked, sent, dismissed>>
  BY DEF Start, OpenDir, Readdir, Look, MarkInUse, LoadItem, TryLater, CheckQuit, EndPass, Kill
<1>2. \A q \in Procs \ {p} : pc'[q] = pc[q] /\ item'[q] = item[q]
  BY <1>0 DEF Start, OpenDir, Readdir, Look, MarkInUse, LoadItem, TryLater, CheckQuit, EndPass,
              Kill, Gone, TInv, TypeOK
<1>3. pc'[p] \in Working => pc[p] \in Working /\ item'[p] = item[p]
  <2>1. CASE MarkInUse(p) \/ LoadItem(p) \/ TryLater(p)
    BY <2>1 DEF MarkInUse, LoadItem, TryLater, Working
  <2>2. CASE Start(p) \/ OpenDir(p) \/ (\E f \in Paths : Readdir(p, f)) \/ Look(p)
    BY <1>0, <2>2 DEF Start, OpenDir, Readdir, Look, Working, TInv, TypeOK
  <2>3. CASE CheckQuit(p) \/ EndPass(p) \/ Kill(p)
    BY <1>0, <2>3 DEF CheckQuit, EndPass, Kill, Gone, Working, TInv, TypeOK
  <2>4. QED
    BY <2>1, <2>2, <2>3
<1>4. QED
  BY <1>1, <1>2, <1>3, OwnStep

LEMMA UnlinkMaps ==
    ASSUME IInv, IInv', NEW p \in Procs, UnlinkOld(p) \/ UnlinkDone(p)
    PROVE  Queue!Next \/ UNCHANGED Queue!vars
<1>0. TInv
  BY DEF IInv
<1>1. PICK may : Unlink(p, may)
  BY DEF UnlinkOld, UnlinkDone
<1>2. pc[p] \in {"drop", "unlinkOld"}
  BY DEF UnlinkOld, UnlinkDone
<1>3. item[p][2] \in Names /\ mine[p] = Claimed(item[p][2]) /\ Exists(mine[p])
  BY <1>2, Has DEF Holding
<1>4. /\ pc'[p] = "check" /\ \A q \in Procs \ {p} : pc'[q] = pc[q]
      /\ UNCHANGED <<asked, item, sent, dismissed>>
  BY <1>0, <1>1, <1>3 DEF Unlink, GoTo, TInv, TypeOK
<1>5. \A m \in Names : dir'[Live(m)] = dir[Live(m)] /\ dir'[Hidden(m)] = dir[Hidden(m)]
  BY <1>0, <1>1, <1>3, PathsApart DEF Unlink, TInv, TypeOK
<1>6. QED
  BY <1>4, <1>5, FirstNames, OwnStep DEF Working

LEMMA EndMaps ==
    ASSUME IInv, IInv', NEW p \in Procs, Transferred(p) \/ Dismissed(p)
    PROVE  Queue!Next
<1>0. TInv
  BY DEF IInv
<1>1. /\ pc[p] = "transfer" /\ pc'[p] = "drop"
      /\ \A q \in Procs \ {p} : pc'[q] = pc[q]
      /\ UNCHANGED <<dir, asked, item>>
  BY <1>0 DEF Transferred, Dismissed, GoTo, TInv, TypeOK
<1>2. PICK j \in Jobs : item[p][2][1] = j /\ job[p] = j
  BY <1>1, Has DEF Holding, Loaded
<1>3. \A i \in Jobs \ {j} : Done(i)' <=> Done(i)
  <2>1. CASE Transferred(p)
    BY <1>0, <1>2, <2>1 DEF Transferred, Done, TInv, TypeOK
  <2>2. CASE Dismissed(p)
    BY <1>0, <1>2, <2>2 DEF Dismissed, Done, TInv, TypeOK
  <2>3. QED
    BY <2>1, <2>2
<1>4. \A i \in Jobs \ {j} : Same(i)
  BY <1>1, <1>3 DEF Same, Submitted, Submitting, FirstName, Waiting, Waits
<1>5. Submitted(j)
  BY <1>1, <1>2 DEF IInv, OneCarrier, WorksOn, Working
<1>6. Submitted(j)'
  BY <1>1, <1>5 DEF Submitted, Submitting, FirstName
<1>7. QED
  BY <1>1, <1>2, <1>4, <1>6, LetsGoOfJob DEF Working

LEMMA InitFailsMaps ==
    ASSUME IInv, IInv', NEW p \in Procs, InitFails(p)
    PROVE  Queue!Next \/ UNCHANGED Queue!vars
<1> USE SpoolAssumption, ContentAssumption
<1> DEFINE n == item[p][2]
<1>0. TInv
  BY DEF IInv
<1>1. UNCHANGED <<asked, sent, dismissed>>
  BY DEF InitFails
<1>2. /\ pc[p] = "transfer" /\ pc'[p] = "off"
      /\ \A q \in Procs \ {p} : pc'[q] = pc[q] /\ item'[q] = item[q]
  BY <1>0 DEF InitFails, Gone, TInv, TypeOK
<1>3. CASE ~itemInUse[p]
  BY <1>1, <1>2, <1>3, OwnStep DEF InitFails, ExitStuff, Working
<1>4. CASE itemInUse[p]
  <2>1. /\ n \in Names /\ item[p] = Live(n) /\ mine[p] = Claimed(n) /\ Exists(mine[p])
        /\ n[1] \in Jobs
    BY <1>2, Has DEF Holding
  <2>2. dir' = [dir EXCEPT ![Live(n)] = dir[Claimed(n)], ![Claimed(n)] = None]
    BY <1>4, <2>1, PathsApart DEF InitFails, ExitStuff, Renamed
  <2>3. \A m \in Names : /\ m # n => dir'[Live(m)] = dir[Live(m)]
                         /\ dir'[Hidden(m)] = dir[Hidden(m)]
    BY <1>0, <2>1, <2>2, PathsApart DEF TInv, TypeOK
  <2>4. PICK j \in Jobs : n[1] = j
    BY <2>1
  <2>5. ASSUME NEW i \in Jobs \ {j} PROVE Same(i)
    BY <1>1, <2>3, <2>4, FirstNames, SameFiles
  <2>6. Submitted(j)
    BY <1>2, <2>4 DEF IInv, OneCarrier, WorksOn, Working
  <2>7. Submitted(j)'
    BY <1>1, <2>3, <2>6, FirstNames DEF Submitted, Submitting, FirstName
  <2>8. QED
    BY <1>2, <2>4, <2>5, <2>7, LetsGoOfJob DEF Working
<1>5. QED
  BY <1>3, <1>4

-----------------------------------------------------------------------------
(***************************************************************************)
(* Spooling a job again.                                                   *)
(***************************************************************************)
LEMMA RespoolWriteMaps ==
    ASSUME IInv, IInv', NEW p \in Procs, RespoolWrite(p)
    PROVE  Queue!Next \/ UNCHANGED Queue!vars
<1> USE SpoolAssumption
<1> DEFINE new == <<job[p], serial + 1>>
<1>0. TInv
  BY DEF IInv
<1>1. /\ pc[p] = "respool" /\ pc'[p] = "publish"
      /\ \A q \in Procs \ {p} : pc'[q] = pc[q]
      /\ UNCHANGED <<asked, item, sent, dismissed>>
  BY <1>0 DEF RespoolWrite, GoTo, TInv, TypeOK
<1>2. new \in Names /\ new[2] = serial + 1 /\ serial \in Nat
  BY <1>0, <1>1 DEF RespoolWrite, Names, TInv, TypeOK, Shapes
<1>3. \A n \in Names : /\ dir'[Live(n)] = dir[Live(n)]
                       /\ n # new => dir'[Hidden(n)] = dir[Hidden(n)]
  BY <1>0, <1>2, PathsApart DEF RespoolWrite, TInv, TypeOK
<1>4. ASSUME NEW i \in Jobs, asked[i] # 0 PROVE FirstName(i) \in Names /\ FirstName(i) # new
  <2>1. FirstName(i)[2] = asked[i] /\ asked[i] <= serial /\ asked[i] \in Nat
    BY <1>0 DEF FirstName, IInv, Writing, TInv, TypeOK
  <2>2. FirstName(i)[2] # new[2]
    BY <1>2, <2>1
  <2>3. QED
    BY <1>4, <2>2, FirstNames
<1>5. QED
  BY <1>1, <1>3, <1>4, OwnStep DEF Working

\* The name that SpoolX is writing for a spooler is not the first of a job.
LEMMA NotFirst ==
    ASSUME IInv, NEW p \in Procs, pc[p] = "publish", NEW i \in Jobs, asked[i] # 0
    PROVE  /\ fresh[p][2] \in Names /\ fresh[p] = Live(fresh[p][2])
           /\ fresh[p][2][1] = job[p]
           /\ FirstName(i) \in Names /\ FirstName(i) # fresh[p][2]
<1> DEFINE new == fresh[p][2]
<1>0. TInv
  BY DEF IInv
<1>1. /\ new \in Names /\ fresh[p] = Live(new) /\ new[1] = job[p]
      /\ asked[job[p]] < new[2] /\ job[p] \in Jobs
  BY <1>0, LiveOf DEF IInv, Writing, TInv, Shapes
<1>2. asked[job[p]] \in Nat /\ new[2] \in Nat
  BY <1>0, <1>1, NameParts DEF TInv, TypeOK
<1>3. FirstName(job[p]) # new
  BY <1>1, <1>2 DEF FirstName
<1>4. i # job[p] => FirstName(i) # new
  BY <1>1 DEF FirstName
<1>5. QED
  BY <1>1, <1>3, <1>4, FirstNames

LEMMA RespoolPublishMaps ==
    ASSUME IInv, IInv', NEW p \in Procs, RespoolPublish(p) PROVE Queue!Next
<1> DEFINE new == fresh[p][2]
<1>0. TInv
  BY DEF IInv
<1>1. /\ pc[p] = "publish" /\ pc'[p] = "unlinkOld"
      /\ \A q \in Procs \ {p} : pc'[q] = pc[q]
      /\ UNCHANGED <<asked, item, sent, dismissed>>
  BY <1>0 DEF RespoolPublish, GoTo, TInv, TypeOK
<1>2. PICK j \in Jobs : item[p][2][1] = j /\ job[p] = j
  BY <1>1, Has DEF Holding, Loaded
<1>3. Submitted(j) /\ asked[j] # 0
  BY <1>1, <1>2 DEF IInv, OneCarrier, WorksOn, Working, Submitted
<1>4. new \in Names /\ fresh[p] = Live(new) /\ new[1] = j
  BY <1>1, <1>2, <1>3, NotFirst
<1>5. \A n \in Names : n # new => /\ dir'[Live(n)] = dir[Live(n)]
                                 /\ dir'[Hidden(n)] = dir[Hidden(n)]
  BY <1>0, <1>4, PathsApart DEF RespoolPublish, TInv, TypeOK
<1>6. \A i \in Jobs \ {j} : Same(i)
  BY <1>1, <1>4, <1>5, NotFirst, SameFiles
<1>7. Submitted(j)'
  <2>1. dir'[Hidden(FirstName(j))] = dir[Hidden(FirstName(j))]
    BY <1>1, <1>3, <1>5, NotFirst
  <2>2. QED
    BY <1>1, <1>3, <2>1 DEF Submitted, Submitting, FirstName
<1>8. QED
  BY <1>1, <1>2, <1>6, <1>7, LetsGoOfJob DEF Working

LEMMA RespoolFailsMaps ==
    ASSUME IInv, IInv', NEW p \in Procs, RespoolFails(p)
    PROVE  Queue!Next \/ UNCHANGED Queue!vars
<1> DEFINE new == fresh[p][2]
<1>0. TInv
  BY DEF IInv
<1>1. /\ pc[p] \in {"respool", "publish"} /\ pc'[p] = "off"
      /\ \A q \in Procs \ {p} : pc'[q] = pc[q] /\ item'[q] = item[q]
      /\ UNCHANGED <<asked, sent, dismissed>>
  BY <1>0 DEF RespoolFails, Gone, TInv, TypeOK
<1>2. CASE pc[p] # "publish"
  BY <1>1, <1>2, OwnStep DEF RespoolFails, Working
<1>3. CASE pc[p] = "publish"
  <2>1. new \in Names
    BY <1>3, LiveOf DEF IInv, Writing
  <2>2. \A n \in Names : /\ dir'[Live(n)] = dir[Live(n)]
                         /\ n # new => dir'[Hidden(n)] = dir[Hidden(n)]
    BY <1>0, <1>3, <2>1, PathsApart DEF RespoolFails, TInv, TypeOK
  <2>3. \A i \in Jobs : asked[i] # 0 =>
            dir'[Hidden(FirstName(i))] = dir[Hidden(FirstName(i))]
    BY <1>3, <2>2, NotFirst
  <2>4. QED
    BY <1>1, <2>2, <2>3, OwnStep DEF Working
<1>4. QED
  BY <1>2, <1>3

-----------------------------------------------------------------------------
LEMMA InitMaps == Init => Queue!Init
<1> SUFFICES ASSUME Init PROVE Queue!Init
  OBVIOUS
<1>1. \A j \in Jobs : ~Done(j) /\ ~Submitted(j)
  BY DEF Init, Done, Submitted
<1>2. \A j \in Jobs : AbsState(j) = "new" /\ Workers(j) = {}
  BY <1>1 DEF AbsState, Workers, WorksOn, Working, Init
<1>3. Mapped
  BY InitIInv, IInvMapped
<1>4. QED
  BY <1>2, <1>3 DEF Mapped, QState, QWorker, Queue!Init

LEMMA NextMaps ==
    ASSUME ~MaySignal, IInv, IInv', [Next]_vars
    PROVE  Queue!Next \/ UNCHANGED Queue!vars
<1>1. ASSUME NEW j \in Jobs, Submit(j) \/ SubmitEnds(j) \/ SubmitFails(j)
      PROVE  Queue!Next \/ UNCHANGED Queue!vars
  BY <1>1, SubmitMaps, SubmitEndsMaps, SubmitFailsMaps
<1>2. ASSUME UNCHANGED <<dir, asked, sent, dismissed, pc, item>>
      PROVE  UNCHANGED Queue!vars
  BY <1>2, SameFiles, SameWork
<1>3. ASSUME NEW n \in Names, ComesDue(n) PROVE UNCHANGED Queue!vars
  BY <1>2, <1>3 DEF ComesDue
<1>4. ASSUME NEW p \in Procs, Start(p) \/ Runs(p) \/ InitFails(p) \/ RespoolFails(p)
      PROVE  Queue!Next \/ UNCHANGED Queue!vars
  BY <1>4, QuietMaps, ClaimMaps, EndMaps, InitFailsMaps, RespoolWriteMaps,
     RespoolPublishMaps, RespoolFailsMaps, UnlinkMaps DEF Runs
<1>5. ASSUME NEW p \in Procs, SigExit(p) \/ Kill(p)
      PROVE  Queue!Next \/ UNCHANGED Queue!vars
  BY <1>5, QuietMaps DEF SigExit
<1>6. CASE UNCHANGED vars
  BY <1>2, <1>6 DEF vars, queue
<1>7. QED
  BY <1>1, <1>3, <1>4, <1>5, <1>6 DEF Next

\* The spool directory, with spoolers that may die at any point, implements
\* the queue of module JobQueue: a job is taken by one spooler at a time,
\* and what is done, or stuck, stays so.
THEOREM ImplementsQueue == ASSUME ~MaySignal PROVE Spec => QueueSpec
<1>1. IInv /\ IInv' /\ [Next]_vars => [Queue!Next]_(Queue!vars)
  BY NextMaps
<1>2. Spec => []IInv
  BY AlwaysIInv
<1>3. QED
  BY InitMaps, <1>1, <1>2, PTL DEF Spec, QueueSpec, Queue!Spec

-----------------------------------------------------------------------------
(***************************************************************************)
(* One spooler that gets signals.  It may put a job back that is done, or  *)
(* wait under one name for what it holds under another, so Held and Kept   *)
(* stay and OneCarrier does not; and what gItemInUse says is old wherever  *)
(* the spooler has no file, but then there is no x file to rename.         *)
(***************************************************************************)
Sole == \A p, q \in Procs : p = q

\* Where the spooler is and what it has.
AtPlace(p) ==
    /\ pc[p] \in {"claim"} \cup Holding =>
           item[p] \in {"g"} \X Names /\ mine[p] = Claimed(item[p][2])
    /\ pc[p] = "claim" => dir[Live(item[p][2])] # None
    /\ pc[p] \in Holding => dir[mine[p]] = item[p][2][1]
    /\ pc[p] \notin Holding => ~Exists(mine[p])
    /\ pc[p] \in Loaded => job[p] = item[p][2][1]
    /\ pc[p] = "publish" => /\ fresh[p] \in {"g"} \X Names /\ fresh[p][2][1] = job[p]
                            /\ fresh[p][2][2] > item[p][2][2]
                            /\ asked[job[p]] < fresh[p][2][2]
                            /\ dir[Hidden(fresh[p][2])] = Partial
    /\ pc[p] = "drop" => Done(job[p])
    /\ pc[p] = "unlinkOld" => Newer(item[p][2])

\* A file that holds a job is of one that was submitted.
Given == \A n \in Names : dir[Live(n)] # None \/ dir[Claimed(n)] # None => Submitted(n[1])

Numbered == \A j \in Jobs : asked[j] <= serial
Carried  == \A j \in Jobs : Submitted(j) => Done(j) \/ InQueue(j)

SoleInv == TInv /\ Contents /\ Given /\ Numbered /\ Carried /\ \A p \in Procs : AtPlace(p)

LEMMA InitSole == Init => SoleInv
<1> SUFFICES ASSUME Init PROVE SoleInv
  OBVIOUS
<1>1. IInv
  BY InitIInv
<1>2. \A n \in Names : dir[Live(n)] = None /\ dir[Claimed(n)] = None
  BY PathsApart DEF Init, Live, Claimed, Log
<1>3. Given
  BY <1>2 DEF Given
<1>4. ~Exists(NoFile)
  BY DEF Exists, NoFile, Paths, Files, Log
<1>5. \A p \in Procs : AtPlace(p)
  BY <1>4 DEF Init, AtPlace, Holding, Loaded
<1>6. QED
  BY <1>1, <1>3, <1>5 DEF IInv, SoleInv, Writing, Numbered, Kept, Carried

\* What the spooler has when it has a file.
LEMMA SoleHas ==
    ASSUME SoleInv, NEW p \in Procs, pc[p] \in Holding, NEW n, n = item[p][2]
    PROVE  /\ n \in Names /\ n[1] \in Jobs /\ n[2] \in Nat /\ n[2] <= serial /\ serial \in Nat
           /\ item[p] = Live(n) /\ mine[p] = Claimed(n) /\ Exists(mine[p])
           /\ dir[Claimed(n)] = n[1] /\ dir[Live(n)] = None /\ dir[Hidden(n)] = None
           /\ Submitted(n[1])
<1>1. item[p] \in {"g"} \X Names /\ mine[p] = Claimed(n) /\ dir[Claimed(n)] = n[1]
  BY DEF SoleInv, AtPlace
<1>2. n \in Names /\ item[p] = Live(n)
  BY <1>1, LiveOf
<1>3. n[1] \in Jobs /\ n[2] \in Nat /\ n[1] # None
  BY <1>2, NameParts, ContentAssumption
<1>4. dir[Live(n)] = None /\ dir[Hidden(n)] = None /\ ~(n[2] > serial)
  BY <1>1, <1>2, <1>3 DEF SoleInv, Contents
<1>5. serial \in Nat
  BY SpoolAssumption DEF SoleInv, TInv, TypeOK
<1>6. Exists(mine[p])
  BY <1>1, <1>2, <1>3, PathsApart DEF Exists
<1>7. Submitted(n[1])
  BY <1>1, <1>2, <1>3 DEF SoleInv, Given
<1>8. n[2] <= serial
  BY <1>3, <1>4, <1>5
<1>9. QED
  BY <1>1, <1>2, <1>3, <1>4, <1>5, <1>6, <1>7, <1>8

\* A step that leaves the directory alone.
LEMMA SoleFilesSame ==
    ASSUME SoleInv, UNCHANGED <<dir, serial, asked>>, \A j \in Jobs : Done(j) => Done(j)'
    PROVE  /\ Contents' /\ Given' /\ Numbered' /\ Carried'
           /\ \A n \in Names : Newer(n)' = Newer(n)
           /\ \A f : Exists(f)' = Exists(f)
<1>1. \A j \in Jobs : Submitted(j)' = Submitted(j) /\ InQueue(j)' = InQueue(j)
  BY DEF Submitted, Submitting, FirstName, InQueue
<1>2. Contents' /\ Numbered'
  BY DEF SoleInv, Contents, Numbered
<1>3. Given'
  BY <1>1, NameParts DEF SoleInv, Given
<1>4. Carried'
  BY <1>1 DEF SoleInv, Carried
<1>5. QED
  BY <1>2, <1>3, <1>4 DEF Newer, Exists

\* The file of a job moves between its g name and its x name.
LEMMA SoleMoves ==
    ASSUME SoleInv, NEW n \in Names,
           \/ dir[Live(n)] = n[1] /\ dir[Claimed(n)] = None
           \/ dir[Live(n)] = None /\ dir[Claimed(n)] = n[1],
           \/ dir'[Live(n)] = n[1] /\ dir'[Claimed(n)] = None
           \/ dir'[Live(n)] = None /\ dir'[Claimed(n)] = n[1],
           \A m \in Names : /\ dir'[Hidden(m)] = dir[Hidden(m)]
                            /\ m # n => dir'[Live(m)] = dir[Live(m)] /\ dir'[Claimed(m)] = dir[Claimed(m)],
           UNCHANGED <<serial, asked, sent, dismissed>>
    PROVE  Contents' /\ Given' /\ Numbered' /\ Carried'
<1>0. n[1] # None /\ n[1] \in Jobs
  BY NameParts, ContentAssumption
<1>1. \A j \in Jobs : asked[j] # 0 => FirstName(j) \in Names
  BY DEF SoleInv, TInv, TypeOK, FirstName, Names
<1>2. \A j \in Jobs : Submitted(j)' = Submitted(j) /\ Done(j)' = Done(j)
  BY <1>1 DEF Submitted, Submitting, FirstName, Done
<1>3. Contents'
  <2>1. dir[Hidden(n)] = None /\ ~(n[2] > serial)
    BY <1>0 DEF SoleInv, Contents
  <2>2. QED
    BY <1>0, <2>1 DEF SoleInv, Contents
<1>4. Given'
  <2>1. Submitted(n[1])
    BY <1>0 DEF SoleInv, Given
  <2>2. QED
    BY <1>2, <2>1, NameParts DEF SoleInv, Given
<1>5. \A j \in Jobs : InQueue(j) => InQueue(j)'
  BY <1>0, ContentAssumption DEF InQueue
<1>6. QED
  BY <1>2, <1>3, <1>4, <1>5 DEF SoleInv, Numbered, Carried

\* The spooler goes on without a change of the directory.
LEMMA SoleGoes ==
    ASSUME Sole, SoleInv, TInv', NEW p \in Procs,
           UNCHANGED <<dir, serial, asked>>, \A j \in Jobs : Done(j) => Done(j)',
           \/ UNCHANGED <<pc, item, mine, job, fresh>>
           \/ pc'[p] \notin {"claim"} \cup Holding /\ ~Exists(mine'[p])
           \/ /\ pc'[p] = "claim" /\ item'[p] \in {"g"} \X Names
              /\ mine'[p] = Claimed(item'[p][2]) /\ dir[Live(item'[p][2])] # None
           \/ /\ pc[p] \in Holding /\ pc'[p] \in Holding \ {"publish", "unlinkOld"}
              /\ item' = item /\ mine' = mine
              /\ pc'[p] \in Loaded => job'[p] = item[p][2][1]
              /\ pc'[p] = "drop" => Done(item[p][2][1])'
    PROVE  SoleInv'
<1>1. /\ Contents' /\ Given' /\ Numbered' /\ Carried'
      /\ \A n \in Names : Newer(n)' = Newer(n)
      /\ \A f : Exists(f)' = Exists(f)
  BY SoleFilesSame
<1>2. SUFFICES AtPlace(p)'
  BY <1>1 DEF Sole, SoleInv
<1>3. AtPlace(p)
  BY DEF SoleInv
<1>4. CASE UNCHANGED <<pc, item, mine, job, fresh>>
  <2>1. pc[p] \in {"drop", "unlinkOld"} => job[p] \in Jobs /\ item[p][2] \in Names
    BY <1>3, SoleHas DEF AtPlace, Holding, Loaded
  <2>2. QED
    BY <1>1, <1>3, <1>4, <2>1 DEF AtPlace
<1>5. CASE pc'[p] \notin {"claim"} \cup Holding /\ ~Exists(mine'[p])
  <2>1. pc'[p] \notin Loaded /\ pc'[p] \notin {"publish", "drop", "unlinkOld"}
    BY <1>5 DEF Holding, Loaded
  <2>2. ~(Exists(mine[p])')
    BY <1>5 DEF Exists
  <2>3. QED
    BY <1>5, <2>1, <2>2 DEF AtPlace
<1>6. CASE /\ pc'[p] = "claim" /\ item'[p] \in {"g"} \X Names
           /\ mine'[p] = Claimed(item'[p][2]) /\ dir[Live(item'[p][2])] # None
  <2>1. item'[p][2] \in Names /\ pc'[p] \notin Holding /\ pc'[p] \notin Loaded
    BY <1>6 DEF Holding, Loaded
  <2>2. dir[Claimed(item'[p][2])] = None
    BY <1>6, <2>1 DEF SoleInv, Contents
  <2>3. ~(Exists(mine[p])')
    BY <1>6, <2>2 DEF Exists
  <2>4. QED
    BY <1>6, <2>1, <2>3 DEF AtPlace
<1>7. CASE /\ pc[p] \in Holding /\ pc'[p] \in Holding \ {"publish", "unlinkOld"}
           /\ item' = item /\ mine' = mine
           /\ pc'[p] \in Loaded => job'[p] = item[p][2][1]
           /\ pc'[p] = "drop" => Done(item[p][2][1])'
  <2>1. pc'[p] # "claim" /\ (pc'[p] = "drop" => pc'[p] \in Loaded)
    BY <1>7 DEF Holding, Loaded
  <2>2. pc'[p] = "drop" => Done(job[p])'
    BY <1>7, <2>1 DEF Done
  <2>3. QED
    BY <1>3, <1>7, <2>1, <2>2 DEF AtPlace
<1>8. QED
  BY <1>4, <1>5, <1>6, <1>7

LEMMA NoFileIsNone == ~Exists(NoFile)
  BY DEF Exists, NoFile, Paths, Files, Log

\* The spooler leaves and the directory stays as it is.
LEMMA SoleLeaves ==
    ASSUME Sole, SoleInv, TInv', NEW p \in Procs, Gone(p),
           UNCHANGED <<dir, serial, asked, sent, dismissed>>
    PROVE  SoleInv'
<1>1. pc'[p] = "off" /\ mine'[p] = NoFile
  BY DEF Gone, SoleInv, TInv, TypeOK
<1>2. pc'[p] \notin {"claim"} \cup Holding
  BY <1>1 DEF Holding
<1>3. QED
  BY <1>1, <1>2, NoFileIsNone, SoleGoes DEF Done

LEMMA SoleQuiet ==
    ASSUME Sole, SoleInv, TInv', NEW p \in Procs,
           \/ Start(p) \/ OpenDir(p) \/ (\E f \in Paths : Readdir(p, f)) \/ Look(p)
           \/ MarkInUse(p) \/ LoadItem(p) \/ Transferred(p) \/ Dismissed(p) \/ TryLater(p)
           \/ CheckQuit(p) \/ EndPass(p) \/ Kill(p)
    PROVE  SoleInv'
<1> USE DEF queue, scan, sig, GoTo
<1>0. TypeOK /\ Shapes /\ AtPlace(p)
  BY DEF SoleInv, TInv
<1>a. pc[p] \notin Holding => ~Exists(mine[p])
  BY <1>0 DEF AtPlace
<1>b. pc[p] \in Holding =>
        /\ Exists(mine[p]) /\ dir[mine[p]] = item[p][2][1] /\ item[p][2][1] \in Jobs
        /\ pc[p] \in Loaded => job[p] = item[p][2][1]
  BY <1>0, SoleHas DEF AtPlace
<1>1. CASE \/ Start(p) \/ OpenDir(p) \/ \E f \in Paths : Readdir(p, f)
  <2>1. /\ pc[p] \notin Holding /\ pc'[p] \notin {"claim"} \cup Holding /\ mine' = mine
        /\ UNCHANGED <<dir, serial, asked, sent, dismissed>>
    BY <1>0, <1>1 DEF Start, OpenDir, Readdir, TypeOK, Holding
  <2>2. QED
    BY <1>a, <2>1, SoleGoes DEF Done
<1>2. CASE Look(p)
  <2>1. pc[p] \notin Holding /\ UNCHANGED <<dir, serial, asked, sent, dismissed, item>>
    BY <1>2 DEF Look, Holding
  <2>2. CASE Exists(item[p]) /\ item[p][2] \in due
    <3>1. pc'[p] = "claim" /\ mine'[p] = Claimed(item[p][2]) /\ item[p] \in {"g"} \X Names
      BY <1>0, <1>2, <2>2 DEF Look, TypeOK, Shapes
    <3>2. dir[Live(item[p][2])] # None
      BY <2>2, <3>1, LiveOf DEF Exists
    <3>3. QED
      BY <2>1, <3>1, <3>2, SoleGoes DEF Done
  <2>3. CASE ~(Exists(item[p]) /\ item[p][2] \in due)
    <3>1. pc'[p] \notin {"claim"} \cup Holding /\ mine' = mine
      BY <1>0, <1>2, <2>3 DEF Look, TypeOK, Holding
    <3>2. QED
      BY <1>a, <2>1, <3>1, SoleGoes DEF Done
  <2>4. QED
    BY <2>2, <2>3
<1>3. CASE MarkInUse(p)
  <2>1. /\ pc[p] \in Holding /\ pc'[p] = "load" /\ UNCHANGED <<dir, serial, asked, sent, dismissed, item, mine>>
    BY <1>0, <1>3 DEF MarkInUse, TypeOK, Holding
  <2>2. pc'[p] \in Holding \ {"publish", "unlinkOld"} /\ pc'[p] \notin Loaded /\ pc'[p] # "drop"
    BY <2>1 DEF Holding, Loaded
  <2>3. QED
    BY <2>1, <2>2, SoleGoes DEF Done
<1>4. CASE LoadItem(p)
  <2>1. pc[p] \in Holding /\ UNCHANGED <<dir, serial, asked, sent, dismissed, item, mine>>
    BY <1>4 DEF LoadItem, Holding
  <2>2. Exists(mine[p]) /\ dir[mine[p]] # Partial
    BY <1>b, <2>1, ContentAssumption
  <2>3. job'[p] = item[p][2][1] /\ pc'[p] \in {"load", "transfer"}
    BY <1>0, <1>4, <1>b, <2>1, <2>2 DEF LoadItem, TypeOK
  <2>4. pc'[p] \in Holding \ {"publish", "unlinkOld"} /\ pc'[p] # "drop"
    BY <2>3 DEF Holding
  <2>5. QED
    BY <2>1, <2>3, <2>4, SoleGoes DEF Done
<1>5. CASE Transferred(p) \/ Dismissed(p)
  <2>1. /\ pc[p] \in Holding /\ pc[p] \in Loaded /\ pc'[p] = "drop"
        /\ UNCHANGED <<dir, serial, asked, item, mine, job>>
    BY <1>0, <1>5 DEF Transferred, Dismissed, TypeOK, Holding, Loaded
  <2>2. job[p] = item[p][2][1] /\ job[p] \in Jobs
    BY <1>b, <2>1
  <2>3. \A j \in Jobs : Done(j) => Done(j)'
    BY <1>0, <1>5, <2>2 DEF Transferred, Dismissed, TypeOK, Done
  <2>4. Done(job[p])'
    <3>1. CASE Transferred(p)
      <4>1. sent' = [sent EXCEPT ![job[p]] = IF @ < 2 THEN @ + 1 ELSE 2]
        BY <3>1 DEF Transferred
      <4>2. sent[job[p]] \in 0..2
        BY <1>0, <2>2 DEF TypeOK
      <4>3. sent'[job[p]] = IF sent[job[p]] < 2 THEN sent[job[p]] + 1 ELSE 2
        BY <1>0, <2>2, <4>1 DEF TypeOK
      <4>4. sent'[job[p]] > 0
        BY <4>2, <4>3
      <4>5. QED
        BY <2>1, <4>4 DEF Done
    <3>2. CASE Dismissed(p)
      BY <2>1, <3>2 DEF Dismissed, Done
    <3>3. QED
      BY <1>5, <3>1, <3>2
  <2>5. Done(item[p][2][1])'
    BY <2>1, <2>2, <2>4 DEF Done
  <2>6. pc'[p] \in Holding \ {"publish", "unlinkOld"}
    BY <2>1 DEF Holding
  <2>7. QED
    BY <2>1, <2>2, <2>3, <2>5, <2>6, SoleGoes
<1>6. CASE TryLater(p)
  <2>1. /\ pc[p] \in Holding /\ pc[p] \in Loaded /\ pc'[p] = "respool"
        /\ UNCHANGED <<dir, serial, asked, sent, dismissed, item, mine, job>>
    BY <1>0, <1>6 DEF TryLater, TypeOK, Holding, Loaded
  <2>2. pc'[p] \in Holding \ {"publish", "unlinkOld"} /\ pc'[p] # "drop"
    BY <2>1 DEF Holding
  <2>3. QED
    BY <1>b, <2>1, <2>2, SoleGoes DEF Done
<1>7. CASE Kill(p)
  BY <1>7, SoleLeaves DEF Kill
<1>8. CASE CheckQuit(p)
  <2>1. CASE quit[p]
    BY <1>8, <2>1, SoleLeaves DEF CheckQuit
  <2>2. CASE ~quit[p]
    <3>1. /\ pc[p] \notin Holding /\ pc'[p] \notin {"claim"} \cup Holding /\ mine' = mine
          /\ UNCHANGED <<dir, serial, asked, sent, dismissed>>
      BY <1>0, <1>8, <2>2 DEF CheckQuit, TypeOK, Holding
    <3>2. QED
      BY <1>a, <3>1, SoleGoes DEF Done
  <2>3. QED
    BY <2>1, <2>2
<1>9. CASE EndPass(p)
  <2>1. CASE ~nItems[p] /\ ~GlobalSpooler
    BY <1>9, <2>1, SoleLeaves DEF EndPass
  <2>2. CASE ~(~nItems[p] /\ ~GlobalSpooler)
    <3>1. /\ pc[p] \notin Holding /\ pc'[p] \notin {"claim"} \cup Holding /\ mine' = mine
          /\ UNCHANGED <<dir, serial, asked, sent, dismissed>>
      BY <1>0, <1>9, <2>2 DEF EndPass, TypeOK, Holding
    <3>2. QED
      BY <1>a, <3>1, SoleGoes DEF Done
  <2>3. QED
    BY <2>1, <2>2
<1>10. QED
  BY <1>1, <1>2, <1>3, <1>4, <1>5, <1>6, <1>7, <1>8, <1>9

\* With one spooler the rename that takes a job succeeds.
LEMMA SoleClaim == ASSUME Sole, SoleInv, TInv', NEW p \in Procs, Claim(p) PROVE SoleInv'
<1> DEFINE n == item[p][2]
<1>0. TypeOK
  BY DEF SoleInv, TInv
<1>1. item[p] \in {"g"} \X Names /\ mine[p] = Claimed(n) /\ dir[Live(n)] # None
  BY DEF SoleInv, AtPlace, Claim
<1>2. n \in Names /\ item[p] = Live(n) /\ n[1] \in Jobs /\ n[1] # None
  BY <1>1, LiveOf, NameParts, ContentAssumption
<1>3. dir[Live(n)] = n[1] /\ dir[Claimed(n)] = None
  BY <1>1, <1>2 DEF SoleInv, Contents
<1>4. /\ dir' = [dir EXCEPT ![Claimed(n)] = n[1], ![Live(n)] = None] /\ pc' = [pc EXCEPT ![p] = "mark"]
      /\ UNCHANGED <<serial, asked, sent, dismissed, item, mine>>
  BY <1>1, <1>2, <1>3, PathsApart DEF Claim, Renamed, Exists, GoTo, sig, scan
<1>5. /\ dir'[Live(n)] = None /\ dir'[Claimed(n)] = n[1]
      /\ \A m \in Names : /\ dir'[Hidden(m)] = dir[Hidden(m)]
                          /\ m # n => dir'[Live(m)] = dir[Live(m)] /\ dir'[Claimed(m)] = dir[Claimed(m)]
  BY <1>0, <1>2, <1>4, PathsApart DEF TypeOK
<1>6. Contents' /\ Given' /\ Numbered' /\ Carried'
  BY <1>2, <1>3, <1>4, <1>5, SoleMoves
<1>7. AtPlace(p)'
  <2>1. pc'[p] = "mark"
    BY <1>0, <1>4 DEF TypeOK
  <2>2. "mark" \in Holding /\ "mark" \notin Loaded
    BY DEF Holding, Loaded
  <2>3. QED
    BY <1>1, <1>4, <1>5, <2>1, <2>2 DEF AtPlace
<1>8. QED
  BY <1>6, <1>7 DEF Sole, SoleInv

\* ExitStuff: the file of a job goes back to its name; where the spooler has
\* none, nothing is renamed, whatever gItemInUse says.
LEMMA SoleExits ==
    ASSUME Sole, SoleInv, TInv', NEW p \in Procs, ExitStuff(p), Gone(p),
           UNCHANGED <<due, serial, asked, sent, dismissed>>
    PROVE  SoleInv'
<1> DEFINE n == item[p][2]
<1>0. TypeOK
  BY DEF SoleInv, TInv
<1>1. CASE dir' = dir
  BY <1>1, SoleLeaves
<1>2. CASE dir' # dir
  <2>1. Exists(mine[p]) /\ item[p] \in Paths /\ dir' = [dir EXCEPT ![item[p]] = dir[mine[p]], ![mine[p]] = None]
    BY <1>2 DEF ExitStuff, Renamed
  <2>2. pc[p] \in Holding
    BY <2>1 DEF SoleInv, AtPlace
  <2>3. /\ n \in Names /\ n[1] \in Jobs /\ item[p] = Live(n) /\ mine[p] = Claimed(n)
        /\ dir[Claimed(n)] = n[1] /\ dir[Live(n)] = None
    BY <2>2, SoleHas
  <2>4. /\ dir'[Live(n)] = n[1] /\ dir'[Claimed(n)] = None
        /\ \A m \in Names : /\ dir'[Hidden(m)] = dir[Hidden(m)]
                            /\ m # n => dir'[Live(m)] = dir[Live(m)] /\ dir'[Claimed(m)] = dir[Claimed(m)]
    BY <1>0, <2>1, <2>3, PathsApart DEF TypeOK
  <2>5. Contents' /\ Given' /\ Numbered' /\ Carried'
    BY <2>3, <2>4, SoleMoves
  <2>6. pc'[p] = "off" /\ mine'[p] = NoFile
    BY <1>0 DEF Gone, TypeOK
  <2>7. ~(Exists(mine[p])')
    BY <2>6 DEF Exists, NoFile, Paths, Files, Log
  <2>8. AtPlace(p)'
    BY <2>6, <2>7 DEF AtPlace, Holding, Loaded
  <2>9. QED
    BY <2>5, <2>8 DEF Sole, SoleInv
<1>3. QED
  BY <1>1, <1>2

LEMMA SoleSignalled == ASSUME Sole, SoleInv, TInv', NEW p \in Procs, InitFails(p) \/ SigExit(p) PROVE SoleInv'
<1>1. CASE InitFails(p)
  BY <1>1, SoleExits DEF InitFails
<1>2. CASE SigExit(p)
  <2>1. CASE maySigExit[p]
    BY <1>2, <2>1, SoleExits DEF SigExit
  <2>2. CASE ~maySigExit[p]
    <3>1. UNCHANGED <<dir, serial, asked, sent, dismissed, pc, item, mine, job, fresh>>
      BY <1>2, <2>2 DEF SigExit
    <3>2. QED
      BY <3>1, SoleGoes DEF Done
  <2>3. QED
    BY <2>1, <2>2
<1>3. QED
  BY <1>1, <1>2

\* A file is begun under a new number.
LEMMA SoleBegins ==
    ASSUME SoleInv, NEW j \in Jobs, NEW new, new = <<j, serial + 1>>,
           serial < MaxNames, serial' = serial + 1,
           dir' = [dir EXCEPT ![Hidden(new)] = Partial],
           UNCHANGED <<sent, dismissed>>,
           \/ asked' = asked
           \/ asked[j] = 0 /\ asked' = [asked EXCEPT ![j] = serial + 1]
    PROVE  /\ new \in Names /\ serial \in Nat
           /\ \A m \in Names : /\ dir'[Live(m)] = dir[Live(m)] /\ dir'[Claimed(m)] = dir[Claimed(m)]
                               /\ dir'[Hidden(m)] = IF m = new THEN Partial ELSE dir[Hidden(m)]
           /\ Contents' /\ Given' /\ Numbered' /\ Carried'
           /\ \A i \in Jobs : (Submitted(i) => Submitted(i)') /\ (Done(i)' <=> Done(i))
           /\ \A m \in Names : (Newer(m)' <=> Newer(m))
<1> USE SpoolAssumption, ContentAssumption, NonePartial
<1>0. TypeOK
  BY DEF SoleInv, TInv
<1>1. serial \in Nat /\ new \in Names /\ new[1] = j /\ new[2] = serial + 1
  BY <1>0 DEF Names, TypeOK
<1>2. dir[Live(new)] = None /\ dir[Claimed(new)] = None
  BY <1>1 DEF SoleInv, Contents
<1>3. \A m \in Names : /\ dir'[Live(m)] = dir[Live(m)] /\ dir'[Claimed(m)] = dir[Claimed(m)]
                       /\ dir'[Hidden(m)] = IF m = new THEN Partial ELSE dir[Hidden(m)]
  BY <1>0, <1>1, PathsApart DEF TypeOK
<1>4. \A i \in Jobs : asked[i] \in Nat /\ asked'[i] \in {asked[i], serial + 1} /\ (i # j => asked'[i] = asked[i])
  BY <1>0, <1>1 DEF TypeOK
<1>5. Contents'
  <2>1. ASSUME NEW m \in Names, m[2] > serial + 1 PROVE m[2] > serial /\ m # new
    BY <1>1, <2>1, NameParts
  <2>2. QED
    BY <1>1, <1>2, <1>3, <2>1 DEF SoleInv, Contents
<1>6. Numbered'
  BY <1>1, <1>4 DEF SoleInv, Numbered
<1>7. \A i \in Jobs : (Submitted(i)' <=> Submitted(i))
  <2>1. ASSUME NEW i \in Jobs, asked[i] # 0, asked'[i] = asked[i] PROVE (Submitted(i)' <=> Submitted(i))
    <3>1. FirstName(i) \in Names /\ FirstName(i)' = FirstName(i)
      BY <1>0, <2>1 DEF FirstName, Names, TypeOK
    <3>2. FirstName(i)[2] = asked[i] /\ asked[i] <= serial
      BY DEF FirstName, SoleInv, Numbered
    <3>3. FirstName(i) # new
      BY <1>1, <1>4, <3>2
    <3>4. QED
      BY <1>3, <2>1, <3>1, <3>3 DEF Submitted, Submitting
  <2>2. ASSUME NEW i \in Jobs, asked[i] = 0, asked'[i] = 0 PROVE (Submitted(i)' <=> Submitted(i))
    BY <2>2 DEF Submitted
  <2>3. ASSUME NEW i \in Jobs, asked[i] = 0, asked'[i] # 0 PROVE ~Submitted(i) /\ ~(Submitted(i)')
    <3>1. i = j /\ FirstName(i)' = new
      BY <1>4, <2>3 DEF FirstName
    <3>2. QED
      BY <1>1, <1>3, <2>3, <3>1 DEF Submitted, Submitting
  <2>4. ASSUME NEW i \in Jobs, asked[i] # 0, asked'[i] # asked[i] PROVE FALSE
    BY <1>4, <2>4
  <2>5. ASSUME NEW i \in Jobs PROVE (Submitted(i)' <=> Submitted(i))
    BY <2>1, <2>2, <2>3, <2>4
  <2>6. QED
    BY <2>5
<1>8. \A i \in Jobs : (Done(i)' <=> Done(i)) /\ (InQueue(i)' <=> InQueue(i))
  BY <1>3 DEF Done, InQueue
<1>9. \A m \in Names : (Newer(m)' <=> Newer(m))
  BY <1>3 DEF Newer
<1>10. Given'
  BY <1>3, <1>7, NameParts DEF SoleInv, Given
<1>11. Carried'
  BY <1>7, <1>8 DEF SoleInv, Carried
<1>12. QED
  BY <1>1, <1>3, <1>5, <1>6, <1>7, <1>8, <1>9, <1>10, <1>11

\* The x file of a spooler, if it has ever looked at a job.
LEMMA MineIs ==
    ASSUME TInv, NEW p \in Procs
    PROVE  mine[p] = NoFile \/ \E m \in Names : mine[p] = Claimed(m)
  BY DEF TInv, TypeOK, Claimed

\* Those who submit, and the time, leave the spooler's files alone.
LEMMA SoleBystander ==
    ASSUME SoleInv, NEW p \in Procs, UNCHANGED <<pc, item, mine, job, fresh, sent, dismissed>>,
           \A m \in Names : /\ dir'[Claimed(m)] = dir[Claimed(m)]
                            /\ dir[Live(m)] # None => dir'[Live(m)] # None,
           pc[p] = "publish" => /\ asked'[job[p]] = asked[job[p]]
                                /\ dir'[Hidden(fresh[p][2])] = Partial
    PROVE  AtPlace(p)'
<1>0. TInv /\ AtPlace(p)
  BY DEF SoleInv
<1>1. pc[p] = "claim" => dir'[Live(item[p][2])] # None
  BY <1>0, LiveOf DEF AtPlace
<1>2. pc[p] \in Holding => dir'[mine[p]] = item[p][2][1]
  BY <1>0, SoleHas DEF AtPlace
<1>3. pc[p] \notin Holding => ~(Exists(mine[p])')
  <2>1. CASE mine[p] = NoFile
    BY <2>1 DEF Exists, NoFile, Paths, Files, Log
  <2>2. CASE mine[p] # NoFile
    <3>1. dir'[mine[p]] = dir[mine[p]] /\ mine' = mine
      BY <1>0, <2>2, MineIs
    <3>2. QED
      BY <1>0, <3>1 DEF AtPlace, Exists
  <2>3. QED
    BY <2>1, <2>2
<1>4. \A m \in Names : Newer(m) => Newer(m)'
  BY DEF Newer
<1>5. pc[p] \in {"drop", "unlinkOld"} => pc[p] \in Holding /\ item[p][2] \in Names
  BY SoleHas DEF Holding
<1>6. QED
  BY <1>0, <1>1, <1>2, <1>3, <1>4, <1>5 DEF AtPlace, Done

\* What the spooler is about to publish.
LEMMA FreshIs ==
    ASSUME SoleInv, NEW p \in Procs, pc[p] = "publish", NEW n, n = fresh[p][2]
    PROVE  /\ n \in Names /\ n[1] = job[p] /\ n[1] = item[p][2][1] /\ fresh[p] = Live(n)
           /\ dir[Hidden(n)] = Partial /\ dir[Live(n)] = None /\ dir[Claimed(n)] = None
           /\ asked[job[p]] \in Nat /\ asked[job[p]] # 0 /\ asked[job[p]] < n[2]
           /\ item[p][2] \in Names /\ n[2] > item[p][2][2] /\ mine[p] = Claimed(item[p][2])
<1>1. pc[p] \in Holding /\ pc[p] \in Loaded /\ AtPlace(p)
  BY DEF Holding, Loaded, SoleInv
<1>2. n \in Names /\ fresh[p] = Live(n)
  BY <1>1, LiveOf DEF AtPlace
<1>3. dir[Live(n)] = None /\ dir[Claimed(n)] = None
  BY <1>1, <1>2, NonePartial DEF AtPlace, SoleInv, Contents
<1>4. Submitted(item[p][2][1]) /\ item[p][2] \in Names /\ item[p][2][1] \in Jobs
  BY <1>1, SoleHas
<1>5. asked[item[p][2][1]] \in Nat /\ asked[item[p][2][1]] # 0
  BY <1>4 DEF Submitted, SoleInv, TInv, TypeOK
<1>6. QED
  BY <1>1, <1>2, <1>3, <1>4, <1>5 DEF AtPlace

LEMMA SoleSubmit == ASSUME Sole, SoleInv, TInv', NEW j \in Jobs, Submit(j) PROVE SoleInv'
<1> DEFINE new == <<j, serial + 1>>
<1>1. /\ new \in Names /\ serial \in Nat /\ asked[j] = 0
      /\ \A m \in Names : /\ dir'[Live(m)] = dir[Live(m)] /\ dir'[Claimed(m)] = dir[Claimed(m)]
                          /\ dir'[Hidden(m)] = IF m = new THEN Partial ELSE dir[Hidden(m)]
      /\ Contents' /\ Given' /\ Numbered' /\ Carried'
  BY SoleBegins DEF Submit
<1>2. UNCHANGED <<pc, item, mine, job, fresh, sent, dismissed>> /\ asked' = [asked EXCEPT ![j] = serial + 1]
  BY DEF Submit
<1>3. ASSUME NEW p \in Procs PROVE AtPlace(p)'
  <2>1. pc[p] = "publish" => /\ asked'[job[p]] = asked[job[p]]
                             /\ dir'[Hidden(fresh[p][2])] = Partial
    <3>1. SUFFICES ASSUME pc[p] = "publish"
                   PROVE asked'[job[p]] = asked[job[p]] /\ dir'[Hidden(fresh[p][2])] = Partial
      OBVIOUS
    <3>2. fresh[p][2] \in Names /\ dir[Hidden(fresh[p][2])] = Partial /\ asked[job[p]] # 0
      BY <3>1, FreshIs
    <3>3. QED
      BY <1>1, <1>2, <3>2 DEF SoleInv, TInv, TypeOK
  <2>2. QED
    BY <1>1, <1>2, <2>1, SoleBystander
<1>4. QED
  BY <1>1, <1>3 DEF SoleInv

\* A file that is being written gets its name.
LEMMA SoleNamed ==
    ASSUME SoleInv, NEW n \in Names, dir[Hidden(n)] = Partial,
           dir' = [dir EXCEPT ![Live(n)] = n[1], ![Hidden(n)] = None],
           UNCHANGED <<serial, asked, sent, dismissed>>,
           Submitted(n[1]) \/ (n = FirstName(n[1]) /\ asked[n[1]] # 0)
    PROVE  /\ \A m \in Names : /\ dir'[Live(m)] = IF m = n THEN n[1] ELSE dir[Live(m)]
                               /\ dir'[Claimed(m)] = dir[Claimed(m)]
                               /\ dir'[Hidden(m)] = IF m = n THEN None ELSE dir[Hidden(m)]
           /\ n[1] # None
           /\ Contents' /\ Given' /\ Numbered' /\ Carried'
<1> USE ContentAssumption, NonePartial
<1>0. TypeOK /\ n[1] \in Jobs
  BY NameParts DEF SoleInv, TInv
<1>1. \A m \in Names : /\ dir'[Live(m)] = IF m = n THEN n[1] ELSE dir[Live(m)]
                       /\ dir'[Claimed(m)] = dir[Claimed(m)]
                       /\ dir'[Hidden(m)] = IF m = n THEN None ELSE dir[Hidden(m)]
  BY <1>0, PathsApart DEF TypeOK
<1>2. dir[Live(n)] = None /\ dir[Claimed(n)] = None
  BY DEF SoleInv, Contents
<1>3. ~(n[2] > serial)
  BY DEF SoleInv, Contents
<1>4. Contents'
  BY <1>0, <1>1, <1>2, <1>3 DEF SoleInv, Contents
<1>5. \A i \in Jobs : asked[i] # 0 => FirstName(i) \in Names /\ FirstName(i)[1] = i
  BY <1>0 DEF FirstName, Names, TypeOK
<1>6. \A i \in Jobs : Submitted(i) => Submitted(i)'
  BY <1>1, <1>5 DEF Submitted, Submitting, FirstName
<1>7. Submitted(n[1])'
  <2>1. CASE Submitted(n[1])
    BY <1>0, <1>6, <2>1
  <2>2. CASE n = FirstName(n[1]) /\ asked[n[1]] # 0
    BY <1>1, <2>2 DEF Submitted, Submitting, FirstName
  <2>3. QED
    BY <2>1, <2>2
<1>8. \A i \in Jobs : Submitted(i)' => Submitted(i) \/ i = n[1]
  <2>1. ASSUME NEW i \in Jobs, i # n[1], Submitted(i)' PROVE Submitted(i)
    <3>1. asked[i] # 0 /\ FirstName(i) # n /\ FirstName(i) \in Names
      BY <1>5, <2>1 DEF Submitted
    <3>2. QED
      BY <1>1, <2>1, <3>1 DEF Submitted, Submitting, FirstName
  <2>2. QED
    BY <2>1
<1>9. Given'
  BY <1>1, <1>2, <1>6, <1>7, NameParts DEF SoleInv, Given
<1>10. \A i \in Jobs : InQueue(i) => InQueue(i)'
  BY <1>1, <1>2 DEF InQueue
<1>11. InQueue(n[1])'
  BY <1>1 DEF InQueue
<1>12. Carried'
  BY <1>8, <1>10, <1>11 DEF SoleInv, Carried, Done
<1>13. QED
  BY <1>0, <1>1, <1>4, <1>9, <1>12 DEF SoleInv, Numbered

LEMMA SoleSubmitEnds == ASSUME Sole, SoleInv, TInv', NEW j \in Jobs, SubmitEnds(j) PROVE SoleInv'
<1> DEFINE n == FirstName(j)
<1>1. n \in Names /\ n[1] = j /\ n[2] = asked[j] /\ dir[Hidden(n)] = Partial /\ asked[j] # 0
  BY DEF SubmitEnds, Submitting, FirstName, Names, SoleInv, TInv, TypeOK
<1>2. dir' = [dir EXCEPT ![Live(n)] = n[1], ![Hidden(n)] = None]
  BY <1>1 DEF SubmitEnds
<1>3. UNCHANGED <<serial, asked, pc, item, mine, job, fresh, sent, dismissed>>
  BY DEF SubmitEnds
<1> HIDE DEF n
<1>4. /\ \A m \in Names : /\ dir'[Live(m)] = IF m = n THEN n[1] ELSE dir[Live(m)]
                          /\ dir'[Claimed(m)] = dir[Claimed(m)]
                          /\ dir'[Hidden(m)] = IF m = n THEN None ELSE dir[Hidden(m)]
      /\ n[1] # None
      /\ Contents' /\ Given' /\ Numbered' /\ Carried'
  <2>1. n = FirstName(n[1]) /\ asked[n[1]] # 0
    BY <1>1 DEF n
  <2>2. QED
    BY <1>1, <1>2, <1>3, <2>1, SoleNamed
<1>5. ASSUME NEW p \in Procs PROVE AtPlace(p)'
  <2>1. pc[p] = "publish" => dir'[Hidden(fresh[p][2])] = Partial
    <3>1. SUFFICES ASSUME pc[p] = "publish" PROVE dir'[Hidden(fresh[p][2])] = Partial
      OBVIOUS
    <3>2. /\ fresh[p][2] \in Names /\ dir[Hidden(fresh[p][2])] = Partial /\ fresh[p][2][1] = job[p]
          /\ asked[job[p]] \in Nat /\ asked[job[p]] < fresh[p][2][2]
      BY <3>1, FreshIs
    <3>3. fresh[p][2] # n
      BY <1>1, <3>2
    <3>4. QED
      BY <1>4, <3>2, <3>3
  <2>2. \A m \in Names : dir[Live(m)] # None => dir'[Live(m)] # None
    BY <1>4
  <2>3. QED
    BY <1>3, <1>4, <2>1, <2>2, SoleBystander
<1>6. QED
  BY <1>4, <1>5 DEF SoleInv

\* A file that is being written is deleted.
LEMMA SoleDropsHidden ==
    ASSUME SoleInv, NEW n \in Names, dir[Hidden(n)] = Partial,
           dir' = [dir EXCEPT ![Hidden(n)] = None], UNCHANGED <<serial, sent, dismissed>>,
           \/ asked' = asked /\ n # FirstName(n[1])
           \/ n = FirstName(n[1]) /\ asked' = [asked EXCEPT ![n[1]] = 0]
    PROVE  /\ \A m \in Names : /\ dir'[Live(m)] = dir[Live(m)] /\ dir'[Claimed(m)] = dir[Claimed(m)]
                               /\ dir'[Hidden(m)] = IF m = n THEN None ELSE dir[Hidden(m)]
           /\ Contents' /\ Given' /\ Numbered' /\ Carried'
<1>0. TypeOK /\ n[1] \in Jobs
  BY NameParts DEF SoleInv, TInv
<1>1. \A m \in Names : /\ dir'[Live(m)] = dir[Live(m)] /\ dir'[Claimed(m)] = dir[Claimed(m)]
                       /\ dir'[Hidden(m)] = IF m = n THEN None ELSE dir[Hidden(m)]
  BY <1>0, PathsApart DEF TypeOK
<1>2. Contents'
  BY <1>1 DEF SoleInv, Contents
<1>3. \A i \in Jobs : asked[i] # 0 => FirstName(i) \in Names /\ FirstName(i)[1] = i
  BY <1>0 DEF FirstName, Names, TypeOK
<1>4. ASSUME NEW i \in Jobs PROVE Submitted(i)' <=> Submitted(i)
  <2>1. CASE asked'[i] = asked[i] /\ (asked[i] # 0 => FirstName(i) # n)
    BY <1>1, <1>3, <2>1 DEF Submitted, Submitting, FirstName
  <2>2. CASE i = n[1] /\ n = FirstName(n[1]) /\ asked'[i] = 0
    BY <2>2 DEF Submitted, Submitting
  <2>3. QED
    <3>1. CASE asked' = asked /\ n # FirstName(n[1])
      BY <1>3, <2>1, <3>1
    <3>2. CASE n = FirstName(n[1]) /\ asked' = [asked EXCEPT ![n[1]] = 0] /\ i = n[1]
      BY <1>0, <2>2, <3>2 DEF TypeOK
    <3>3. CASE n = FirstName(n[1]) /\ asked' = [asked EXCEPT ![n[1]] = 0] /\ i # n[1]
      BY <1>0, <1>3, <2>1, <3>3 DEF TypeOK
    <3>4. QED
      BY <3>1, <3>2, <3>3
<1>5. Given'
  BY <1>1, <1>4, NameParts DEF SoleInv, Given
<1>6. \A i \in Jobs : InQueue(i)' <=> InQueue(i)
  BY <1>1 DEF InQueue
<1>7. Carried'
  BY <1>4, <1>6 DEF SoleInv, Carried, Done
<1>8. Numbered'
  BY <1>0, SpoolAssumption DEF SoleInv, Numbered, TypeOK
<1>9. QED
  BY <1>1, <1>2, <1>5, <1>7, <1>8

LEMMA SoleSubmitFails == ASSUME Sole, SoleInv, TInv', NEW j \in Jobs, SubmitFails(j) PROVE SoleInv'
<1> DEFINE n == FirstName(j)
<1>1. n \in Names /\ n[1] = j /\ n[2] = asked[j] /\ dir[Hidden(n)] = Partial /\ asked[j] # 0
  BY DEF SubmitFails, Submitting, FirstName, Names, SoleInv, TInv, TypeOK
<1>2. dir' = [dir EXCEPT ![Hidden(n)] = None]
  BY DEF SubmitFails
<1>3. UNCHANGED <<serial, pc, item, mine, job, fresh, sent, dismissed>> /\ asked' = [asked EXCEPT ![j] = 0]
  BY DEF SubmitFails
<1>s. n = FirstName(n[1]) /\ asked' = [asked EXCEPT ![n[1]] = 0] /\ ~Submitted(j)
  BY <1>1, <1>3 DEF Submitted, SubmitFails
<1> HIDE DEF n
<1>4. /\ \A m \in Names : /\ dir'[Live(m)] = dir[Live(m)] /\ dir'[Claimed(m)] = dir[Claimed(m)]
                          /\ dir'[Hidden(m)] = IF m = n THEN None ELSE dir[Hidden(m)]
      /\ Contents' /\ Given' /\ Numbered' /\ Carried'
  BY <1>1, <1>2, <1>3, <1>s, SoleDropsHidden
<1>5. ASSUME NEW p \in Procs PROVE AtPlace(p)'
  <2>1. pc[p] = "publish" => asked'[job[p]] = asked[job[p]] /\ dir'[Hidden(fresh[p][2])] = Partial
    <3>1. SUFFICES ASSUME pc[p] = "publish"
                   PROVE asked'[job[p]] = asked[job[p]] /\ dir'[Hidden(fresh[p][2])] = Partial
      OBVIOUS
    <3>2. /\ fresh[p][2] \in Names /\ dir[Hidden(fresh[p][2])] = Partial /\ fresh[p][2][1] = job[p]
          /\ asked[job[p]] \in Nat /\ asked[job[p]] < fresh[p][2][2] /\ job[p] = item[p][2][1]
      BY <3>1, FreshIs
    <3>3. fresh[p][2] # n
      BY <1>1, <3>2
    <3>4. Submitted(job[p])
      BY <3>1, <3>2, SoleHas DEF Holding
    <3>5. job[p] # j
      BY <1>s, <3>4
    <3>6. QED
      BY <1>3, <1>4, <3>2, <3>3, <3>5 DEF SoleInv, TInv, TypeOK
  <2>2. QED
    BY <1>3, <1>4, <2>1, SoleBystander
<1>6. QED
  BY <1>4, <1>5 DEF SoleInv

-----------------------------------------------------------------------------
LEMMA SoleRespoolWrite ==
    ASSUME Sole, SoleInv, TInv', NEW p \in Procs, RespoolWrite(p) PROVE SoleInv'
<1> DEFINE n == item[p][2]
           new == <<n[1], serial + 1>>
<1>0. TypeOK
  BY DEF SoleInv, TInv
<1>1. pc[p] \in Holding /\ pc[p] \in Loaded
  BY DEF RespoolWrite, Holding, Loaded
<1>2. /\ n \in Names /\ n[1] \in Jobs /\ n[2] \in Nat /\ n[2] <= serial /\ job[p] = n[1]
      /\ item[p] = Live(n) /\ mine[p] = Claimed(n) /\ dir[Claimed(n)] = n[1] /\ Submitted(n[1])
  BY <1>1, SoleHas DEF SoleInv, AtPlace
<1>3. /\ serial < MaxNames /\ serial' = serial + 1 /\ dir' = [dir EXCEPT ![Hidden(new)] = Partial]
      /\ fresh' = [fresh EXCEPT ![p] = Live(new)] /\ pc' = [pc EXCEPT ![p] = "publish"]
      /\ UNCHANGED <<asked, sent, dismissed, item, mine, job>>
  BY <1>2 DEF RespoolWrite, GoTo
<1>4. /\ new \in Names /\ serial \in Nat
      /\ \A m \in Names : /\ dir'[Live(m)] = dir[Live(m)] /\ dir'[Claimed(m)] = dir[Claimed(m)]
                          /\ dir'[Hidden(m)] = IF m = new THEN Partial ELSE dir[Hidden(m)]
      /\ Contents' /\ Given' /\ Numbered' /\ Carried'
  BY <1>2, <1>3, SoleBegins
<1>5. asked[n[1]] \in Nat /\ asked[n[1]] <= serial
  BY <1>0, <1>2 DEF TypeOK, SoleInv, Numbered
<1>6. pc'[p] = "publish" /\ fresh'[p] = Live(new)
  BY <1>0, <1>3 DEF TypeOK
<1>7. /\ fresh'[p] \in {"g"} \X Names /\ fresh'[p][2] = new /\ new[1] = n[1] /\ new[2] = serial + 1
  BY <1>4, <1>6 DEF Live
<1>8. "publish" \in Holding /\ "publish" \in Loaded
  BY DEF Holding, Loaded
<1>9. new[2] > n[2] /\ asked[n[1]] < new[2]
  BY <1>2, <1>4, <1>5, <1>7
<1>10. dir'[Hidden(new)] = Partial /\ dir'[Claimed(n)] = n[1]
  BY <1>2, <1>4
<1>11. item[p] \in {"g"} \X Names
  BY <1>1 DEF SoleInv, AtPlace
<1>. HIDE DEF new
<1>12. AtPlace(p)'
  BY <1>2, <1>3, <1>6, <1>7, <1>8, <1>9, <1>10, <1>11 DEF AtPlace
<1>13. QED
  BY <1>4, <1>12 DEF Sole, SoleInv

LEMMA SoleRespoolPublish ==
    ASSUME Sole, SoleInv, TInv', NEW p \in Procs, RespoolPublish(p) PROVE SoleInv'
<1>0. TypeOK
  BY DEF SoleInv, TInv
<1>1. pc[p] = "publish" /\ pc[p] \in Holding /\ pc[p] \in Loaded
  BY DEF RespoolPublish, Holding, Loaded
<1>n. PICK n \in Names : n = fresh[p][2]
  BY <1>1, FreshIs
<1>o. PICK o \in Names : o = item[p][2]
  BY <1>1, FreshIs
<1>2. /\ n \in Names /\ n[1] = job[p] /\ n[1] = o[1] /\ fresh[p] = Live(n) /\ dir[Hidden(n)] = Partial
      /\ o \in Names /\ n[2] > o[2] /\ mine[p] = Claimed(o)
  BY <1>1, <1>n, <1>o, FreshIs
<1>3. dir[Claimed(o)] = o[1] /\ Submitted(n[1]) /\ item[p] \in {"g"} \X Names
  BY <1>1, <1>2, <1>o, SoleHas DEF SoleInv, AtPlace
<1>4. /\ dir' = [dir EXCEPT ![Live(n)] = n[1], ![Hidden(n)] = None] /\ pc' = [pc EXCEPT ![p] = "unlinkOld"]
      /\ UNCHANGED <<serial, asked, sent, dismissed, item, mine, job>>
  BY <1>2, <1>n DEF RespoolPublish, GoTo
<1>a. (n = FirstName(n[1]) /\ asked[n[1]] # 0) \/ Submitted(n[1])
  BY <1>3
<1>b. n[1] \in Jobs
  BY <1>2, NameParts
<1>5. /\ \A m \in Names : /\ dir'[Live(m)] = IF m = n THEN n[1] ELSE dir[Live(m)]
                          /\ dir'[Claimed(m)] = dir[Claimed(m)]
                          /\ dir'[Hidden(m)] = IF m = n THEN None ELSE dir[Hidden(m)]
      /\ n[1] # None
      /\ Contents' /\ Given' /\ Numbered' /\ Carried'
  BY <1>2, <1>4, <1>a, <1>b, SoleNamed
<1>6. pc'[p] = "unlinkOld"
  BY <1>0, <1>4 DEF TypeOK
<1>7. Newer(o)'
  <2>1. dir'[Live(n)] # None
    BY <1>2, <1>5
  <2>2. QED
    BY <1>2, <2>1 DEF Newer
<1>8. "unlinkOld" \in Holding /\ "unlinkOld" \in Loaded
  BY DEF Holding, Loaded
<1>9. dir'[Claimed(o)] = o[1] /\ job[p] = o[1]
  BY <1>2, <1>3, <1>5
<1>10. Newer(item[p][2])'
  BY <1>4, <1>7, <1>o DEF Newer
<1>11. AtPlace(p)'
  BY <1>2, <1>3, <1>4, <1>6, <1>8, <1>9, <1>10, <1>n, <1>o DEF AtPlace
<1>12. QED
  BY <1>5, <1>11 DEF Sole, SoleInv

LEMMA SoleRespoolFails ==
    ASSUME Sole, SoleInv, TInv', NEW p \in Procs, RespoolFails(p) PROVE SoleInv'
<1>0. TypeOK
  BY DEF SoleInv, TInv
<1>1. CASE pc[p] = "respool"
  <2>1. dir' = dir /\ Gone(p) /\ UNCHANGED <<serial, asked, sent, dismissed>>
    BY <1>1 DEF RespoolFails
  <2>2. QED
    BY <2>1, SoleLeaves
<1>2. CASE pc[p] = "publish"
  <2>. DEFINE n == fresh[p][2]
  <2>1. /\ dir' = [dir EXCEPT ![Hidden(n)] = None] /\ Gone(p)
        /\ UNCHANGED <<serial, asked, sent, dismissed>>
    BY <1>2 DEF RespoolFails
  <2>2. n \in Names /\ n[1] = job[p] /\ dir[Hidden(n)] = Partial /\ asked[job[p]] \in Nat /\ asked[job[p]] < n[2]
    BY <1>2, FreshIs
  <2>3. n # FirstName(n[1])
    <3>1. FirstName(n[1])[2] = asked[job[p]]
      BY <2>2 DEF FirstName
    <3>2. QED
      BY <2>2, <3>1
  <2>4. Contents' /\ Given' /\ Numbered' /\ Carried'
    BY <2>1, <2>2, <2>3, SoleDropsHidden
  <2>5. pc'[p] = "off" /\ mine'[p] = NoFile
    BY <1>0, <2>1 DEF Gone, TypeOK
  <2>6. ~(Exists(mine[p])')
    BY <2>5 DEF Exists, NoFile, Paths, Files, Log
  <2>7. AtPlace(p)'
    BY <2>5, <2>6 DEF AtPlace, Holding, Loaded
  <2>8. QED
    BY <2>4, <2>7 DEF Sole, SoleInv
<1>3. QED
  BY <1>1, <1>2 DEF RespoolFails

\* The old file goes when the job is done with or has a newer one.
LEMMA SoleUnlink ==
    ASSUME Sole, SoleInv, TInv', NEW p \in Procs, UnlinkOld(p) \/ UnlinkDone(p) PROVE SoleInv'
<1>0. TypeOK
  BY DEF SoleInv, TInv
<1>1. pc[p] \in {"drop", "unlinkOld"} /\ pc[p] \in Holding /\ pc[p] \in Loaded
  BY DEF UnlinkOld, UnlinkDone, Holding, Loaded
<1>n. PICK n \in Names : n = item[p][2]
  BY <1>1, SoleHas DEF SoleInv, AtPlace
<1>2. PICK may : Unlink(p, may)
  BY DEF UnlinkOld, UnlinkDone
<1>3. n \in Names /\ n[1] \in Jobs /\ n[2] \in Nat /\ mine[p] = Claimed(n) /\ Exists(mine[p]) /\ job[p] = n[1]
  BY <1>1, <1>n, SoleHas DEF SoleInv, AtPlace
<1>4. /\ dir' = [dir EXCEPT ![Claimed(n)] = None] /\ pc' = [pc EXCEPT ![p] = "check"]
      /\ UNCHANGED <<serial, asked, sent, dismissed, item, mine>>
  BY <1>2, <1>3 DEF Unlink, GoTo, scan
<1>5. \A m \in Names : /\ dir'[Live(m)] = dir[Live(m)] /\ dir'[Hidden(m)] = dir[Hidden(m)]
                       /\ dir'[Claimed(m)] = IF m = n THEN None ELSE dir[Claimed(m)]
  BY <1>0, <1>3, <1>4, PathsApart DEF TypeOK
<1>6. Contents' /\ Numbered'
  BY <1>4, <1>5 DEF SoleInv, Contents, Numbered
<1>7. \A i \in Jobs : asked[i] # 0 => FirstName(i) \in Names
  BY <1>0 DEF FirstName, Names, TypeOK
<1>8. \A i \in Jobs : (Submitted(i)' <=> Submitted(i)) /\ (Done(i)' <=> Done(i))
  BY <1>4, <1>5, <1>7 DEF Submitted, Submitting, FirstName, Done
<1>9. Given'
  BY <1>5, <1>8, NameParts DEF SoleInv, Given
<1>10. \A i \in Jobs : i # n[1] /\ InQueue(i) => InQueue(i)'
  <2>1. dir[Claimed(n)] \in {None, n[1]}
    BY <1>3 DEF SoleInv, Contents
  <2>2. ASSUME NEW i \in Jobs, i # n[1], InQueue(i) PROVE InQueue(i)'
    <3>1. PICK m \in Names : i \in {dir[Live(m)], dir[Claimed(m)]}
      BY <2>2 DEF InQueue
    <3>2. i # None
      BY ContentAssumption
    <3>3. i \in {dir'[Live(m)], dir'[Claimed(m)]}
      BY <1>5, <2>1, <2>2, <3>1, <3>2
    <3>4. QED
      BY <3>3 DEF InQueue
  <2>3. QED
    BY <2>2
<1>11. Done(n[1]) \/ InQueue(n[1])'
  <2>1. CASE pc[p] = "drop"
    BY <1>3, <1>n, <2>1 DEF SoleInv, AtPlace
  <2>2. CASE pc[p] = "unlinkOld"
    <3>1. PICK m \in Names : m[1] = n[1] /\ m[2] > n[2] /\ (dir[Live(m)] # None \/ dir[Claimed(m)] # None)
      BY <1>n, <2>2 DEF SoleInv, AtPlace, Newer
    <3>2. m # n /\ (dir[Live(m)] = n[1] \/ dir[Claimed(m)] = n[1])
      BY <1>3, <3>1 DEF SoleInv, Contents
    <3>3. dir'[Live(m)] = dir[Live(m)] /\ dir'[Claimed(m)] = dir[Claimed(m)]
      BY <1>5, <3>1, <3>2
    <3>4. n[1] \in {dir'[Live(m)], dir'[Claimed(m)]}
      BY <3>2, <3>3
    <3>5. InQueue(n[1])'
      BY <3>1, <3>4 DEF InQueue
    <3>6. QED
      BY <3>5
  <2>3. QED
    BY <1>1, <2>1, <2>2
<1>12. Carried'
  <2>1. ASSUME NEW i \in Jobs, Submitted(i)' PROVE Done(i)' \/ InQueue(i)'
    <3>1. Done(i) \/ InQueue(i)
      BY <1>8, <2>1 DEF SoleInv, Carried
    <3>2. CASE i = n[1]
      BY <1>8, <1>11, <2>1, <3>2
    <3>3. CASE i # n[1]
      BY <1>8, <1>10, <2>1, <3>1, <3>3
    <3>4. QED
      BY <3>2, <3>3
  <2>2. QED
    BY <2>1 DEF Carried
<1>13. pc'[p] = "check" /\ mine'[p] = Claimed(n)
  BY <1>0, <1>3, <1>4 DEF TypeOK
<1>14. ~(Exists(mine[p])')
  BY <1>3, <1>5, <1>13 DEF Exists
<1>15. AtPlace(p)'
  BY <1>13, <1>14, <1>n DEF AtPlace, Holding, Loaded
<1>16. QED
  BY <1>6, <1>9, <1>12, <1>15 DEF Sole, SoleInv

LEMMA SoleIdle ==
    ASSUME SoleInv, TInv', UNCHANGED <<dir, serial, asked, sent, dismissed, pc, item, mine, job, fresh>>
    PROVE  SoleInv'
<1>1. Contents' /\ Given' /\ Numbered' /\ Carried'
  BY SoleFilesSame DEF Done
<1>2. \A m \in Names : dir'[Live(m)] = dir[Live(m)] /\ dir'[Claimed(m)] = dir[Claimed(m)]
  OBVIOUS
<1>3. \A p \in Procs : pc[p] = "publish" => dir'[Hidden(fresh[p][2])] = Partial
  BY FreshIs
<1>4. \A p \in Procs : AtPlace(p)'
  BY <1>2, <1>3, SoleBystander
<1>5. QED
  BY <1>1, <1>4 DEF SoleInv

LEMMA NextSole == ASSUME Sole, SoleInv, [Next]_vars PROVE SoleInv'
<1>0. TInv'
  BY NextTInv DEF SoleInv
<1>1. CASE UNCHANGED vars
  BY <1>0, <1>1, SoleIdle DEF vars, queue
<1>2. CASE \E n \in Names : ComesDue(n)
  BY <1>0, <1>2, SoleIdle DEF ComesDue
<1>3. CASE \E j \in Jobs : Submit(j) \/ SubmitEnds(j) \/ SubmitFails(j)
  BY <1>0, <1>3, SoleSubmit, SoleSubmitEnds, SoleSubmitFails
<1>4. CASE \E p \in Procs : Start(p) \/ Runs(p) \/ InitFails(p) \/ RespoolFails(p)
  BY <1>0, <1>4, SoleQuiet, SoleClaim, SoleSignalled, SoleRespoolWrite, SoleRespoolPublish,
     SoleRespoolFails, SoleUnlink DEF Runs
<1>5. CASE \E p \in Procs : SigExit(p) \/ Kill(p)
  BY <1>0, <1>5, SoleSignalled, SoleQuiet
<1>6. QED
  BY <1>1, <1>2, <1>3, <1>4, <1>5 DEF Next

\* One spooler loses no job, whatever signals it gets and wherever they or
\* its death reach it, and whatever fails: a job that was submitted is done
\* or in the queue.
THEOREM OneSpoolerLosesNoJob == ASSUME Sole PROVE Spec => []NoJobLost
<1>1. SoleInv /\ [Next]_vars => SoleInv'
  BY NextSole
<1>2. SoleInv => NoJobLost
  BY DEF SoleInv, Carried, NoJobLost, Done
<1>3. QED
  BY InitSole, <1>1, <1>2, PTL DEF Spec
=============================================================================
