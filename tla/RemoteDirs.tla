----------------------------- MODULE RemoteDirs -----------------------------
(***************************************************************************)
(* The calls of libncftp that move about and change the tree of remote     *)
(* directories: FTPChdir3 and FTPChdirList, FTPMkdir2, FTPDelete, FTPRmdir *)
(* and FTPRmdirRecursive.  None of them is one command: each changes the   *)
(* working directory of the server, which outlives the call, and finds its *)
(* way back by what PWD said, kept in the transfer buffer.                 *)
(*                                                                         *)
(* A path is the sequence of its names from the root.  What the server     *)
(* refuses is settled by its permissions, for good.                        *)
(***************************************************************************)
EXTENDS Integers, Sequences, SequencesExt, Functions

CONSTANTS
  Names,    \* names of files and directories
  Hidden,   \* those that a listing shows with -a only
  Sites,    \* the servers met: a subset of SiteKinds
  Trees,    \* what is on them: a set of [dirs, files, links, home]
  Args,     \* the paths that calls are given
  Depth,    \* bound: the length of a path
  Calls     \* bound: the calls of a session

Path == UNION {[1..n -> Names] : n \in 0..Depth}
SiteKinds == [closed : SUBSET Path, fixed : SUBSET Path, pwd : BOOLEAN, cdup : BOOLEAN,
              nlst : {"dots", "plain", "empty550", "noA"}]

ASSUME NamesAssumption == Hidden \subseteq Names /\ Depth \in Nat /\ Calls \in Nat
ASSUME ArgsAssumption  == Args \subseteq Path \ {<<>>}
ASSUME SitesAssumption == Sites \subseteq SiteKinds

VARIABLES
  site,               \* the server and its permissions
  dirs, files, links, \* its tree; a link leads to a directory
  cwd,                \* its working directory
  saved,              \* what was left of PWD's answer in cip->buf
  newCwd,             \* what a call with kChdirAndGetCWD tells its caller
  hasNLSTa,           \* cip->hasNLST_a is not kCommandNotAvailable
  dpc, job,           \* where the call is, and its arguments and variables
  lists,              \* the listings of the directories it is in, the innermost first
  dresult,            \* what it returned
  calls,              \* how many have begun
  before              \* history: cwd and the tree when it began, and whether it went through a link

dvars == <<site, dirs, files, links, cwd, saved, newCwd, hasNLSTa, dpc, job, lists, dresult, calls, before>>
tree  == <<dirs, files, links>>

Nowhere == <<"nowhere">>                 \* no directory: the buffer holds something else
NoJob == [op |-> "none", path |-> <<>>, abs |-> FALSE, recurse |-> FALSE, one |-> FALSE,
          mkd |-> FALSE, pwd |-> FALSE, list |-> FALSE, n |-> 0, k |-> 0, made |-> "none",
          named |-> {}, todo |-> {}, dir |-> "none", top |-> "none", res |-> "ok", err |-> "ok"]

NoCall == [job |-> NoJob, cwd |-> Nowhere, dirs |-> {}, files |-> {}, through |-> FALSE]

DInit ==
  /\ site \in Sites
  /\ \E t \in Trees : dirs = t.dirs /\ files = t.files /\ links = t.links /\ cwd = t.home
  /\ saved = Nowhere /\ newCwd = Nowhere /\ hasNLSTa = TRUE
  /\ dpc = "idle" /\ job = NoJob /\ lists = <<>> /\ dresult = "none"
  /\ calls = 0 /\ before = NoCall
-----------------------------------------------------------------------------
(* The server.  A directory is entered if it and all those above it are    *)
(* open, and changed if it is not fixed.                                   *)
Into(p)      == IF p \in DOMAIN links THEN links[p] ELSE p
Enterable(p) == p \in dirs /\ \A q \in site.closed : ~IsPrefix(q, p)
Writable(p)  == p # <<>> /\ Front(p) \in dirs /\ Enterable(Front(p)) /\ Front(p) \notin site.fixed
Inside(p)    == {q \in dirs \cup files \cup DOMAIN links : q # <<>> /\ Front(q) = p}
From(d, p)   == IF job.abs THEN p ELSE d \o p
Here(p)      == From(cwd, p)

CanMake(p)   == Writable(p) /\ p \notin dirs \cup files \cup DOMAIN links /\ Len(p) <= Depth
CanRemove(p) == Writable(p) /\ p \in dirs /\ Inside(p) = {}
CanDelete(p) == Writable(p) /\ p \in files \cup DOMAIN links

(* CWD, with what follows if it succeeds and if it does not.               *)
Enter(p, yes, no) ==
  IF Enterable(Into(p)) THEN cwd' = Into(p) /\ yes ELSE UNCHANGED cwd /\ no

Goto(l, j)   == dpc' = l /\ job' = j /\ UNCHANGED dresult
Leave(r)     == dpc' = "idle" /\ job' = NoJob /\ dresult' = r

(* FTPGetCWD into cip->buf; its failure is not looked at.                  *)
Keep == saved' = IF site.pwd THEN cwd ELSE saved
-----------------------------------------------------------------------------
(* FTPMkdir2.  If the directory can be entered it is there, and all that   *)
(* is left is to go back.                                                  *)
MkdirBegin ==
  /\ dpc = "idle"
  /\ \E p \in Args, a \in BOOLEAN, r \in BOOLEAN :
       Goto("mkTry", [NoJob EXCEPT !.op = "mkdir", !.path = p, !.abs = a, !.recurse = r])
  /\ Keep
  /\ UNCHANGED <<site, tree, cwd, newCwd, hasNLSTa, lists>>

(* The end of FTPMkdir2, which FTPChdir3 calls too.                        *)
MkdirReturns(r) == IF job.op = "chdir" THEN Goto("made", [job EXCEPT !.made = r]) ELSE Leave(r)

MkdirTry ==
  /\ dpc = "mkTry"
  /\ LET alone == ~job.recurse \/ (job.abs /\ Len(job.path) = 1) IN
     Enter(Here(job.path), Goto("mkBack", job),
           IF alone THEN Goto("mkOne", job) ELSE Goto("mkUp", [job EXCEPT !.n = Len(job.path) - 1]))
  /\ UNCHANGED <<site, tree, saved, newCwd, hasNLSTa, lists>>

MkdirBack ==
  /\ dpc = "mkBack"
  /\ Enter(saved, MkdirReturns("ok"), MkdirReturns("noWayBack"))
  /\ UNCHANGED <<site, tree, saved, newCwd, hasNLSTa, lists>>

MkdirOne ==
  /\ dpc = "mkOne"
  /\ IF CanMake(Here(job.path)) THEN dirs' = dirs \cup {Here(job.path)} /\ MkdirReturns("ok")
     ELSE UNCHANGED dirs /\ MkdirReturns("mkdFailed")
  /\ UNCHANGED <<site, files, links, cwd, saved, newCwd, hasNLSTa, lists>>

(* Upward, to a directory that is there: the first n names.  The root      *)
(* itself is not tried, so that of two new directories below the root      *)
(* none is made.                                                           *)
MkdirUp ==
  /\ dpc = "mkUp"
  /\ IF job.n > 0
       THEN /\ Enter(Here(SubSeq(job.path, 1, job.n)), Goto("mkMake", [job EXCEPT !.k = job.n]),
                     Goto("mkUp", [job EXCEPT !.n = @ - 1]))
     ELSE /\ IF job.abs THEN MkdirReturns("mkdFailed") ELSE Goto("mkMake", [job EXCEPT !.k = 0])
          /\ UNCHANGED <<cwd>>
  /\ UNCHANGED <<site, tree, saved, newCwd, hasNLSTa, lists>>

(* A defect to be caught: a failed MKD ends the call there.                *)
MkdirMakeStays ==
  /\ dpc = "mkMake"
  /\ LET next == cwd \o SubSeq(job.path, job.n + 1, job.k + 1) IN
     IF CanMake(next)
       THEN /\ dirs' = dirs \cup {next}
            /\ Goto(IF job.k + 1 = Len(job.path) THEN "mkHome" ELSE "mkMake", [job EXCEPT !.k = @ + 1])
     ELSE UNCHANGED dirs /\ MkdirReturns("mkdFailed")
  /\ UNCHANGED <<site, files, links, cwd, saved, newCwd, hasNLSTa, lists>>

(* From there downward, one directory after the other; then back.          *)
MkdirMake ==
  /\ dpc = "mkMake"
  /\ LET next == cwd \o SubSeq(job.path, job.n + 1, job.k + 1) IN
     IF CanMake(next)
       THEN /\ dirs' = dirs \cup {next}
            /\ Goto(IF job.k + 1 = Len(job.path) THEN "mkHome" ELSE "mkMake", [job EXCEPT !.k = @ + 1])
     ELSE UNCHANGED dirs /\ Goto("mkHome", [job EXCEPT !.err = "mkdFailed"])
  /\ UNCHANGED <<site, files, links, cwd, saved, newCwd, hasNLSTa, lists>>

MkdirHome ==
  /\ dpc = "mkHome"
  /\ Enter(saved, MkdirReturns(job.err), MkdirReturns(IF job.err = "ok" THEN "noWayBack" ELSE job.err))
  /\ UNCHANGED <<site, tree, saved, newCwd, hasNLSTa, lists>>
-----------------------------------------------------------------------------
(* FTPChdir3 and FTPChdirList (job.list): the whole path at once, making   *)
(* it if need be; then, if asked to, name by name.  FTPChdirList comes     *)
(* here with the path put together, and goes by itself name by name.       *)
ChdirBegin ==
  /\ dpc = "idle"
  /\ \E p \in Args, a \in BOOLEAN, f \in BOOLEAN, o \in BOOLEAN, m \in BOOLEAN,
        w \in BOOLEAN, l \in BOOLEAN :
       /\ f \/ o
       /\ Goto(IF f THEN "cdFull" ELSE "cdOne",
               [NoJob EXCEPT !.op = "chdir", !.path = p, !.abs = a, !.one = o, !.mkd = m, !.pwd = w, !.list = l])
  /\ UNCHANGED <<site, tree, cwd, saved, newCwd, hasNLSTa, lists>>

(* FTPChdirAndGetCWD, or FTPChdir: the answer to CWD may name the new      *)
(* directory; if it does not, PWD is asked, and when that fails the call   *)
(* has failed with the directory changed.                                  *)
Change(p, ask, yes, no) ==
  /\ IF ~Enterable(Into(p)) THEN no /\ UNCHANGED <<cwd, newCwd>>
     ELSE /\ cwd' = Into(p)
          /\ \/ yes /\ newCwd' = IF ask THEN cwd' ELSE newCwd
             \/ ask /\ ~site.pwd /\ no /\ UNCHANGED newCwd

NotAtOnce == IF job.one THEN Goto("cdOne", job) ELSE Leave("cwdFailed")

ChdirFull ==
  /\ dpc = "cdFull"
  /\ Change(Here(job.path), job.pwd, Leave("ok"), IF job.mkd THEN Goto("cdMkdir", job) ELSE NotAtOnce)
  /\ UNCHANGED <<site, tree, saved, hasNLSTa, lists>>

(* FTPMkdir, and then the whole path again.                                *)
ChdirMkdir ==
  /\ dpc = "cdMkdir" /\ Keep /\ Goto("mkTry", [job EXCEPT !.recurse = TRUE])
  /\ UNCHANGED <<site, tree, cwd, newCwd, hasNLSTa, lists>>

ChdirMade ==
  /\ dpc = "made"
  /\ LET onward == IF job.one THEN Goto("cdOne", [job EXCEPT !.n = 0, !.k = 0]) ELSE Leave("cwdFailed") IN
     IF job.made = "ok" THEN Change(Here(job.path), job.pwd, Leave("ok"), onward)
     ELSE onward /\ UNCHANGED <<cwd, newCwd>>
  /\ UNCHANGED <<site, tree, saved, hasNLSTa, lists>>

(* One name; an absolute path begins with the root.                        *)
AtRoot == job.abs /\ job.k = 0
OneDir == IF AtRoot THEN <<>> ELSE Append(cwd, job.path[job.n + 1])
IsLast == ~AtRoot /\ job.n + 1 = Len(job.path)
Onward == IF IsLast THEN Leave("ok")
          ELSE Goto("cdOne", IF AtRoot THEN [job EXCEPT !.k = 1] ELSE [job EXCEPT !.n = @ + 1])

ChdirOne ==
  /\ dpc = "cdOne"
  /\ Change(OneDir, IsLast /\ job.pwd, Onward,
            IF job.mkd /\ ~AtRoot THEN Goto("cdMake", job) ELSE Leave("cwdFailed"))
  /\ UNCHANGED <<site, tree, saved, hasNLSTa, lists>>

(* MKD, and then the name again; FTPChdirList does not ask where it is.    *)
ChdirMake ==
  /\ dpc = "cdMake"
  /\ IF CanMake(OneDir) THEN dirs' = dirs \cup {OneDir} /\ Goto("cdNew", job)
     ELSE UNCHANGED dirs /\ Leave("cwdFailed")
  /\ UNCHANGED <<site, files, links, cwd, saved, newCwd, hasNLSTa, lists>>

ChdirNew ==
  /\ dpc = "cdNew"
  /\ Change(OneDir, job.pwd /\ ~job.list, Onward, Leave("cwdFailed"))
  /\ UNCHANGED <<site, tree, saved, hasNLSTa, lists>>
-----------------------------------------------------------------------------
(* FTPRemoteGlob of everything: NLST -a, and if that is refused once, NLST *)
(* without, from then on.                                                  *)
Shown(d, a) == {n \in Names : Append(d, n) \in Inside(d) /\ (a \/ n \notin Hidden)}
Refuses(d, a) == (a /\ site.nlst = "noA") \/ (site.nlst = "empty550" /\ Shown(d, a) = {})
Glob(d) ==
  LET a    == hasNLSTa /\ ~Refuses(d, TRUE)
      none == Shown(d, a) = {} /\ ~(a /\ site.nlst = "dots")
  IN [a |-> a, names |-> Shown(d, a),
      err |-> IF ~a /\ Refuses(d, FALSE) THEN "listFailed" ELSE IF none THEN "noMatch" ELSE "ok"]

DeleteOf(p, yes, no) ==
  IF CanDelete(p)
    THEN files' = files \ {p} /\ links' = Restrict(links, DOMAIN links \ {p}) /\ yes
  ELSE UNCHANGED <<files, links>> /\ no
RmdirOf(p, yes, no) == IF CanRemove(p) THEN dirs' = dirs \ {p} /\ yes ELSE UNCHANGED dirs /\ no

(* FTPDelete and FTPRmdir, of one name or of what a pattern matched.       *)
RemoveBegin ==
  /\ dpc = "idle"
  /\ \E c \in {"DELE", "RMD"}, r \in BOOLEAN :
     LET j == [NoJob EXCEPT !.op = c, !.recurse = r] IN
     \/ \E n \in Names : Goto("rmItem", [j EXCEPT !.named = {n}, !.todo = {n}]) /\ UNCHANGED hasNLSTa
     \/ LET g == Glob(cwd) IN
        /\ hasNLSTa' = g.a
        /\ IF g.err = "ok" THEN Goto("rmItem", [j EXCEPT !.named = g.names, !.todo = g.names]) ELSE Leave(g.err)
  /\ UNCHANGED <<site, tree, cwd, saved, newCwd, lists>>

(* The next one: DELE, or RMD; then RMD and FTPRmdirRecursive if it may.   *)
RemoveItem ==
  /\ dpc = "rmItem" /\ job.todo # {}
  /\ \E n \in job.todo :
     LET p == Append(cwd, n)
         j == [job EXCEPT !.todo = @ \ {n}]
         failed == [j EXCEPT !.err = IF job.op = "DELE" THEN "deleFailed" ELSE "rmdFailed"]
         rmdir == RmdirOf(p, Goto("rmItem", j),
                          IF job.recurse THEN Goto("rmEnter", [j EXCEPT !.dir = n]) ELSE Goto("rmItem", failed))
     IN  IF job.op = "RMD" THEN rmdir /\ UNCHANGED <<files, links>>
         ELSE IF CanDelete(p) \/ ~job.recurse
           THEN DeleteOf(p, Goto("rmItem", j), Goto("rmItem", failed)) /\ UNCHANGED dirs
         ELSE rmdir /\ UNCHANGED <<files, links>>
  /\ UNCHANGED <<site, cwd, saved, newCwd, hasNLSTa, lists>>

RemoveReturns ==
  /\ dpc = "rmItem" /\ job.todo = {} /\ Leave(job.err)
  /\ UNCHANGED <<site, tree, cwd, saved, newCwd, hasNLSTa, lists>>

(* FTPRmdirRecursive: PWD and CWD.                                         *)
RmdirEnter ==
  /\ dpc = "rmEnter" /\ Keep
  /\ Enter(Append(cwd, job.dir), Goto("rmList", job), Goto("rmItem", [job EXCEPT !.err = "rmdFailed"]))
  /\ UNCHANGED <<site, tree, newCwd, hasNLSTa, lists>>

(* FTPRmdirRecursiveL2: the listing; then one name after the other.  What  *)
(* can be entered is a directory.                                          *)
RmdirList ==
  /\ dpc = "rmList"
  /\ LET g == Glob(cwd) IN
     /\ hasNLSTa' = g.a
     /\ lists' = Cons([todo |-> IF g.err = "ok" THEN g.names ELSE {}, in |-> job.top], lists)
     /\ Goto(IF g.err = "ok" THEN "rmEach" ELSE "rmUp", [job EXCEPT !.res = g.err])
  /\ UNCHANGED <<site, tree, cwd, saved, newCwd>>

RmdirEach ==
  /\ dpc = "rmEach" /\ lists[1].todo # {}
  /\ \E n \in lists[1].todo :
     LET p == Append(cwd, n) IN
     /\ lists' = [lists EXCEPT ![1].todo = @ \ {n}]
     /\ IF Enterable(Into(p))
          THEN cwd' = Into(p) /\ Goto("rmList", [job EXCEPT !.top = n]) /\ UNCHANGED <<files, links>>
        ELSE /\ UNCHANGED cwd
             /\ DeleteOf(p, Goto("rmEach", [job EXCEPT !.res = "ok"]), Goto("rmEach", [job EXCEPT !.res = "deleFailed"]))
  /\ UNCHANGED <<site, dirs, saved, newCwd, hasNLSTa>>

(* A level returns: CDUP, then RMD of the directory, if what was in it is  *)
(* gone for all that is known; else the levels above return too, each with *)
(* a CDUP of its own.                                                      *)
RmdirUp ==
  /\ dpc = "rmUp" \/ (dpc = "rmEach" /\ lists[1].todo = {})
  /\ lists' = Tail(lists)
  /\ IF Len(lists) = 1 THEN Goto("rmHome", job) /\ UNCHANGED <<cwd, dirs>>
     ELSE IF ~site.cdup
       THEN Goto("rmUp", [job EXCEPT !.res = "noWayBack"]) /\ UNCHANGED <<cwd, dirs>>
     ELSE /\ cwd' = IF cwd = <<>> THEN <<>> ELSE Front(cwd)
          /\ IF job.res \notin {"ok", "noMatch"} THEN Goto("rmUp", job) /\ UNCHANGED dirs
             ELSE LET p == Append(cwd', lists[1].in) IN
                  RmdirOf(p, Goto("rmEach", [job EXCEPT !.res = "ok"]), Goto("rmUp", [job EXCEPT !.res = "rmdFailed"]))
  /\ UNCHANGED <<site, files, links, saved, newCwd, hasNLSTa>>

(* Back to where PWD said, and RMD of the directory itself.  If there is   *)
(* no way back and nothing failed so far the call returns kNoErr.          *)
RmdirHome ==
  /\ dpc = "rmHome"
  /\ LET next(e) == Goto("rmItem", [job EXCEPT !.err = IF e = "ok" THEN @ ELSE "rmdFailed"]) IN
     IF ~Enterable(saved) THEN next(job.res) /\ UNCHANGED <<cwd, dirs>>
     ELSE /\ cwd' = saved
          /\ LET p == Append(saved, job.dir) IN
             RmdirOf(p, next(job.res), next("rmdFailed"))
  /\ UNCHANGED <<site, files, links, saved, newCwd, hasNLSTa, lists>>
-----------------------------------------------------------------------------
Call == \/ MkdirTry \/ MkdirBack \/ MkdirOne \/ MkdirUp \/ MkdirMake \/ MkdirHome
        \/ ChdirFull \/ ChdirMkdir \/ ChdirMade \/ ChdirOne \/ ChdirMake \/ ChdirNew
        \/ RemoveItem \/ RemoveReturns
        \/ RmdirEnter \/ RmdirList \/ RmdirEach \/ RmdirUp \/ RmdirHome
Begin == MkdirBegin \/ ChdirBegin \/ RemoveBegin

(* The history variable is set by the call that begins, and cleared when   *)
(* it returns.                                                             *)
DNext ==
  \/ Begin /\ calls < Calls /\ calls' = calls + 1
     /\ before' = IF dpc' = "idle" THEN NoCall
                  ELSE [job |-> job', cwd |-> cwd, dirs |-> dirs, files |-> files, through |-> FALSE]
  \/ Call /\ UNCHANGED calls
     /\ before' = IF dpc' = "idle" THEN NoCall
                  ELSE [before EXCEPT !.through = @ \/ cwd' \in Range(links)]
DSpec == DInit /\ [][DNext]_dvars
-----------------------------------------------------------------------------
DTypeOK ==
  /\ site \in Sites /\ dirs \subseteq Path /\ files \subseteq Path /\ cwd \in dirs
  /\ saved \in Path \cup {Nowhere} /\ newCwd \in Path \cup {Nowhere}
  /\ dpc = "idle" => lists = <<>> /\ job = NoJob
  /\ \A d \in dirs : d # <<>> => Front(d) \in dirs

Returns(ops) == before.job.op \in ops /\ dpc' = "idle"
Asked(p) == IF before.job.abs THEN p ELSE before.cwd \o p
Named    == {Append(before.cwd, n) : n \in before.job.named}

(* Whatever the server refuses, FTPMkdir and the removals leave the client *)
(* where it was, if PWD could tell them where that is.                     *)
ComesHome == [][Returns({"mkdir", "DELE", "RMD"}) /\ site.pwd => cwd' = before.cwd]_dvars

(* When FTPMkdir returns kNoErr the directory is there.  When a recursive  *)
(* one meets no obstacle it does return kNoErr, unless an absolute path    *)
(* has nothing but the root to begin from.                                 *)
Free(p) == p \notin before.files /\ p \notin DOMAIN links /\ Len(p) <= Depth
MkdirMakes ==
  [][(Returns({"mkdir"}) /\ ~before.through) =>
       LET path == before.job.path IN
       /\ dresult' = "ok" => Asked(path) \in dirs'
       /\ (/\ before.job.recurse /\ site.pwd /\ site.closed = {} /\ site.fixed = {}
           /\ \A k \in 1..Len(path) : Free(Asked(SubSeq(path, 1, k)))
           /\ before.job.abs => Len(path) = 1 \/ Asked(<<path[1]>>) \in before.dirs)
          => dresult' = "ok"]_dvars

(* When FTPChdir3 or FTPChdirList returns kNoErr the client is where it    *)
(* asked to be and what it was told is true, on a server that answers PWD; *)
(* but FTPChdirList, when it had to make the last directory, does not say. *)
ChdirArrives ==
  [][(Returns({"chdir"}) /\ dresult' = "ok" /\ site.pwd /\ ~before.through /\ cwd' \notin Range(links)) =>
       /\ cwd' = Asked(before.job.path)
       /\ before.job.pwd /\ (before.job.list => dirs = before.dirs) => newCwd' = cwd']_dvars

(* Nothing is removed but what was named and what is below it, unless the  *)
(* walk went through a link.                                               *)
RemovedBelow ==
  [][(before # NoCall /\ ~before.through) =>
       \A p \in (dirs \cup files) \ (dirs' \cup files') : \E d \in Named : IsPrefix(d, p)]_dvars

(* A recursive removal that is allowed everything removes everything, from *)
(* a server whose listing of an empty directory is no error.               *)
RemovesAll ==
  [][(/\ Returns({"DELE", "RMD"}) /\ before.job.recurse /\ ~before.through
      /\ site.pwd /\ site.cdup /\ site.closed = {} /\ site.fixed = {} /\ site.nlst \in {"dots", "plain"}
      /\ Named \subseteq before.dirs \cup (IF before.job.op = "RMD" THEN {} ELSE before.files))
     => dresult' = "ok" /\ Named \cap (dirs' \cup files') = {}]_dvars
=============================================================================
