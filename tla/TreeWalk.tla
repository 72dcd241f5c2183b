------------------------------ MODULE TreeWalk ------------------------------
(***************************************************************************)
(* Whole directory trees: get -R and put -R (FTPGetFiles3, FTPPutFiles3)   *)
(* and bgget -R and bgput -R (SpoolGetCmd, SpoolPutCmd).  All four walk    *)
(* the source tree with Ftw or FTPFtw, which visit the files of a          *)
(* directory first and then its subdirectories, one after the other, in a  *)
(* single path buffer; get and put make a list of what they visit and then *)
(* work through it, the other two act on each item as it is visited.       *)
(*                                                                         *)
(* A path is the sequence of its components; the first may be "/" or ".";  *)
(* "cut" is a component that has lost a letter, "none" that of no name.    *)
(* A tree is a function from absolute paths (without the "/") to kinds:    *)
(* "d" a directory, "u" one that cannot be listed, "-" a file, "l" a       *)
(* symbolic link that leads nowhere, "?" anything else.  In the            *)
(* destination they stand in tuples: a file has the path it was copied     *)
(* from after its "-".                                                     *)
(***************************************************************************)
EXTENDS Integers, Sequences, FiniteSets

CONSTANTS
  Worlds,     \* the source trees
  Cwd,        \* the working directory on the source's side
  Dst,        \* the one on the destination's side, where the copy goes
  Items,      \* arguments: paths, without a trailing slash
  Ops,        \* of "get", "put", "bgget", "bgput"; and "bgfile", one of the last two without -R
  Long,       \* the length of each component, of "/", ".", "cut" and "none", too
  Alloc0,     \* FtwInfo.curPathAllocSize at first
  Spare,      \* what a grown buffer has to spare: 30
  MaxDepth,   \* xinfo.limitMaxDepth: 50
  MaxTrouble  \* how many kinds of things go wrong

Names == DOMAIN Long \ {"/", ".", "cut", "none"}

(* What is above something is a directory, as the two working directories  *)
(* are; an argument is ".", or begins with "/" or a name.                  *)
IsTree(w) ==
  /\ DOMAIN w \subseteq Seq(Names) /\ Cwd \in DOMAIN w /\ w[Cwd] \in {"d", "u"}
  /\ \A p \in DOMAIN w : /\ w[p] \in {"d", "u", "-", "l", "?"}
                        /\ \A n \in 0..(Len(p) - 1) : SubSeq(p, 1, n) \in DOMAIN w /\ w[SubSeq(p, 1, n)] \in {"d", "u"}
TrAssumption ==
  /\ Cwd \in Seq(Names) /\ Dst \in Seq(Names) /\ \A w \in Worlds : IsTree(w)
  /\ \A i \in Items : i = <<".">> \/ (i # <<>> /\ i \in Seq(Names \cup {"/"}) /\ Tail(i) \in Seq(Names))
  /\ Ops \subseteq {"get", "put", "bgget", "bgput", "bgfile"}
  /\ Long \in [DOMAIN Long -> Nat] /\ {"/", ".", "cut", "none"} \subseteq DOMAIN Long
  /\ Alloc0 \in Nat /\ Spare \in Nat /\ MaxDepth \in Nat

VARIABLES
  world,         \* the source
  target,        \* the destination
  task,          \* the call: its operation, its argument, what a remote listing tells
  stack,         \* FtwTraverse's frames, the innermost first
  depth, alloc,  \* ftwip->depth, ftwip->curPathAllocSize
  there,         \* the working directory on the source's side
  plan,          \* the list of files; for bgget and bgput the jobs spooled
  at, pass,      \* where the call is, and in the list
  outcome,       \* batchResult: "ok" or "bad"
  trouble        \* what went wrong

trvars == <<world, target, task, stack, depth, alloc, there, plan, at, pass, outcome, trouble>>
walkvars == <<stack, depth, alloc>>
workvars == <<there, plan, pass>>

Remote   == task.op \in {"get", "bgget"}
Spooling == task.op \in {"bgget", "bgput", "bgfile"}

\* what a path is in, its last component, and a path that is in another or that one
Parent(p) == SubSeq(p, 1, Len(p) - 1)
Name(p)   == p[Len(p)]
Within(d, p) == Len(d) <= Len(p) /\ SubSeq(p, 1, Len(d)) = d
\* CompressPath, for paths without ".."
Compressed(p) ==
  LET kept[n \in 0..Len(p)] == IF n = 0 THEN <<>>
                               ELSE IF p[n] \in {".", "/"} THEN kept[n - 1] ELSE Append(kept[n - 1], p[n])
  IN kept[Len(p)]
From(dir, p) == IF p # <<>> /\ Head(p) = "/" THEN Compressed(p) ELSE dir \o Compressed(p)
KindOf(t, p)     == IF p \in DOMAIN t THEN t[p] ELSE "none"
What(t, p) == IF p \in DOMAIN t THEN Head(t[p]) ELSE "none"     \* in the destination
NamesIn(t, p) == {Name(q) : q \in {r \in DOMAIN t : r # <<>> /\ Parent(r) = p}}
Put(t, p, k) == [q \in DOMAIN t \cup {p} |-> IF q = p THEN k ELSE t[q]]
\* dirPathLen, the slash at the end included
DirLen(p) == LET len[n \in 0..Len(p)] == IF n = 0 THEN 0 ELSE len[n - 1] + Long[p[n]] + 1 IN len[Len(p)]
Tops(p) == {SubSeq(p, 1, n) : n \in 0..Len(p)}

TrInit ==
  /\ world \in Worlds
  /\ task \in [op : Ops, item : Items, lists : {"kinds", "names"}]
  /\ task.op \notin {"get", "bgget"} => task.lists = "kinds"
  /\ target = [p \in Tops(Dst) |-> <<"d">>]
  /\ stack = <<>> /\ depth = 0 /\ alloc = Alloc0 /\ there = Cwd
  /\ plan = <<>> /\ at = "start" /\ pass = 1 /\ outcome = "ok" /\ trouble = {}

Steps     == UNCHANGED <<world, task>>
\* Something is refused or fails, or the user cancels.
Happens(t) == Cardinality(trouble) < MaxTrouble /\ trouble' = trouble \cup {t}
Untroubled == UNCHANGED trouble

\* A defect to be caught: mkdir, which does not make what is above.
MkDirsBarely(t, p) == IF What(t, p) = "none" THEN Put(t, p, <<"d">>) ELSE t
MkDirs(t, p) == IF \A q \in Tops(p) : What(t, q) \in {"none", "d"}
                THEN [q \in DOMAIN t \cup Tops(p) |-> IF q \in Tops(p) THEN <<"d">> ELSE t[q]]
                ELSE t

-----------------------------------------------------------------------------
(* What the walk calls for each item.  An entry of the list has the path   *)
(* to copy from and the one to copy to; a job is the same.                 *)

\* FTPRemoteFtwProc and FTPLocalRecursiveFileListFtwProc.  A get walks ".", from
\* inside; a put leaves out what precedes the last component of its argument.
RelName(text) ==
  IF Head(text) = "." \/ task.item = <<"/">> THEN Tail(text) ELSE SubSeq(text, Len(task.item), Len(text))
Listed(text, k) == [kind |-> k, from |-> IF task.op = "get" THEN <<>> ELSE text, to |-> RelName(text)]

\* BggetFtwProc and BgputFtwProc: the files of the first directory of "." and of
\* "/" are taken to be in the working directories.
TopLevel(text) == Head(text) \in {"/", "."} /\ Len(text) <= 2
BaseRel(text)  == Compressed(SubSeq(text, Len(task.item), Len(text)))
ThereDir(text) == IF TopLevel(text) THEN Dst ELSE Parent(Dst \o BaseRel(text))
HereDir(text)  == IF TopLevel(text) THEN Cwd
                  ELSE Parent(IF task.op = "bgget" THEN Cwd \o Compressed(text) ELSE From(Cwd, text))
JobFor(text, n) == [kind |-> "-", from |-> HereDir(text) \o <<n>>, to |-> ThereDir(text) \o <<n>>]

\* limitMaxDepth and BggetFtwProc's own limit
TooDeep == Remote /\ depth >= MaxDepth

(* The call for an item of kind k, by the name n, when it returns 0.       *)
Visit(text, n, k) ==
  \/ /\ task.op \in {"get", "put"}
     /\ plan' = IF text = <<".">> THEN plan ELSE Append(plan, Listed(text, k))
     /\ UNCHANGED target
  \/ /\ Spooling /\ k = "-"
     /\ plan' = Append(plan, JobFor(text, n)) /\ UNCHANGED target
  \/ /\ Spooling /\ k = "d"
     /\ target' = IF text = <<"/">> THEN target ELSE MkDirs(target, Compressed(ThereDir(text) \o <<n>>))
     /\ UNCHANGED plan
  \/ /\ task.op = "bgget" /\ k = "l"
     /\ LET to == ThereDir(text) \o <<n>>
        IN target' = IF What(target, Parent(to)) = "d" /\ to \notin DOMAIN target THEN Put(target, to, <<"l">>) ELSE target
     /\ UNCHANGED plan
  \/ task.op = "bgput" /\ k = "l" /\ UNCHANGED <<plan, target>>   \* rlinkto is not set

-----------------------------------------------------------------------------
(* The walk.                                                               *)

Frame   == Head(stack)
Walking == at = "walk" /\ stack # <<>>
Done    == at \in {"done", "wild"}
Opened(d, text) == [dir |-> d, text |-> text, left |-> NamesIn(world, d), subs |-> <<>>, grown |-> FALSE]
\* A remote directory with nothing in it is taken for one that cannot be listed.
Opens(d) == KindOf(world, d) = "d" /\ (Remote => NamesIn(world, d) # {})

Abort == stack' = <<>> /\ at' = "aborted" /\ UNCHANGED <<plan, target>>

(* The first call, and FtwTraverse on the argument.                        *)
BeginWalk(text) ==
  LET d == From(there', text) IN
  /\ stack' = IF Opens(d) THEN <<Opened(d, text)>> ELSE <<>>
  /\ depth' = IF Opens(d) THEN 1 ELSE 0
  /\ at' = "walk"
  /\ Visit(text, Name(text), "d")
  /\ UNCHANGED alloc

\* What the walk takes an entry for: Lstat, the listing's word, or FTPIsDir.
Seen(path, d) ==
  IF Remote /\ task.lists = "kinds" THEN LET k == KindOf(world, d) IN IF k = "u" THEN "d" ELSE k
  ELSE LET k == KindOf(world, From(there, path)) IN
       IF k = "u" THEN "d" ELSE IF Remote /\ k \in {"l", "?"} THEN "-" ELSE k

(* One entry of the directory: a file or a link is visited, a subdirectory *)
(* waits.  A buffer that is too small grows, and a second slash is put in. *)
WalkEntry ==
  /\ Walking /\ Steps /\ Untroubled
  /\ \E n \in Frame.left :
       LET path  == Append(Frame.text, n)
           k     == Seen(path, Append(Frame.dir, n))
           need  == DirLen(Frame.text) + Long[n] + 1
           grows == need > alloc
           next  == [Frame EXCEPT !.left = @ \ {n}, !.grown = @ \/ grows,
                                  !.subs = IF k = "d" THEN Append(@, n) ELSE @]
       IN /\ alloc' = IF grows THEN need + Spare ELSE alloc
          /\ \/ k \in {"-", "l"} /\ TooDeep /\ Abort
             \/ /\ k \in {"-", "l"} /\ ~TooDeep
                /\ Visit(path, n, k) /\ stack' = <<next>> \o Tail(stack) /\ UNCHANGED at
             \/ k \notin {"-", "l"} /\ stack' = <<next>> \o Tail(stack) /\ UNCHANGED <<plan, target, at>>
  /\ UNCHANGED <<depth, there, pass, outcome>>

\* After the buffer has grown the name starts one further than its offset
\* says, and the slash for the subdirectory's entries lands on its last letter.
Entered(f, n) == IF f.grown THEN Append(f.text, "cut") ELSE Append(f.text, n)

(* The next subdirectory, when all entries have been read.                 *)
WalkSub ==
  /\ Walking /\ Frame.left = {} /\ Frame.subs # <<>> /\ Steps /\ Untroubled
  /\ LET n    == Head(Frame.subs)
         path == Append(Frame.text, n)
         d    == Append(Frame.dir, n)
         next == [Frame EXCEPT !.subs = Tail(@), !.grown = FALSE]
     IN \/ TooDeep /\ Abort /\ UNCHANGED depth
        \/ /\ ~TooDeep /\ Visit(path, n, "d")
           /\ LET opens == From(there, path) = d /\ Opens(d) IN
              /\ stack' = (IF opens THEN <<Opened(d, Entered(Frame, n))>> ELSE <<>>) \o <<next>> \o Tail(stack)
              /\ depth' = IF opens THEN Len(stack) + 1 ELSE depth
           /\ UNCHANGED at
  /\ UNCHANGED <<alloc, there, pass, outcome>>

\* BgputFtwProc: the directory cannot be made, and the walk ends.
WalkRefused ==
  /\ Walking /\ task.op = "bgput" /\ Frame.left = {} /\ Frame.subs # <<>> /\ Happens("mkdir")
  /\ Abort /\ Steps /\ UNCHANGED <<depth, alloc, there, pass, outcome>>

WalkUp ==
  /\ Walking /\ Frame.left = {} /\ Frame.subs = <<>>
  /\ stack' = Tail(stack)
  /\ Steps /\ Untroubled /\ UNCHANGED <<target, depth, alloc, there, plan, at, pass, outcome>>

-----------------------------------------------------------------------------
(* Before and after the walk.                                              *)

ItemKind == KindOf(world, From(Cwd, task.item))
IsDir    == ItemKind \in {"d", "u"}
Plain(from, to) == <<[kind |-> "-", from |-> from, to |-> to]>>
Base     == Compressed(<<Name(task.item)>>)
NoName   == <<"none">>

(* FTPGetFiles3 for a directory: FTPRemoteRecursiveFileList2 enters it and *)
(* walks ".", so that the names are relative.                              *)
GetTree ==
  /\ at = "start" /\ task.op = "get" /\ IsDir /\ Steps
  /\ \/ /\ Untroubled /\ there' = From(Cwd, task.item) /\ BeginWalk(<<".">>) /\ UNCHANGED pass
     \* PWD is refused: the list that is worked through next is not initialized
     \/ /\ Happens("pwd") /\ at' = "wild" /\ UNCHANGED <<walkvars, workvars, target>>
     \* CWD is refused: a plain file, of which nobody computes the remote name
     \/ /\ Happens("cwd") /\ at' = "work" /\ plan' = Plain(NoName, Dst \o Base \o Compressed(task.item))
        /\ UNCHANGED <<walkvars, there, pass, target>>
  /\ UNCHANGED outcome

(* What is not a directory: with the name it has, in the destination.      *)
GetFile ==
  /\ at = "start" /\ task.op = "get" /\ ~IsDir
  /\ plan' = Plain(task.item, Dst \o Base) /\ at' = "work"
  /\ Steps /\ Untroubled /\ UNCHANGED <<walkvars, there, pass, target, outcome>>

(* FTPLocalRecursiveFileList2, after Stat.                                 *)
PutTree ==
  /\ at = "start" /\ task.op = "put" /\ Steps /\ Untroubled
  /\ \/ /\ IsDir /\ there' = there /\ BeginWalk(task.item) /\ UNCHANGED outcome
     \/ /\ ItemKind \in {"-", "?"} /\ plan' = Plain(task.item, Base) /\ at' = "listed"
        /\ UNCHANGED <<walkvars, there, target, outcome>>
     \/ /\ ItemKind \in {"l", "none"} /\ at' = "done" /\ outcome' = "bad"   \* kErrNoValidFilesSpecified
        /\ UNCHANGED <<walkvars, there, plan, target>>
  /\ UNCHANGED pass

(* SpoolGetCmd and SpoolPutCmd give the argument to FTPFtw and Ftw.        *)
SpoolTree ==
  /\ at = "start" /\ task.op \in {"bgget", "bgput"} /\ Steps /\ Untroubled /\ there' = there
  /\ \/ IsDir /\ BeginWalk(task.item) /\ UNCHANGED outcome
     \/ ~IsDir /\ at' = "done" /\ outcome' = "bad" /\ UNCHANGED <<walkvars, plan, target>>
  /\ UNCHANGED pass

(* Without -R: a job for the argument, by its last component.              *)
SpoolFile ==
  /\ at = "start" /\ task.op = "bgfile"
  /\ plan' = Plain(From(Cwd, task.item), Dst \o Base) /\ at' = "done"
  /\ Steps /\ Untroubled /\ UNCHANGED <<walkvars, there, pass, target, outcome>>

(* ComputeRNames and ComputeLNames: the remote name goes through the       *)
(* argument, the local one through its last component.                     *)
GetNames(e) == [kind |-> e.kind, from |-> IF task.item = <<".">> THEN e.to ELSE task.item \o e.to,
                to |-> Dst \o Base \o Compressed(e.to)]
GetUnnamed(e) == [kind |-> e.kind, from |-> NoName, to |-> Dst \o Base \o Compressed(e.to)]

(* The walk of a get has ended, or was given up, and then the names are    *)
(* left out; the way back may be refused, which FTPGetFiles3 ignores.      *)
GetListed ==
  /\ task.op = "get" /\ ((at = "walk" /\ stack = <<>>) \/ at = "aborted")
  /\ plan' = [i \in DOMAIN plan |-> IF at = "aborted" THEN GetUnnamed(plan[i]) ELSE GetNames(plan[i])]
  /\ at' = "work"
  /\ \/ there' = Cwd /\ Untroubled
     \/ Happens("back") /\ UNCHANGED there
  /\ Steps /\ UNCHANGED <<walkvars, pass, target, outcome>>

PutListed ==
  /\ task.op = "put" /\ ((at = "walk" /\ stack = <<>>) \/ at = "listed")
  /\ IF plan = <<>> THEN at' = "done" /\ outcome' = "bad" ELSE at' = "work" /\ UNCHANGED outcome
  /\ plan' = [i \in DOMAIN plan |-> [plan[i] EXCEPT !.to = Dst \o Compressed(@)]]
  /\ Steps /\ Untroubled /\ UNCHANGED <<walkvars, there, pass, target>>

SpoolEnds ==
  /\ Spooling /\ ((at = "walk" /\ stack = <<>>) \/ at = "aborted")
  /\ outcome' = IF at = "aborted" THEN "bad" ELSE outcome
  /\ at' = "done" /\ Steps /\ Untroubled /\ UNCHANGED <<walkvars, workvars, target>>

-----------------------------------------------------------------------------
(* Working through the list.                                               *)

Entry   == plan[pass]
Working(op) == at = "work" /\ task.op = op /\ pass <= Len(plan) /\ Steps
Further == pass' = pass + 1 /\ UNCHANGED <<walkvars, there, plan, at>>
Source(e) == From(there, e.from)
Fetched(e) == <<"-">> \o Source(e)
Latched(r) == IF r = "ok" THEN outcome ELSE r

(* FTPGetOneF or FTPPutOneF: the file arrives, or its transfer fails.      *)
Transferred(t, ok) ==
  \/ /\ ok /\ target' = Put(t, Entry.to, Fetched(Entry)) /\ outcome' = Latched("ok") /\ Untroubled /\ Further
  \/ /\ ~ok /\ target' = t /\ outcome' = Latched("bad") /\ Untroubled /\ Further
  \/ /\ target' = t /\ outcome' = Latched("bad") /\ Happens("fails") /\ Further
  \* the user cancels: the loop ends, and nothing is done about the links
  \/ /\ target' = t /\ outcome' = Latched("bad") /\ Happens("cancel")
     /\ at' = "done" /\ UNCHANGED <<walkvars, workvars>>

HasParent(t, p) == p # <<>> /\ What(t, Parent(p)) = "d" /\ What(t, p) # "d"
Sendable(e)     == e.from # NoName /\ KindOf(world, Source(e)) = "-"

GetOne ==
  /\ Working("get")
  /\ \/ Entry.kind = "d" /\ target' = MkDirs(target, Entry.to) /\ Untroubled /\ Further /\ UNCHANGED outcome
     \/ Entry.kind = "l" /\ UNCHANGED <<target, outcome>> /\ Untroubled /\ Further
     \/ /\ Entry.kind = "-"
        /\ LET t == IF IsDir THEN MkDirs(target, Parent(Entry.to)) ELSE target
           IN Transferred(t, HasParent(t, Entry.to) /\ Sendable(Entry))

PutOne ==
  /\ Working("put")
  /\ \/ /\ Entry.kind = "d" /\ Untroubled /\ Further     \* FTPMkdir; one that is there already will do
        /\ \/ What(target, Entry.to) = "d" /\ UNCHANGED <<target, outcome>>
           \/ HasParent(target, Entry.to) /\ target' = Put(target, Entry.to, <<"d">>) /\ UNCHANGED outcome
           \/ What(target, Parent(Entry.to)) # "d" /\ outcome' = Latched("bad") /\ UNCHANGED target
     \/ Entry.kind = "d" /\ Happens("mkdir") /\ outcome' = Latched("bad") /\ Further /\ UNCHANGED target
     \/ /\ Entry.kind = "l" /\ UNCHANGED outcome /\ Further     \* SITE SYMLINK; its answer is ignored
        /\ \/ target' = (IF HasParent(target, Entry.to) THEN Put(target, Entry.to, <<"l">>) ELSE target) /\ Untroubled
           \/ Happens("link") /\ UNCHANGED target
     \/ Entry.kind = "-" /\ Transferred(target, HasParent(target, Entry.to) /\ Sendable(Entry))

(* The control connection is lost: the loop ends before the next item.     *)
LoseHost ==
  /\ at = "work" /\ pass <= Len(plan) /\ Happens("lost")
  /\ pass' = Len(plan) + 1 /\ outcome' = Latched("bad")
  /\ Steps /\ UNCHANGED <<walkvars, there, plan, at, target>>

LinksOf(t) == {plan[i].to : i \in {i \in DOMAIN plan : plan[i].kind = "l" /\ HasParent(t, plan[i].to)}}

(* The end of the list; a get makes the links then.                        *)
Finish ==
  /\ at = "work" /\ pass > Len(plan) /\ at' = "done"
  /\ target' = IF task.op = "get" THEN [p \in DOMAIN target \cup LinksOf(target) |->
                                          IF p \in LinksOf(target) THEN <<"l">> ELSE target[p]]
               ELSE target
  /\ Steps /\ Untroubled /\ UNCHANGED <<walkvars, workvars, outcome>>

TrNext == \/ GetTree \/ GetFile \/ PutTree \/ SpoolTree \/ SpoolFile
          \/ WalkEntry \/ WalkSub \/ WalkRefused \/ WalkUp
          \/ GetListed \/ PutListed \/ SpoolEnds
          \/ GetOne \/ PutOne \/ LoseHost \/ Finish
TrSpec == TrInit /\ [][TrNext]_trvars

-----------------------------------------------------------------------------
(* The copy that is asked for.                                             *)

Top       == From(Cwd, task.item)
Below     == {p \in DOMAIN world : Within(Top, p) /\ \A n \in Len(Top)..(Len(p) - 1) : world[SubSeq(p, 1, n)] = "d"}
Place(p)  == Dst \o Base \o SubSeq(p, Len(Top) + 1, Len(p))
Image(p)  == CASE world[p] \in {"d", "u"} -> <<"d">> [] world[p] = "-" -> <<"-">> \o p [] OTHER -> <<"l">>
Copied    == {p \in Below : world[p] # "?" /\ (world[p] = "l" => task.op # "bgput")}
Spooled   == IF Spooling THEN {plan[i] : i \in DOMAIN plan} ELSE {}
Made      == [p \in DOMAIN target \cup {j.to : j \in Spooled} |->
                IF p \in DOMAIN target THEN target[p] ELSE <<"-">> \o (CHOOSE j \in Spooled : j.to = p).from]
Whole     == /\ \A p \in Copied : Place(p) \in DOMAIN Made /\ Made[Place(p)] = Image(p)
             /\ DOMAIN Made = {Place(p) : p \in Copied} \cup Tops(Dst)

(* What is known to go wrong: the buffer grew; the tree is too deep; a     *)
(* bgget of an absolute path, or a bgput of "/", from below the root; a    *)
(* listing of names only, which does not tell links; a put of a "." that   *)
(* is empty, which is an error, and a get of a directory that is, or has   *)
(* only links, of which nothing is made; and an argument to bgget or bgput *)
(* that is no directory, or without -R no file.                            *)
Grew      == alloc # Alloc0
Deep      == \E p \in Below : Len(p) > Len(Top) + MaxDepth - 1
Misnamed  == Cwd # <<>> /\ \/ task.op = "bgget" /\ Head(task.item) = "/"
                           \/ task.op = "bgput" /\ task.item = <<"/">>
Bare      == \/ task.op = "put" /\ task.item = <<".">> /\ Copied = {Top}
             \/ task.op = "get" /\ IsDir /\ Base # <<>> /\ \A p \in Copied \ {Top} : world[p] = "l"
NamesOnly == task.lists = "names" /\ \E p \in Below : world[p] \in {"l", "?"}
Unfit     == Spooling /\ IF task.op = "bgfile" THEN ItemKind # "-" ELSE ~IsDir
Odd       == Grew \/ Deep \/ Misnamed \/ NamesOnly \/ Bare \/ Unfit

(* A recursive transfer that says it went well has made the whole tree,    *)
(* each directory, file and link at its place and nothing else, and it     *)
(* says so whenever nothing was refused.                                   *)
CopiesTree ==
  at = "done" /\ ~Odd /\ ItemKind # "none" /\ trouble \cap {"back", "link"} = {}
    => /\ trouble = {} /\ (IsDir \/ ItemKind = "-") => outcome = "ok"
       /\ outcome = "ok" => Whole

(* However it ends, a file is never put where another one belongs, unless  *)
(* the way back was refused and all names lead from the wrong directory.   *)
NoneElse ==
  ~Odd /\ "back" \notin trouble /\ at \notin {"start", "wild"} =>
    \A q \in DOMAIN Made : Head(Made[q]) = "-" => q = Place(Tail(Made[q]))

(* put -R copies whole directory trees, however long their names are, when *)
(* nothing is refused.                                                     *)
PutsLongNames == at = "done" /\ task.op = "put" /\ outcome = "ok" /\ trouble = {} => Whole

Closed(t) == DOMAIN t # {} /\ \A p \in DOMAIN t : p # <<>> => What(t, Parent(p)) = "d"
TrTypeOK ==
  /\ Closed(target)
  /\ \A i \in 1..(Len(stack) - 1) : Within(stack[i + 1].dir, stack[i].dir)
  /\ stack # <<>> => depth >= Len(stack)
  /\ pass \in 1..(Len(plan) + 1) /\ outcome \in {"ok", "bad"}
  /\ at \in {"start", "walk", "aborted", "listed", "work", "done", "wild"}
-----------------------------------------------------------------------------
(* Why it is so.  An item of the tree, by what lies between it and Top.    *)
Comp     == DOMAIN Long
Rel(p)   == SubSeq(p, Len(Top) + 1, Len(p))
TopText     == IF task.op = "get" THEN <<".">> ELSE task.item
Text(p)  == TopText \o Rel(p)
Kind(p)  == IF world[p] = "u" THEN "d" ELSE world[p]
FromOf(p) == IF task.op = "put" THEN Text(p) ELSE IF task.item = <<".">> THEN Rel(p) ELSE task.item \o Rel(p)

(* What is told of it on the walk, and in the list that is worked through. *)
JobOf(p)     == [kind |-> "-", from |-> p, to |-> Place(p)]
WalkItem(p)  == IF Spooling THEN JobOf(p) ELSE Listed(Text(p), Kind(p))
WorkItem(p)  == [kind |-> Kind(p), from |-> FromOf(p), to |-> Place(p)]
ItemOf(w, p) == IF w THEN WorkItem(p) ELSE WalkItem(p)
Unnamed(p)   == ~Spooling /\ Text(p) = <<".">>

(* A list l and a destination t have the item p; it is still ahead of the  *)
(* walk with the frames s.                                                 *)
IsListed(w, l, p) == \E i \in DOMAIN l : l[i] = ItemOf(w, p)
Reached(t, l, p)  == IF Spooling /\ world[p] # "-" THEN Place(p) \in DOMAIN t ELSE Unnamed(p) \/ IsListed(FALSE, l, p)
Members(s)        == {s[i] : i \in DOMAIN s}
Waits(f, p)       == \E n \in f.left \cup Members(f.subs) : Within(Append(f.dir, n), p)
Ahead(s, p)       == \E i \in DOMAIN s : Waits(s[i], p)

(* They have nothing else; a put lists a directory before what is in it.   *)
Right(q, k) == (q \in Tops(Dst) /\ k = <<"d">>) \/ \E p \in Copied : q = Place(p) /\ k = Image(p)
Good(t)     == Tops(Dst) \subseteq DOMAIN t /\ \A q \in DOMAIN t : Right(q, t[q])
Follows(w, l, p, i) == \/ task.op # "put" \/ p = Top \/ Unnamed(Parent(p))
                       \/ \E j \in 1..(i - 1) : l[j] = ItemOf(w, Parent(p))
Listing(w, l) == \A i \in DOMAIN l : \E p \in Copied :
                   l[i] = ItemOf(w, p) /\ Follows(w, l, p, i) /\ (Spooling => world[p] = "-")

(* A frame f that is in n others, and the walk.                            *)
FrameRight(t, l, f, n) ==
  /\ f.dir \in Below /\ world[f.dir] = "d" /\ f.text = Text(f.dir) /\ Len(f.dir) = Len(Top) + n
  /\ f.left \subseteq NamesIn(world, f.dir) /\ ~f.grown /\ Reached(t, l, f.dir)
  /\ \A m \in Members(f.subs) : m \in NamesIn(world, f.dir) /\ world[Append(f.dir, m)] \in {"d", "u"}
WalkRight(t, l, s, d) ==
  /\ Good(t) /\ Listing(FALSE, l) /\ \A i \in DOMAIN s : FrameRight(t, l, s[i], Len(s) - i)
  /\ Remote /\ d > 0 => \E p \in Below : Len(p) >= Len(Top) + d
  /\ \A p \in Copied : Reached(t, l, p) \/ Ahead(s, p)

(* The list of a get from which CWD was refused leads nowhere.             *)
Astray(t, l, k, o)   == /\ task.op = "get" /\ Len(l) = 1 /\ l[1].kind = "-" /\ l[1].from = NoName
                        /\ k > 1 => o = "bad"
                        /\ \A q \in DOMAIN t : t[q] = <<"d">>
Achieved(t, e)       == \/ task.op = "get" /\ e.kind = "l"
                        \/ e.to \in DOMAIN t /\ (IsDir \/ ItemKind = "-")
OnCourse(t, l, k, o, f) ==
  /\ Good(t)
  /\ IsDir => Listing(TRUE, l) /\ \A p \in Copied : Unnamed(p) \/ IsListed(TRUE, l, p)
  /\ ~IsDir => l = Plain(task.item, Dst \o Base)
  /\ o = "ok" /\ "link" \notin f => \A i \in 1..(k - 1) : Achieved(t, l[i])
  /\ f = {} /\ (IsDir \/ ItemKind = "-") => o = "ok"

DoneRight(t, l, o, f) ==
  IF task.op = "get" /\ "cwd" \in f THEN o = "bad" /\ \A q \in DOMAIN t : t[q] = <<"d">>
  ELSE /\ Good(t) /\ (Spooling => Listing(FALSE, l))
       /\ f = {} /\ (IsDir \/ ItemKind = "-") => o = "ok"
       /\ o = "ok" /\ "link" \notin f => \A p \in Copied : IF Spooling THEN Reached(t, l, p) ELSE Place(p) \in DOMAIN t

(* Where the call is, and what is known there.                             *)
Fresh      == target = [q \in Tops(Dst) |-> <<"d">>] /\ trouble = {} /\ outcome = "ok" /\ pass = 1
StartInv   == at = "start" => Fresh /\ plan = <<>> /\ stack = <<>> /\ there = Cwd
WalkInv    == at = "walk" /\ ~Odd =>
                /\ IsDir /\ task.op # "bgfile" /\ there = (IF task.op = "get" THEN Top ELSE Cwd)
                /\ trouble = {} /\ outcome = "ok" /\ pass = 1 /\ WalkRight(target, plan, stack, depth)
AbortedInv == at = "aborted" /\ ~Odd => task.op = "bgput" /\ trouble # {} /\ Good(target) /\ Listing(FALSE, plan)
ListedInv  == at = "listed" => /\ task.op = "put" /\ ~IsDir /\ ItemKind \in {"-", "?"} /\ there = Cwd
                               /\ Fresh /\ plan = Plain(task.item, Base)
WorkInv    == at = "work" /\ ~Odd /\ "back" \notin trouble =>
                /\ there = Cwd /\ task.op \in {"get", "put"}
                /\ IF "cwd" \in trouble THEN Astray(target, plan, pass, outcome)
                   ELSE OnCourse(target, plan, pass, outcome, trouble)
DoneInv    == at = "done" /\ ~Odd /\ "back" \notin trouble => DoneRight(target, plan, outcome, trouble)

Entries == [kind : {"-", "d", "l"}, from : Seq(Comp), to : Seq(Comp)]
Frames  == [dir : Seq(Names), text : Seq(Comp) \ {<<>>}, left : SUBSET Names, subs : Seq(Names), grown : BOOLEAN]
Sane ==
  /\ world \in Worlds /\ task \in [op : Ops, item : Items, lists : {"kinds", "names"}]
  /\ task.op \notin {"get", "bgget"} => task.lists = "kinds"
  /\ depth \in Nat /\ alloc \in Nat /\ alloc >= Alloc0 /\ plan \in Seq(Entries) /\ stack \in Seq(Frames)
TrInv == Sane /\ TrTypeOK /\ StartInv /\ WalkInv /\ AbortedInv /\ ListedInv /\ WorkInv /\ DoneInv
=============================================================================
