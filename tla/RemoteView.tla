----------------------------- MODULE RemoteView -----------------------------
(***************************************************************************)
(* What ncftp's shell thinks of the remote directories: where it is, which *)
(* it works out from the arguments of cd and never asks, the directory     *)
(* before and the one it logged in to, the ls cache, a ring of listings    *)
(* under such worked-out paths, and the directory a bookmark keeps.        *)
(*                                                                         *)
(* The server resolves the same paths its own way: ".." after a link goes  *)
(* to the parent of where the link leads.                                  *)
(***************************************************************************)
EXTENDS Integers, Sequences

CONSTANTS
  Sites,     \* servers: [dirs, links, home, closed, multi, pwd]
  CdArgs,    \* arguments of cd, and what URLs name: [abs, parts]
  LsItems,   \* arguments of ls
  CacheSize, \* kLsCacheSize
  Lifetime,  \* gLsCacheItemLifetime
  MaxVisits  \* bound: sessions

VARIABLES
  site,           \* the server
  visits,         \* sessions opened
  there,          \* the server's idea of the current directory
  gRemoteCWD, gPrevRemoteCWD, gStartDir,
  astray,         \* history: why gRemoteCWD need not be where the server is
  gBm,            \* the bookmark: loaded or not, its directory, and, history, the one meant
  gLsCache,       \* the ring's places: [path, age, and, history, dir, dubious], or Free
  gOldest         \* gOldestLsCacheItem
vwvars == <<site, visits, there, gRemoteCWD, gPrevRemoteCWD, gStartDir, astray, gBm,
            gLsCache, gOldest>>

Nowhere == <<"?">>
Unset   == <<"">>
Free    == [path |-> Unset, age |-> 0, dir |-> Nowhere, dubious |-> FALSE]
Offline == Nowhere
(* What comes of v when Do has taken the elements of s, one after another. *)
Along(Do(_, _), v, s) ==
  LET after[n \in 0..Len(s)] == IF n = 0 THEN v ELSE Do(after[n - 1], s[n]) IN after[Len(s)]
-----------------------------------------------------------------------------
(* The server: a path from a directory, through links.                     *)
Parent(d) == IF d = <<>> THEN d ELSE SubSeq(d, 1, Len(d) - 1)
Enter(d, name) ==
  CASE d = Nowhere -> Nowhere
    [] d # Nowhere /\ name = ".." -> Parent(d)
    [] d # Nowhere /\ name # ".." /\ Append(d, name) \in DOMAIN site.links -> site.links[Append(d, name)]
    [] d # Nowhere /\ name # ".." /\ Append(d, name) \in site.dirs -> Append(d, name)
    [] OTHER -> Nowhere
Walk(from, arg) == Along(Enter, IF arg.abs THEN <<>> ELSE from, arg.parts)
Absolute(path)  == [abs |-> TRUE, parts |-> path]
Resolve(path)   == Walk(<<>>, Absolute(path))
Readable(d)     == d \in site.dirs \ site.closed

(* PathCat and CompressPath: the same without the server.                  *)
PathCat(cwd, arg) ==
  Along(LAMBDA p, name : IF name = ".." THEN Parent(p) ELSE Append(p, name),
           IF arg.abs THEN <<>> ELSE cwd, arg.parts)

(* Does a path take ".." from a directory it has reached by a link?        *)
Crosses(cwd, arg) ==
  \E k \in 1..Len(arg.parts) :
    LET before == PathCat(cwd, [arg EXCEPT !.parts = SubSeq(@, 1, k - 1)]) IN
    arg.parts[k] = ".." /\ Resolve(Parent(before)) # Parent(Resolve(before))
-----------------------------------------------------------------------------
(* nFTPChdirAndGetCWD: CWD, or CDUP for "..", and our own idea of it.      *)
Takes(arg, to) == Readable(to) /\ (site.multi \/ Len(arg.parts) <= (IF arg.abs THEN 0 ELSE 1))

(* A defect to be caught: ours changes though the server's does not.       *)
ChdirOneAnyhow(v, arg) ==
  LET to == Walk(v.there, arg) IN
  IF ~Takes(arg, to) THEN [v EXCEPT !.ok = FALSE, !.cwd = PathCat(@, arg)]
  ELSE [there |-> to, cwd |-> PathCat(v.cwd, arg), ok |-> TRUE,
        astray |-> Crosses(v.cwd, arg) \/ (v.astray /\ ~arg.abs)]

ChdirOne(v, arg) ==
  LET to == Walk(v.there, arg) IN
  IF ~Takes(arg, to) THEN [v EXCEPT !.ok = FALSE]
  ELSE [there |-> to, cwd |-> PathCat(v.cwd, arg), ok |-> TRUE,
        astray |-> Crosses(v.cwd, arg) \/ (v.astray /\ ~arg.abs)]

Pieces(arg) == (IF arg.abs THEN <<Absolute(<<>>)>> ELSE <<>>)
               \o [k \in 1..Len(arg.parts) |-> [abs |-> FALSE, parts |-> <<arg.parts[k]>>]]

(* Chdirs: the whole path, else piece by piece as far as they go.  One     *)
(* that begins with ".." is made absolute first.                           *)
Chdirs(v, typed) ==
  LET arg == IF ~typed.abs /\ typed.parts # <<>> /\ typed.parts[1] = ".."
               THEN Absolute(PathCat(v.cwd, typed)) ELSE typed
      whole == ChdirOne(v, arg)
  IN IF typed.parts = <<>> /\ ~typed.abs THEN v
     ELSE IF whole.ok THEN whole
     ELSE Along(LAMBDA w, piece : IF w.ok THEN ChdirOne(w, piece) ELSE w, [v EXCEPT !.ok = TRUE], Pieces(arg))

View == [there |-> there, cwd |-> gRemoteCWD, ok |-> TRUE, astray |-> astray]
Online == there # Offline

(* ChdirCmd.  gPrevRemoteCWD is set whether the directory can be changed   *)
(* or not.                                                                 *)
ChdirTo(arg) ==
  LET v == Chdirs(View, arg) IN
  /\ there' = v.there /\ gRemoteCWD' = v.cwd /\ astray' = v.astray
  /\ gPrevRemoteCWD' = gRemoteCWD
  /\ UNCHANGED <<site, visits, gStartDir, gBm, gLsCache, gOldest>>

ChdirCmd == /\ Online
            /\ \/ \E arg \in CdArgs : ChdirTo(arg)
               \/ gPrevRemoteCWD # Unset /\ ChdirTo(Absolute(gPrevRemoteCWD))
               \/ ChdirTo(Absolute(gStartDir))
-----------------------------------------------------------------------------
(* The ls cache.                                                           *)
Found(path) == {j \in 1..CacheSize : gLsCache[j].path = path}

LsCacheLookup(path) == {j \in Found(path) : gLsCache[j].age <= Lifetime}

LsCacheAdd(entry) ==
  /\ gLsCache' = [[j \in 1..CacheSize |-> IF j \in Found(entry.path) THEN Free ELSE gLsCache[j]]
                    EXCEPT ![gOldest] = entry]
  /\ gOldest' = (gOldest % CacheSize) + 1

FlushLsCache == gLsCache' = [j \in 1..CacheSize |-> Free] /\ UNCHANGED gOldest

(* Ls: if -f is given, or there is nothing in the cache to show, from the  *)
(* server, which is sent the argument as it was typed.  Empty listings are *)
(* not kept.                                                               *)
LsNow(item) ==
  LET path == PathCat(gRemoteCWD, item)
      dir  == Walk(there, item)
  IN /\ Readable(dir)
     /\ \/ LsCacheAdd([path |-> path, age |-> 0, dir |-> dir,
                       dubious |-> astray \/ Crosses(gRemoteCWD, item)])
        \/ UNCHANGED <<gLsCache, gOldest>>

Ls == /\ Online
      /\ \E item \in LsItems, f \in BOOLEAN :
           /\ f \/ LsCacheLookup(PathCat(gRemoteCWD, item)) = {}
           /\ LsNow(item)
      /\ UNCHANGED <<site, visits, there, gRemoteCWD, gPrevRemoteCWD, gStartDir, astray, gBm>>

(* mkdir, rm, put and the like.                                            *)
Change == /\ Online /\ FlushLsCache
          /\ UNCHANGED <<site, visits, there, gRemoteCWD, gPrevRemoteCWD, gStartDir, astray, gBm>>

Tick == /\ Online
        /\ gLsCache' = [j \in 1..CacheSize |->
                          IF gLsCache[j] = Free \/ gLsCache[j].age > Lifetime THEN gLsCache[j]
                          ELSE [gLsCache[j] EXCEPT !.age = @ + 1]]
        /\ UNCHANGED <<site, visits, there, gRemoteCWD, gPrevRemoteCWD, gStartDir, astray, gBm, gOldest>>
-----------------------------------------------------------------------------
(* AbsoluteToRelative and FillBookmarkInfo: the bookmark's directory is    *)
(* relative to the one logged in to, if it is below it.                    *)
AbsoluteToRelative(dir, root) ==
  IF Len(root) <= Len(dir) /\ SubSeq(dir, 1, Len(root)) = root
  THEN [abs |-> FALSE, parts |-> SubSeq(dir, Len(root) + 1, Len(dir))]
  ELSE Absolute(dir)

FillBookmarkInfo == [loaded |-> TRUE, dir |-> AbsoluteToRelative(gRemoteCWD, gStartDir),
                     meant |-> IF astray THEN Nowhere ELSE there]

(* A bookmark that was loaded is saved again, another one if the user says *)
(* so.                                                                     *)
SaveUnsavedBookmark == \/ gBm' = FillBookmarkInfo
                       \/ ~gBm.loaded /\ UNCHANGED gBm

CloseHost ==
  /\ Online
  /\ SaveUnsavedBookmark
  /\ there' = Offline /\ gPrevRemoteCWD' = Unset /\ gStartDir' = Unset
  /\ UNCHANGED <<site, visits, gRemoteCWD, astray, gLsCache, gOldest>>

(* DoOpen after the login: we start where PWD said, else we guess the      *)
(* root; then on to the bookmark's directory, or to the URL's, of which    *)
(* PWD is asked.                                                           *)
AtLogin == [there |-> site.home, cwd |-> IF site.pwd THEN site.home ELSE <<>>, ok |-> TRUE,
            astray |-> ~site.pwd /\ site.home # <<>>]
UrlView(parts) ==
  LET v == Along(LAMBDA w, piece : IF w.ok THEN ChdirOne(w, piece) ELSE w, AtLogin,
                    Pieces([abs |-> FALSE, parts |-> parts]))
  IN IF site.pwd THEN [v EXCEPT !.cwd = v.there, !.astray = FALSE]
     ELSE [v EXCEPT !.cwd = AtLogin.cwd, !.astray = @ \/ v.there # AtLogin.there]

Arrive(v) == there' = v.there /\ gRemoteCWD' = v.cwd /\ astray' = v.astray

OpenCmd ==
  /\ ~Online /\ visits < MaxVisits /\ visits' = visits + 1
  /\ \/ gBm.loaded /\ Arrive(Chdirs(AtLogin, gBm.dir)) /\ UNCHANGED gBm
     \/ Arrive(AtLogin) /\ gBm' = [gBm EXCEPT !.loaded = FALSE, !.meant = Nowhere]
     \/ \E arg \in CdArgs : ~arg.abs /\ Arrive(UrlView(arg.parts)) /\ gBm' = [gBm EXCEPT !.loaded = FALSE, !.meant = Nowhere]
  /\ FlushLsCache /\ gStartDir' = AtLogin.cwd /\ gPrevRemoteCWD' = Unset
  /\ UNCHANGED site

VwInit == /\ site \in Sites /\ visits = 0 /\ there = Offline
          /\ gRemoteCWD = <<>> /\ gPrevRemoteCWD = Unset /\ gStartDir = Unset /\ astray = FALSE
          /\ gBm = [loaded |-> FALSE, dir |-> [abs |-> FALSE, parts |-> <<>>], meant |-> Nowhere]
          /\ gLsCache = [j \in 1..CacheSize |-> Free] /\ gOldest = 1
VwNext == ChdirCmd \/ Ls \/ Change \/ Tick \/ CloseHost \/ OpenCmd
VwSpec == VwInit /\ [][VwNext]_vwvars
-----------------------------------------------------------------------------
VwTypeOK == /\ there \in site.dirs \cup {Offline} /\ gOldest \in 1..CacheSize
            /\ \A j \in 1..CacheSize : gLsCache[j].age \in 0..Lifetime + 1
            /\ Online => gStartDir # Unset

(* The directory we show as the current one is the one the server is in,   *)
(* unless a path took ".." from a link since the last absolute one, or the *)
(* server does not answer PWD.                                             *)
CwdAgrees == Online /\ ~astray => Resolve(gRemoteCWD) = there

(* A listing in the cache is that of the directory its path names, but for *)
(* the same reasons.                                                       *)
FiledRight == \A j \in 1..CacheSize :
                gLsCache[j] # Free /\ ~gLsCache[j].dubious => gLsCache[j].dir = Resolve(gLsCache[j].path)

(* What ls would show from the cache: the directory that the server would  *)
(* list for the same argument, as it was no longer ago than the cache's    *)
(* lifetime.                                                               *)
ShowsRight ==
  Online /\ ~astray =>
    \A item \in LsItems : \A j \in LsCacheLookup(PathCat(gRemoteCWD, item)) :
      /\ gLsCache[j].dubious \/ Crosses(gRemoteCWD, item) \/ gLsCache[j].dir = Walk(there, item)
      /\ gLsCache[j].age <= Lifetime

(* No path has two places in the ring, so that a listing that is got again *)
(* is not followed by an older one when its place is used for another.     *)
RingUnique == \A i, j \in 1..CacheSize :
                i # j /\ gLsCache[i] # Free => gLsCache[i].path # gLsCache[j].path

(* To open a bookmark is to come back to where it was saved.               *)
BookmarkLeadsBack == visits' > visits /\ gBm.loaded /\ gBm'.loaded /\ gBm.meant # Nowhere /\ site.pwd =>
                       there' = gBm.meant
=============================================================================
