------------------------------ MODULE NcftpLs ------------------------------
(***************************************************************************)
(* ncftpls (sh_util/ncftpls.c): the directories of several URLs listed one *)
(* after the other.  The connection of the last URL listed is kept as a    *)
(* copy of its record, savedfi, and used again if the next URL has the     *)
(* same host and user.                                                     *)
(*                                                                         *)
(* A URL is [host, port, user, dirs, file]; a directory is the sequence of *)
(* its names.  Connections are numbered as they are opened.                *)
(***************************************************************************)
EXTENDS Naturals, Sequences

CONSTANTS Arguments,   \* sequences of URLs
          LsOptions,   \* [list, df, mlsd, recurse]: not -Z; the number of -K; -m; -R
          HostDirs,    \* the directories that every host has
          MachineHosts,   \* the hosts that have MLSD
          Root         \* where a login starts

VARIABLES urls, opts, pc, i,
          fi, savedfi,   \* [id, host, user], id 0 when not connected
          tryMLSD, es,
          conns,      \* of each connection opened: [host, port, user, cwd, state]
          listed      \* history: of each URL, if it was listed and what

lsvars == <<urls, opts, pc, i, fi, savedfi, tryMLSD, es, conns, listed>>

(* What is assumed of the constants: the directories are those of a tree.  *)
Dirs == Seq(STRING)
URL  == [host : STRING, port : Nat, user : STRING, dirs : Dirs, file : Dirs]
LsAssumption ==
  /\ Arguments \subseteq Seq(URL) /\ Root \in Dirs
  /\ LsOptions \subseteq [list : BOOLEAN, df : Nat, mlsd : BOOLEAN, recurse : BOOLEAN]
  /\ HostDirs \subseteq Dirs /\ \A d \in HostDirs : \A n \in 0..Len(d) : SubSeq(d, 1, n) \in HostDirs

NoConn == [id |-> 0, host |-> "", user |-> ""]
U == urls[i]
Unseen == [done |-> FALSE, failed |-> FALSE, mlsd |-> FALSE, seen |-> {}]

LsInit ==
  /\ urls \in Arguments /\ opts \in LsOptions /\ pc = "url" /\ i = 1
  /\ fi = NoConn /\ savedfi = NoConn /\ tryMLSD = opts.mlsd /\ es = "success"
  /\ conns = <<>> /\ listed = [k \in DOMAIN urls |-> Unseen]

LsExit(status) == pc' = "exit" /\ es' = status
Lives(id) == id # 0 /\ conns[id].state = "open"
-----------------------------------------------------------------------------
(* The next URL: fi is made anew from the options and the URL.             *)
SameHost == U.host = savedfi.host /\ U.user = savedfi.user
NextURL ==
  /\ pc = "url" /\ i <= Len(urls)
  /\ IF SameHost
     THEN fi' = savedfi /\ pc' = "root" /\ UNCHANGED <<savedfi, conns>>
     ELSE \* -Y is sent on the new fi, which is not connected yet; QUIT on the old
          /\ fi' = [id |-> 0, host |-> U.host, user |-> U.user] /\ pc' = "open"
          /\ conns' = IF Lives(savedfi.id) THEN [conns EXCEPT ![savedfi.id].state = "quit"] ELSE conns
          /\ savedfi' = NoConn
  /\ UNCHANGED <<urls, opts, i, tryMLSD, es, listed>>

(* "This host is currently open, so keep using it": back to rootcwd.       *)
BackToRoot ==
  /\ pc = "root"
  /\ \/ Lives(fi.id) /\ pc' = "chdir" /\ conns' = [conns EXCEPT ![fi.id].cwd = Root] /\ UNCHANGED es
     \/ LsExit("chdirfailed") /\ UNCHANGED conns
  /\ UNCHANGED <<urls, opts, i, fi, savedfi, tryMLSD, listed>>

(* FTPOpenHost, -W, and PWD for rootcwd.                                   *)
OpenURL ==
  /\ pc = "open"
  /\ \/ LsExit("openfailed") /\ UNCHANGED <<fi, conns>>
     \/ /\ fi' = [fi EXCEPT !.id = Len(conns) + 1]
        /\ conns' = Append(conns, [host |-> U.host, port |-> U.port, user |-> U.user, cwd |-> Root,
                                   state |-> "open"])
        /\ (pc' = "chdir" /\ UNCHANGED es) \/ LsExit("chdirfailed")
  /\ UNCHANGED <<urls, opts, i, savedfi, tryMLSD, listed>>

(* FTPChdirList to the URL's directory.                                    *)
ChangeDir == [conns EXCEPT ![fi.id].cwd = @ \o U.dirs]
ToDirectory ==
  /\ pc = "chdir"
  /\ \/ /\ conns[fi.id].cwd \o U.dirs \in HostDirs /\ conns' = ChangeDir
        /\ es' = "chdirtimedout" /\ pc' = IF opts.df > 0 THEN "df" ELSE "list"
     \/ LsExit("chdirfailed") /\ UNCHANGED conns
  /\ UNCHANGED <<urls, opts, i, fi, savedfi, tryMLSD, listed>>

(* -K: SITE DF, after PWD; a listing as well only with two of them.        *)
DiskFree ==
  /\ pc = "df"
  /\ \/ LsExit("chdirfailed") /\ UNCHANGED i
     \/ UNCHANGED es /\ IF opts.df = 1 THEN pc' = "url" /\ i' = i + 1 ELSE pc' = "list" /\ UNCHANGED i
  /\ UNCHANGED <<urls, opts, fi, savedfi, tryMLSD, conns, listed>>

(* FTPRemoteRecursiveMList: the directory named by the URL's file, and then*)
(* those found in it by paths that begin with that name, which the server  *)
(* takes as relative to where it now is.                                   *)
Below(d) == {e \in HostDirs : Len(e) = Len(d) + 1 /\ SubSeq(e, 1, Len(d)) = d}
Tree(d) == {e \in HostDirs : Len(e) >= Len(d) /\ SubSeq(e, 1, Len(d)) = d}
SubdirsDeep(now, rel) ==
  LET real == now \o rel
  IN {e \in Tree(real) : \A n \in Len(real)..Len(e) : SubSeq(e, 1, n) \in HostDirs}
RecursiveMList(now, file) ==
  {now \o file} \cup UNION {SubdirsDeep(now \o file, Append(file, e[Len(e)])) : e \in Below(now \o file)}

(* The listing: tryMLSD is cleared where the server does not have MLSD.    *)
Machine == tryMLSD /\ fi.host \in MachineHosts
Listed ==
  [done |-> TRUE, failed |-> FALSE, mlsd |-> Machine,
   seen |-> IF opts.recurse /\ Machine /\ conns[fi.id].cwd \o U.file \in HostDirs
            THEN RecursiveMList(conns[fi.id].cwd, U.file) ELSE {conns[fi.id].cwd \o U.file}]
List ==
  /\ pc = "list" /\ pc' = "url" /\ i' = i + 1
  /\ \/ /\ ~opts.list /\ es' = "xfertimedout" /\ UNCHANGED <<fi, savedfi, tryMLSD, conns, listed>>
     \/ /\ opts.list /\ Lives(fi.id) /\ es' = "success"
        /\ savedfi' = fi /\ tryMLSD' = Machine /\ listed' = [listed EXCEPT ![i] = Listed]
        /\ UNCHANGED <<fi, conns>>
     \/ /\ opts.list /\ es' = "xferfailed" /\ listed' = [listed EXCEPT ![i].failed = TRUE]
        /\ tryMLSD' = Machine /\ UNCHANGED savedfi
        /\ \/ UNCHANGED <<fi, conns>>
           \/ fi' = [fi EXCEPT !.id = 0] /\ conns' = [conns EXCEPT ![fi.id].state = "lost"]
  /\ UNCHANGED <<urls, opts>>

(* After the last URL: -Y, QUIT.                                           *)
QuitLs ==
  /\ pc = "url" /\ i > Len(urls) /\ LsExit(es)
  /\ conns' = IF Lives(fi.id) THEN [conns EXCEPT ![fi.id].state = "quit"]
              ELSE conns
  /\ UNCHANGED <<urls, opts, i, fi, savedfi, tryMLSD, listed>>

LsNext == NextURL \/ BackToRoot \/ OpenURL \/ ToDirectory \/ DiskFree \/ List \/ QuitLs
LsSpec == LsInit /\ [][LsNext]_lsvars
-----------------------------------------------------------------------------
(* The types of the variables.                                             *)
LsTypeOK ==
  /\ pc \in {"url", "root", "open", "chdir", "df", "list", "exit"} /\ i \in 1..(Len(urls) + 1)
  /\ fi.id \in 0..Len(conns) /\ savedfi.id \in 0..Len(conns)
  /\ \A k \in DOMAIN conns : conns[k].state \in {"open", "quit", "lost"}
  /\ es \in {"success", "openfailed", "chdirfailed", "chdirtimedout", "xfertimedout", "xferfailed"}

(* A URL is listed on a connection to its own host as its own user, from   *)
(* the directory that it names, whichever URL the connection was for.      *)
RightListing ==
  pc = "list" =>
    /\ Lives(fi.id) /\ conns[fi.id].host = U.host /\ conns[fi.id].user = U.user
    /\ conns[fi.id].cwd = Root \o U.dirs

(* One connection at a time, if every URL so far was listed.               *)
AllDone == \A k \in 1..(i - 1) : listed[k].done
OpenConns == {k \in DOMAIN conns : conns[k].state = "open"}
OneConnection == AllDone => \A j, k \in OpenConns : j = k

(* With -R and -m the whole tree is listed, when the URL ends with its top *)
(* directory's slash; with the name alone the directories below are sought *)
(* where they are not.                                                     *)
WholeTree ==
  \A k \in DOMAIN urls :
    (opts.recurse /\ listed[k].mlsd /\ urls[k].file = <<>>) => listed[k].seen = Tree(Root \o urls[k].dirs)
-----------------------------------------------------------------------------
(* What every step keeps, and what these follow from.  A record of a       *)
(* connection names it by its own host and user; which connection may be   *)
(* open depends on where the program is.                                   *)
OrNone   == STRING \cup {""}
ConnInfo == [id : Nat, host : OrNone, user : OrNone]
ConnType == [host : STRING, port : Nat, user : STRING, cwd : Dirs, state : {"open", "quit", "lost"}]
SeenType == [done : BOOLEAN, failed : BOOLEAN, mlsd : BOOLEAN, seen : SUBSET Dirs]
LsTypes ==
  /\ urls \in Arguments /\ opts \in LsOptions /\ i \in 1..(Len(urls) + 1) /\ tryMLSD \in BOOLEAN
  /\ pc \in {"url", "root", "open", "chdir", "df", "list", "exit"}
  /\ fi \in ConnInfo /\ savedfi \in ConnInfo /\ conns \in Seq(ConnType)
  /\ fi.id <= Len(conns) /\ savedfi.id <= Len(conns)
  /\ listed \in [DOMAIN urls -> SeenType]
  /\ es \in {"success", "openfailed", "chdirfailed", "chdirtimedout", "xfertimedout", "xferfailed"}

Named(c) == c.id # 0 => conns[c.id].host = c.host /\ conns[c.id].user = c.user
OnURL ==
  /\ Named(fi) /\ Named(savedfi)
  /\ pc \notin {"url", "exit"} => i <= Len(urls) /\ fi.host = U.host /\ fi.user = U.user
  /\ pc = "open" => fi.id = 0
  /\ pc \in {"chdir", "df", "list"} => Lives(fi.id)
  /\ pc = "chdir" => conns[fi.id].cwd = Root
  /\ pc \in {"df", "list"} => conns[fi.id].cwd = Root \o U.dirs /\ Root \o U.dirs \in HostDirs

OneOpen ==
  /\ \A k \in DOMAIN urls : k >= i => listed[k] = Unseen
  /\ AllDone =>
       /\ pc = "url" => OpenConns \subseteq {savedfi.id}
       /\ pc = "open" => OpenConns = {}
       /\ pc \in {"root", "chdir", "df", "list"} => OpenConns \subseteq {fi.id}
       /\ pc = "exit" => \E k \in 0..Len(conns) : OpenConns \subseteq {k}

LsInv == LsTypes /\ OnURL /\ OneOpen /\ WholeTree
=============================================================================
