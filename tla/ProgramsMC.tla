----------------------------- MODULE ProgramsMC -----------------------------
(***************************************************************************)
(* The programs around libncftp for TLC: those of ToolsMC, and what ncftp  *)
(* shows of the remote side and keeps in files, with ncftpbookmarks.       *)
(***************************************************************************)
EXTENDS ToolsMC

CONSTANTS
  Parts,                                                  \* those that run
  Writers, BookNames, OldBooks, Rows, MaxBookSaves, MaxBookmarks,         \* of the file of bookmarks
  BookFields, TokenSize,                                  \* of a line of it
  Ncftps, SystemFiles, UserFiles, MaxSets,                \* of the settings
  Loggers, LogHosts, LogLine, MaxLogSize, OldLogs, MaxLines, MaxEnds      \* of the log

(* The variables from the n-th on are not used.                            *)
Rest16 == <<v16, v17>>
Rest15 == <<v15, Rest16>>
Rest14 == <<v14, Rest15>>
Rest13 == <<v13, Rest14>>
Rest11 == <<v11, v12, Rest13>>
Rest9  == <<v9, v10, Rest11>>
Rest8  == <<v8, Rest9>>
Rest6  == <<v6, v7, Rest8>>
Rest4  == <<v4, v5, Rest6>>
Zero16 == v16 = 0 /\ v17 = 0
Zero15 == v15 = 0 /\ Zero16
Zero14 == v14 = 0 /\ Zero15
Zero13 == v13 = 0 /\ Zero14
Zero11 == v11 = 0 /\ v12 = 0 /\ Zero13
Zero9  == v9 = 0 /\ v10 = 0 /\ Zero11
Zero8  == v8 = 0 /\ Zero9
Zero6  == v6 = 0 /\ v7 = 0 /\ Zero8
Zero4  == v4 = 0 /\ v5 = 0 /\ Zero6
-----------------------------------------------------------------------------
(* What ncftp shows of the remote side.  A tree with a link that leads     *)
(* down, and servers that differ in where the user starts, in PWD, in how  *)
(* much of a path CWD takes and in what is closed.                         *)
Rel(p)   == [abs |-> FALSE, parts |-> p]
Abs(p)   == [abs |-> TRUE, parts |-> p]
OpenSite == [dirs |-> {<<>>, <<"b">>, <<"b", "a">>}, links |-> [p \in {<<"l">>} |-> <<"b", "a">>],
             home |-> <<"b">>, closed |-> {}, multi |-> TRUE, pwd |-> TRUE]
ViewSites == {OpenSite, [OpenSite EXCEPT !.home = <<>>], [OpenSite EXCEPT !.pwd = FALSE],
              [OpenSite EXCEPT !.multi = FALSE, !.home = <<>>],
              [OpenSite EXCEPT !.closed = {<<"b", "a">>}], [OpenSite EXCEPT !.closed = {<<>>}]}
Vw == INSTANCE RemoteView WITH
        site <- v1, visits <- v2, there <- v3, gRemoteCWD <- v4, gPrevRemoteCWD <- v5, gStartDir <- v6,
        astray <- v7, gBm <- v8, gLsCache <- v9, gOldest <- v10,
        Sites <- ViewSites,
        CdArgs <- {Rel(<<"b", "a">>), Rel(<<"l">>), Rel(<<"..">>), Rel(<<"l", "..">>), Abs(<<"b">>)},
        LsItems <- {Rel(<<>>), Rel(<<"..">>)}, CacheSize <- 2, Lifetime <- 1, MaxVisits <- 2

(* The file of bookmarks, with some ncftps and one ncftpbookmarks.         *)
Bk == INSTANCE Bookmarks WITH
        file <- v1, old <- v2, tmp <- v3, saves <- v4, at <- v5, book <- v6, job <- v7, fresh <- v8,
        spoiled <- v9, orphaned <- v10, gBookmarkTable <- v11, nb <- v12, gHilitedHost <- v13,
        gHostListWinStart <- v14, selected <- v15, adrift <- v16, goal <- v17,
        Shells <- Writers, Editor <- "ncftpbookmarks", Names <- BookNames, Starts <- OldBooks,
        PageSize <- Rows, MaxSaves <- MaxBookSaves, MaxEntries <- MaxBookmarks
ASSUME BookmarksAssumption == Bk!BkAssumption

(* It is there, left by an older version, or missing; up to four entries   *)
(* for a window of two rows.                                               *)
Bm(n) == [name |-> n, by |-> 0, long |-> FALSE, torn |-> FALSE]
NoBook == [there |-> FALSE, lines |-> <<>>]
Book(ls) == [there |-> TRUE, lines |-> ls]
SomeBooks == {[file |-> Book(<<Bm(20), Bm(11), Bm(10)>>), old |-> NoBook],
              [file |-> NoBook, old |-> Book(<<Bm(20)>>)], [file |-> NoBook, old |-> NoBook]}

(* A line of it.                                                           *)
Bl == INSTANCE BookmarkLine WITH
        bookmarkName <- v1, name <- v2, line <- v3, Fields <- BookFields, TokSize <- TokenSize
ASSUME BookmarkLineAssumption == Bl!BlAssumption

(* The characters: those that are escaped, those of the escapes, one past  *)
(* 127, and another.                                                       *)
LineChars == {"\\", ",", "$", "^", "F"}
ShortFields == UNION {[1..n -> LineChars \cup {"H", "0", "x"}] : n \in 0..2} \cup [1..3 -> LineChars]

(* The settings.                                                           *)
Pf == INSTANCE Preferences WITH
        site <- v1, home <- v2, temp <- v3, sh <- v4, saved <- v5, hurt <- v6, sets <- v7,
        Shells <- Ncftps, Sites <- SystemFiles, Homes <- UserFiles
ASSUME PreferencesAssumption == Pf!PfAssumption

(* There is nothing at first, or files that an older version and the       *)
(* system's manager left.                                                  *)
NoFile == [is |-> "none"]
Setting(opts, older) == [is |-> "file", opts |-> opts, old |-> older]
Firewall(mode) == [is |-> "file", opts |-> mode]
ManagedFiles ==
  {[global |-> NoFile, fixed |-> NoFile, firewall |-> [global |-> NoFile, fixed |-> NoFile]],
   [global |-> Setting(("pager" :> "pg") @@ ("passive" :> "on"), TRUE),
    fixed |-> Setting("passive" :> "off", FALSE),
    firewall |-> [global |-> Firewall("on"), fixed |-> NoFile]]}
OlderFiles ==
  {[prefs |-> NoFile, v2 |-> NoFile, firewall |-> NoFile, counted |-> FALSE],
   [prefs |-> NoFile, v2 |-> Setting("pager" :> "most", TRUE), firewall |-> Firewall("off"), counted |-> TRUE]}

(* The log of the sessions.                                                *)
Lg == INSTANCE TransferLog WITH
        log <- v1, tmp <- v2, lg <- v3, mixed <- v4, died <- v5, wrote <- v6, ends <- v7,
        Sessions <- Loggers, Hosts <- LogHosts, LineSize <- LogLine, Logs <- OldLogs
ASSUME TransferLogAssumption == Lg!LgAssumption

(* Nine lines of earlier sessions, of which those in S and the first say   *)
(* that a site was opened, two in turn.                                    *)
Site(S, i) == IF Cardinality(S \cap 1..i) % 2 = 0 THEN "a" ELSE "b"
Past(S) == [is |-> "log", lines |-> [i \in 1..9 |-> [open |-> i \in S \cup {1}, of |-> Site(S, i), purged |-> FALSE]]]
NineLines == {NoFile} \cup {Past(S) : S \in {{}, {3}, {4}, {5}, {9}, {2, 5}, {4, 6, 8}, 2..9}}

(* Jobs with another host, user or directory, with a directory that is not *)
(* there, to send and to fetch.                                            *)
Dir(absolute, names) == [abs |-> absolute, names |-> names]
GetJob == [host |-> "h1", port |-> 21, user |-> "u", rdir |-> Dir(TRUE, <<"p">>), ldir |-> "/l",
           op |-> "get", recursive |-> FALSE, rfile |-> TRUE, lfile |-> TRUE]
JobFiles == [a |-> GetJob, b |-> [GetJob EXCEPT !.rdir = Dir(FALSE, <<"r">>), !.ldir = "", !.op = "put"],
             c |-> [GetJob EXCEPT !.user = "v", !.rdir = Dir(TRUE, <<"p", "gone">>)],
             d |-> [GetJob EXCEPT !.host = "h2", !.rdir = Dir(FALSE, <<>>)],
             e |-> [GetJob EXCEPT !.op = "put", !.recursive = TRUE, !.rdir = Dir(FALSE, <<>>)]]
Home == <<"home">>
ServerDirs == {<<"p">>, <<"home">>, <<"home", "r">>}
LeftByNcftp == {[host |-> "h1", port |-> 21, user |-> "u", cwd |-> <<"p">>]}

(* Command lines of ncftpget and ncftpput.                                 *)
Path(absolute, names) == [abs |-> absolute, dirs |-> names]
InD == Path(FALSE, <<"d">>)
LoggedInAt == <<"h">>
Marked == <<"b">>
CommandLines ==
  {c \in [prog : {"get", "put"}, how : {"files", "cat", "url"},
          config : {"none", "file", "hostless", "bad", "bookmark"},
          hostArg : {"dotted", "unknown", "file", "bookmark", "anonymous", "none"},
          given : {{}, {"user", "host"}, {"pass"}}, batch : {0, 1, 3}, dst : {InD, Path(TRUE, <<"d">>)},
          mkdir : BOOLEAN, umask : BOOLEAN,
          files : {<<InD>>, <<Path(TRUE, <<"d">>), Path(FALSE, <<>>)>>, <<Path(TRUE, <<>>), InD>>}] :
    /\ c.prog = "get" => ~c.mkdir /\ ~c.umask /\ c.dst = InD
    /\ c.how = "url" => c.prog = "get" /\ c.files = <<InD>> /\ c.config = "none" /\ c.hostArg = "none"
    /\ c.how = "cat" => Len(c.files) = 1 /\ c.batch = 0
    /\ c.how # "url" /\ (c.config = "none" \/ (c.prog = "get" /\ c.config = "hostless")) => c.hostArg # "none"
    /\ c.config # "none" /\ c.hostArg # "none" => c.hostArg \in {"dotted", "bookmark"}
    /\ c.batch > 0 => ~c.mkdir /\ ~c.umask}

(* ncftpls, for two hosts, of which one has MLSD, two users, two paths.    *)
URLs == [host : {"p", "q"}, port : {21}, user : {"ann", "bob"}, dirs : {<<>>, <<"a">>}, file : {<<>>, <<"a">>}]
URLLists == UNION {[1..n -> URLs] : n \in 1..2} \cup [1..3 -> {u \in URLs : u.user = "ann" /\ u.file = <<>>}]
AllLsOptions == [list : BOOLEAN, df : 0..2, mlsd : BOOLEAN, recurse : BOOLEAN]
HostTree == {<<>>, <<"h">>, <<"h", "a">>, <<"h", "a", "b">>, <<"h", "a", "b", "c">>, <<"h", "d">>, <<"h", "a", "a">>}
MLSDHosts == {"q"}

(* The trees that are copied: with two directories in a row; with a link,  *)
(* an unreadable directory and a thing unknown; deep; with a long name,    *)
(* for which the buffer has to grow; with an empty directory; with a link  *)
(* only.                                                                   *)
World(dirs, files, others) == [p \in dirs \cup files |-> IF p \in dirs THEN "d" ELSE "-"] @@ others
Nothing == [p \in {} |-> "-"]
D == {<<>>, <<"h">>, <<"h", "d">>}
Trees ==
  {World(D \cup {<<"h", "d", "d">>, <<"h", "d", "e">>},
         {<<"h", "d", "f">>, <<"h", "d", "d", "f">>, <<"h", "d", "e", "f">>}, Nothing),
   World(D \cup {<<"h", "d", "e">>}, {<<"h", "d", "d", "f">>, <<"h", "d", "e", "f">>},
         (<<"h", "d", "f">> :> "l") @@ (<<"h", "d", "d">> :> "u") @@ (<<"h", "d", "e", "d">> :> "?")),
   World({<<>>, <<"h">>, <<"h", "e">>, <<"h", "e", "e">>, <<"h", "e", "e", "e">>},
         {<<"h", "d">>, <<"h", "f">>, <<"h", "e", "e", "e", "f">>, <<"f">>}, Nothing),
   World(D \cup {<<"h", "d", "long">>, <<"h", "d", "e">>},
         {<<"h", "d", "long", "f">>, <<"h", "d", "e", "f">>}, Nothing),
   World(D, {<<"f">>}, Nothing),
   World({<<>>, <<"h">>}, {}, <<"h", "d">> :> "l")}
FiveItems == {<<"d">>, <<".">>, <<"/">>, <<"/", "h", "d">>, <<"/", "h">>}
FiveOps == {"get", "put", "bgget", "bgput", "bgfile"}
Lengths == ("/" :> 0) @@ ("long" :> 6) @@ ("cut" :> 5) @@ ("none" :> 4) @@ [c \in {".", "f", "d", "e", "h", "w"} |-> 1]
InH == <<"h">>
InW == <<"w">>
-----------------------------------------------------------------------------
MCInit ==
  /\ part \in Parts
  /\ \/ part = "view"     /\ Vw!VwInit /\ Zero11
     \/ part = "book"     /\ Bk!BkInit
     \/ part = "bookline" /\ Bl!BlInit /\ Zero4
     \/ part = "prefs"    /\ Pf!PfInit /\ Zero8
     \/ part = "log"      /\ Lg!LgInit /\ Zero8
     \/ part = "spooler"  /\ Bi!BiInit /\ Zero14
     \/ part = "sleep"    /\ Sl!SlInit /\ Zero9
     \/ part = "getput"   /\ Ut!UtInit /\ Zero15
     \/ part = "ls"       /\ Ls!LsInit /\ Zero11
     \/ part = "tree"     /\ Tr!TrInit /\ Zero13
MCNext ==
  /\ UNCHANGED part
  /\ \/ part = "view"     /\ Vw!VwNext /\ UNCHANGED Rest11
     \/ part = "book"     /\ Bk!BkNext
     \/ part = "bookline" /\ Bl!BlNext /\ UNCHANGED Rest4
     \/ part = "prefs"    /\ Pf!PfNext /\ UNCHANGED Rest8
     \/ part = "log"      /\ Lg!LgNext /\ UNCHANGED Rest8
     \/ part = "spooler"  /\ Bi!BiNext /\ UNCHANGED Rest14
     \/ part = "sleep"    /\ Sl!SleepAndPass /\ UNCHANGED Rest9
     \/ part = "getput"   /\ Ut!UtNext /\ UNCHANGED Rest15
     \/ part = "ls"       /\ Ls!LsNext /\ UNCHANGED Rest11
     \/ part = "tree"     /\ Tr!TrNext /\ UNCHANGED Rest13
MCSpec == MCInit /\ [][MCNext]_all
-----------------------------------------------------------------------------
(* What ncftp shows of the remote side is so: the current directory, the   *)
(* listings in its cache, each once and under the right path, and where a  *)
(* bookmark leads (cmds.c, ls.c, util.c).                                  *)
ViewRight ==
  /\ [](part = "view" => Vw!VwTypeOK /\ Vw!CwdAgrees /\ Vw!FiledRight /\ Vw!ShowsRight /\ Vw!RingUnique)
  /\ [][part = "view" => Vw!BookmarkLeadsBack]_all

(* The file of bookmarks is there, each process changes in it the one it   *)
(* was to change, any text of a bookmark is read back, and ncftpbookmarks  *)
(* shows the row it marks (bookmark.c, bmed.c).                            *)
BookmarksKept ==
  /\ [](part = "book" => Bk!BkTypeOK /\ Bk!NeverMissing /\ Bk!Shows)
  /\ [](part = "bookline" => Bl!ReadsBack)
  /\ [][part = "book" => Bk!SavesOne]_all

(* A connection runs with the settings in force, what was set and saved is *)
(* there for the next session, and a log cut to its size is still true     *)
(* (pref.c, preffw.c, main.c, log.c).                                      *)
SettingsKept ==
  /\ [](part = "prefs" => Pf!PfTypeOK /\ Pf!InForce /\ Pf!PrefsThere)
  /\ [](part = "log" => Lg!Attributed)
  /\ [][part = "prefs" => Pf!Remembered]_all
  /\ [][part = "log" => Lg!CutsWell]_all

(* The spooler moves each job's files as its own user between its own      *)
(* directories, on whatever connection; does not wait twice for a host     *)
(* that is down; keeps a job whose connection broke; and sleeps between    *)
(* the passes for a time within its limits (ncftpbatch.c).                 *)
JobsCarried ==
  /\ [](part = "spooler" => Bi!BiTypeOK /\ Bi!RightPlace)
  /\ [](part = "sleep" => Sl!SleepsSoundly)
  /\ [][part = "spooler" => Bi!SkipsFailed /\ Bi!KeepsJob]_all

(* ncftpget and ncftpput open and spool with what the command line says    *)
(* and tell by their exit status how it went; ncftpls lists what each URL  *)
(* names, on its own host as its own user.                                 *)
ToolsRight ==
  /\ part = "getput" => Ut!UtTypeOK /\ Ut!Precedence /\ Ut!ExitTells /\ Ut!SpoolsSame
  /\ part = "ls" => Ls!LsTypeOK /\ Ls!RightListing /\ Ls!OneConnection /\ Ls!WholeTree

(* A recursive transfer that says it went well has made the whole tree,    *)
(* and none puts a file where another belongs (ftw.c, rftw.c, rglobr.c,    *)
(* io_getfiles.c, io_putfiles.c, cmds.c).                                  *)
TreesCopied == part = "tree" => Tr!TrTypeOK /\ Tr!CopiesTree /\ Tr!NoneElse

(* ncftpput's page on -R: "copy whole directory trees".                     *)
PutsWholeTrees == part = "tree" => Tr!PutsLongNames
=============================================================================
