----------------------------- MODULE Utilities -----------------------------
(***************************************************************************)
(* ncftpget and ncftpput (sh_util/ncftpget.c, ncftpput.c, gpshare.c): one  *)
(* invocation from its options to its exit status.  Where it goes and as   *)
(* whom comes from options, from a configuration file or a bookmark, and   *)
(* from the host argument; then either each file is spooled as a job for   *)
(* ncftpbatch, or the host is opened and each file is copied.              *)
(*                                                                         *)
(* The values of host, user, password and port are abstracted to where     *)
(* they come from.  A path is [abs, dirs]: absolute or not, and the        *)
(* directories before the file's name.                                     *)
(***************************************************************************)
EXTENDS Naturals, Sequences, FiniteSets

CONSTANTS Invocations,   \* see Cmd below
          LoginDir, BookmarkDir   \* of the server, as sequences of names

VARIABLES cmd,      \* the invocation: [prog, how, config, hostArg, given, batch, dst, mkdir, umask, files]
          pc, fi,   \* fi: where each setting comes from
          loaded,   \* configLoaded2: what the host argument turned out to be
          asked,    \* a password was asked for
          cwd, result, todo, outcomes, errNo, es,
          cancelXfer, restored,   \* ^C: the counter, and if the next one kills
          jobs      \* what was spooled: sequence of [from, done]

utvars == <<cmd, pc, fi, loaded, asked, cwd, result, todo, outcomes, errNo, es,
            cancelXfer, restored, jobs>>
signals == <<cancelXfer, restored>>

Settings == {"host", "user", "pass", "port"}
Sources  == {"", "anonymous", "default", "config", "bookmark", "argument", "option"}

(* What is assumed of the constants.                                       *)
Dirs     == Seq(STRING)
Path     == [abs : BOOLEAN, dirs : Dirs]
Commands == [prog : {"get", "put"}, how : {"files", "cat", "Cat", "url"},
             config : {"none", "file", "hostless", "bad", "bookmark"},
             hostArg : {"dotted", "unknown", "file", "bookmark", "anonymous", "none"},
             given : SUBSET Settings, batch : Nat, dst : Path, mkdir : BOOLEAN, umask : BOOLEAN,
             files : Seq(Path)]
UtAssumption == /\ \A c \in Invocations : c \in Commands /\ c.files # <<>>
                /\ LoginDir \in Dirs /\ BookmarkDir \in Dirs

FromArgs == [host |-> "", user |-> "anonymous", pass |-> "", port |-> "default"]
Cat      == cmd.how \in {"cat", "Cat"}

UtInit ==
  /\ cmd \in Invocations /\ pc = "options" /\ fi = FromArgs /\ loaded = "none" /\ asked = FALSE
  /\ cwd = LoginDir /\ result = "ok" /\ todo = cmd.files /\ outcomes = <<>> /\ errNo = "ok"
  /\ es = "none" /\ cancelXfer = 0 /\ restored = FALSE /\ jobs = <<>>

Exit(status) == pc' = "exit" /\ es' = status
-----------------------------------------------------------------------------
(* ReadConfigFile: a file says some of the settings, perhaps not the host; *)
(* if there is no such file it may be the name of a bookmark, which says   *)
(* all of them, the user of an anonymous one being empty.                  *)
ReadConfigFile(what) ==
  CASE what = "file"     -> [fi EXCEPT !.host = "config", !.user = "config", !.pass = "config"]
    [] what = "hostless" -> [fi EXCEPT !.user = "config"]
    [] what = "bookmark" -> [s \in Settings |-> "bookmark"]
    [] what = "anonymous" -> [s \in Settings |-> IF s \in {"user", "pass"} THEN "" ELSE "bookmark"]
    [] OTHER             -> fi

(* The options are read one after the other; -f is one of them.            *)
Options ==
  /\ pc = "options"
  /\ IF cmd.config = "bad" THEN Exit("badconfig") /\ UNCHANGED fi
     ELSE pc' = "host" /\ fi' = ReadConfigFile(cmd.config) /\ UNCHANGED es
  /\ UNCHANGED <<cmd, loaded, asked, cwd, result, todo, outcomes, errNo, signals, jobs>>

(* With no host from -f (ncftpget) or without -f (ncftpput) the first      *)
(* argument is the host.  A name without a dot may be that of a file or of *)
(* a bookmark; a URL says the host itself.  With -f, -c and an argument to *)
(* spare, ncftpput takes that for the host all the same.                   *)
HostWanted == IF cmd.prog = "get" THEN fi.host = "" ELSE cmd.config = "none"
HostArgument ==
  /\ pc = "host" /\ pc' = "override"
  /\ IF ~HostWanted
     THEN /\ fi' = IF cmd.prog = "put" /\ Cat /\ cmd.hostArg # "none" THEN [fi EXCEPT !.host = "argument"]
                   ELSE fi
          /\ UNCHANGED loaded
     ELSE LET named == [fi EXCEPT !.host = "argument"]
              looked == ReadConfigFile(cmd.hostArg)
          IN IF cmd.how = "url" \/ cmd.hostArg \in {"dotted", "unknown"}
             THEN fi' = named /\ UNCHANGED loaded
             ELSE /\ fi' = [looked EXCEPT !.host = IF @ = "" THEN "argument" ELSE @]
                  /\ loaded' = IF cmd.hostArg \in {"bookmark", "anonymous"} THEN "bookmark" ELSE "config"
  /\ UNCHANGED <<cmd, asked, cwd, result, todo, outcomes, errNo, es, signals, jobs>>

(* The options that override a bookmark or a file, and the password of a   *)
(* user who is not called anonymous.                                       *)
OverrideBefore == [s \in Settings |-> IF s \in cmd.given /\ fi[s] \in {"", "anonymous", "default"}
                                      THEN "option" ELSE fi[s]]   \* a defect: only what is unset
Override == [s \in Settings |-> IF s \in cmd.given THEN "option" ELSE fi[s]]
Ready ==
  /\ pc = "override"
  /\ fi' = Override
  /\ asked' = (fi'.user # "anonymous" /\ fi'.pass = "")
  /\ pc' = IF cmd.batch > 0 THEN "spool" ELSE "open"
  /\ UNCHANGED <<cmd, loaded, cwd, result, todo, outcomes, errNo, es, signals, jobs>>
-----------------------------------------------------------------------------
(* SpoolX for each file.  A download's job goes to the directory its name  *)
(* names, an upload's to the directory argument, both from where ncftpbatch*)
(* logs in; "/f" is split into an empty directory and "f".                 *)
FromLogin(p) == IF p.abs /\ p.dirs # <<>> THEN p.dirs ELSE LoginDir \o p.dirs
SpoolNext ==
  /\ pc = "spool" /\ todo # <<>>
  /\ \E done \in BOOLEAN :
       jobs' = Append(jobs, [done |-> done,
                             at |-> FromLogin(IF cmd.prog = "get" THEN Head(todo) ELSE cmd.dst)])
  /\ todo' = Tail(todo)
  /\ UNCHANGED <<cmd, pc, fi, loaded, asked, cwd, result, outcomes, errNo, es, signals>>

(* One job that was spooled is a success; three -b print and cannot fail.  *)
SpoolEnds ==
  /\ pc = "spool" /\ todo = <<>>
  /\ Exit(IF cmd.batch >= 3 \/ \E k \in DOMAIN jobs : jobs[k].done THEN "success" ELSE "spoolfailed")
  /\ UNCHANGED <<cmd, fi, loaded, asked, cwd, result, todo, outcomes, errNo, signals, jobs>>
-----------------------------------------------------------------------------
(* FTPOpenHost, -W, and for ncftpput -U; if -U fails the result is kept.   *)
Open ==
  /\ pc = "open"
  /\ \/ pc' = "bookmark" /\ UNCHANGED es
        /\ result' \in IF cmd.umask THEN {"ok", "umask"} ELSE {"ok"}
     \/ Exit("openfailed") /\ UNCHANGED result
  /\ UNCHANGED <<cmd, fi, loaded, asked, cwd, todo, outcomes, errNo, signals, jobs>>

(* To the bookmark's directory; not to get there is only a warning.        *)
ToBookmark ==
  /\ pc = "bookmark" /\ pc' = "chdir"
  /\ IF loaded # "bookmark" THEN UNCHANGED <<cwd, result>>
     ELSE IF cmd.prog = "put" /\ ~Cat /\ cmd.dst.abs THEN result' = "ok" /\ UNCHANGED cwd
     ELSE \/ cwd' = LoginDir \o BookmarkDir /\ result' = "ok"
          \/ UNCHANGED cwd /\ result' = "cwd"
  /\ UNCHANGED <<cmd, fi, loaded, asked, todo, outcomes, errNo, es, signals, jobs>>

(* To the URL's directory, or ncftpput's: made if -m says so.  ncftpput    *)
(* looks at the last result, whatever it is of.                            *)
At(p) == IF p.abs THEN p.dirs ELSE cwd \o p.dirs
Change ==
  /\ pc = "chdir"
  /\ LET moves == IF cmd.prog = "get" THEN cmd.how = "url" ELSE ~Cat
     IN \/ moves /\ cwd' = At(cmd.dst) /\ result' = "ok" /\ pc' = "copy" /\ UNCHANGED es
        \/ moves /\ result' \in {"cwd"} \cup (IF cmd.mkdir THEN {"mkd"} ELSE {})
           /\ Exit(IF result' = "mkd" THEN "mkdirfailed" ELSE "chdirfailed") /\ UNCHANGED cwd
        \/ /\ ~moves /\ UNCHANGED <<cwd, result>>
           /\ IF cmd.prog = "put" /\ result # "ok" THEN Exit("chdirfailed")
              ELSE pc' = "copy" /\ UNCHANGED es
  /\ UNCHANGED <<cmd, fi, loaded, asked, todo, outcomes, errNo, signals, jobs>>

(* A file is copied, was already there, cannot be, is not found, or is cut *)
(* short by ^C, after which the next one is begun.  The counter of ^C is   *)
(* zeroed where a transfer starts.                                         *)
Outcome == {"ok", "same", "failed"} \cup (IF cmd.prog = "get" /\ ~Cat THEN {"nomatch"} ELSE {})
CopyNext ==
  /\ pc = "copy" /\ todo # <<>> /\ pc' = "transfer" /\ cancelXfer' = 0
  /\ UNCHANGED <<cmd, fi, loaded, asked, cwd, result, todo, outcomes, errNo, es, restored, jobs>>
CopyEnds ==
  /\ pc = "transfer" /\ pc' = "copy" /\ todo' = Tail(todo)
  /\ \E o \in Outcome :
       /\ outcomes' = Append(outcomes, [out |-> o, at |-> IF Cat \/ cmd.prog = "get" THEN At(Head(todo)) ELSE cwd])
       /\ errNo' = IF o = "ok" THEN errNo ELSE o
  /\ UNCHANGED <<cmd, fi, loaded, asked, cwd, result, es, signals, jobs>>

(* Abort: the second ^C in a transfer puts the default handler back.       *)
Abort ==
  /\ pc = "transfer" /\ cancelXfer < 2
  /\ IF restored THEN Exit("killed") /\ UNCHANGED signals
     ELSE cancelXfer' = cancelXfer + 1 /\ restored' = (cancelXfer' >= 2) /\ UNCHANGED <<pc, es>>
  /\ UNCHANGED <<cmd, fi, loaded, asked, cwd, result, todo, outcomes, errNo, jobs>>

(* What Copy returns, and the exit status.  Of a single file of -c and -C  *)
(* "already there" counts as a failure.                                    *)
Fails(o) == o.out \in {"failed", "nomatch"} \/ (o.out = "same" /\ Cat)
Copied == \A k \in DOMAIN outcomes : ~Fails(outcomes[k])
Finish ==
  /\ pc = "copy" /\ todo = <<>>
  /\ Exit(IF Copied THEN "success" ELSE IF errNo = "nomatch" THEN "globnomatch" ELSE "xferfailed")
  /\ UNCHANGED <<cmd, fi, loaded, asked, cwd, result, todo, outcomes, errNo, signals, jobs>>

UtNext == \/ Options \/ HostArgument \/ Ready \/ SpoolNext \/ SpoolEnds \/ Open \/ ToBookmark
          \/ Change \/ CopyNext \/ CopyEnds \/ Abort \/ Finish
UtSpec == UtInit /\ [][UtNext]_utvars
-----------------------------------------------------------------------------
(* The types of the variables, and what the exit status is one of.         *)
UtTypeOK ==
  /\ pc \in {"options", "host", "override", "spool", "open", "bookmark", "chdir", "copy", "transfer",
             "exit"}
  /\ \A s \in Settings : fi[s] \in Sources
  /\ Len(outcomes) + Len(jobs) + Len(todo) = Len(cmd.files) /\ cancelXfer \in 0..2
  /\ (pc = "exit") = (es # "none")

(* An option given on the command line is what the host is opened with,    *)
(* and the job spooled with, whatever file or bookmark was read before or  *)
(* after it; what no option says is the file's or the bookmark's.          *)
SaidBy(s) ==
  /\ fi[s] = "option" <=> s \in cmd.given
  /\ (s \notin cmd.given /\ loaded = "bookmark") =>
       (fi[s] = "bookmark" \/ (cmd.hostArg = "anonymous" /\ s \in {"user", "pass"}))
  /\ (s \notin cmd.given /\ cmd.config = "file" /\ s = "user" /\ loaded = "none") => fi[s] = "config"
Precedence == pc \in {"spool", "open", "copy"} => \A s \in Settings : SaidBy(s)

(* The exit status is 0 only if every file asked for was copied or already *)
(* there, and a failure only if something failed.                          *)
ExitTells ==
  (pc = "exit" /\ cmd.batch = 0) =>
    /\ es = "success" <=> (todo = <<>> /\ \A k \in DOMAIN outcomes : ~Fails(outcomes[k]))
    /\ es \in {"xferfailed", "globnomatch"} => \E k \in DOMAIN outcomes : Fails(outcomes[k])

(* A job spooled with -b is for the same file as the copy that the same    *)
(* command makes at once, unless the host argument is a bookmark with a    *)
(* directory of its own, or the file is in the root directory.             *)
Foreground(p) ==
  IF p.abs THEN p.dirs
  ELSE (IF loaded = "bookmark" THEN LoginDir \o BookmarkDir ELSE LoginDir) \o p.dirs
Moved(k) == IF cmd.prog = "get" THEN cmd.files[k] ELSE cmd.dst
SpoolsSame ==
  \A k \in DOMAIN jobs :
    (IF Moved(k).abs THEN Moved(k).dirs # <<>> ELSE loaded # "bookmark")
      => jobs[k].at = Foreground(Moved(k))
-----------------------------------------------------------------------------
(* What every step keeps, and what these follow from.  Before the options  *)
(* override anything, what is known of a setting is where it was read; the *)
(* files still to do are the last ones of the command line.                *)
Outcomes == {"ok", "same", "failed", "nomatch"}
UtTypes ==
  /\ cmd \in Invocations /\ cwd \in Dirs
  /\ pc \in {"options", "host", "override", "spool", "open", "bookmark", "chdir", "copy", "transfer",
             "exit"}
  /\ fi \in [Settings -> Sources] /\ loaded \in {"none", "config", "bookmark"}
  /\ todo \in Seq(Path) /\ outcomes \in Seq([out : Outcomes, at : Dirs])
  /\ jobs \in Seq([done : BOOLEAN, at : Dirs])
  /\ cancelXfer \in 0..2 /\ (pc = "exit") = (es # "none")

ReadSoFar ==
  /\ pc = "options" => fi = FromArgs
  /\ pc \in {"options", "host"} => loaded = "none"
  /\ pc \in {"options", "host", "override"} => \A s \in Settings : fi[s] # "option"
  /\ pc \in {"host", "override"} /\ cmd.config = "file" /\ loaded = "none" => fi["user"] = "config"
  /\ pc = "override" /\ loaded = "bookmark" =>
       \A s \in Settings : fi[s] = "bookmark" \/ (cmd.hostArg = "anonymous" /\ s \in {"user", "pass"})
  /\ pc \notin {"options", "host", "override", "exit"} => \A s \in Settings : SaidBy(s)

FilesLeft ==
  /\ Len(outcomes) + Len(jobs) + Len(todo) = Len(cmd.files)
  /\ \A k \in DOMAIN todo : todo[k] = cmd.files[Len(cmd.files) - Len(todo) + k]
  /\ pc \in {"options", "host", "override", "open", "bookmark", "chdir", "transfer"} => todo # <<>>
  /\ pc \notin {"copy", "transfer", "exit"} => outcomes = <<>>
  /\ pc \notin {"spool", "exit"} => jobs = <<>>
  /\ pc = "spool" => cmd.batch > 0
  /\ \A k \in DOMAIN jobs : jobs[k].at = FromLogin(Moved(k))

UtInv == UtTypes /\ ReadSoFar /\ FilesLeft /\ ExitTells
=============================================================================
