------------------------------- MODULE Probing -------------------------------
(***************************************************************************)
(* How libncftp finds out whether a remote file exists, what it is, and    *)
(* how to set its time, on servers that know few of the commands for it:   *)
(* FTPFileExists2, FTPFileType and FTPUtime.  The client learns what the   *)
(* server knows from how it answers; for STAT and NLST with the name of a  *)
(* file it must find out whether the answer says anything at all, which    *)
(* takes it to the directory where the session began, and may take a file  *)
(* of its own.                                                             *)
(***************************************************************************)
EXTENDS Naturals, FiniteSets, FiniteSetsExt

CONSTANTS
  Hosts,     \* the servers met: a subset of HostKinds
  Overrides, \* what the -o option of the programs says: a set of functions on Commands
  Changes    \* bound: how often another user replaces the item

Commands  == {"MDTM", "SIZE", "MLST", "STAT", "NLST", "MFF", "MFMT", "UTIME", "MDTMset"}
Answers   == {"no", "files", "all"}             \* unimplemented; about files; about directories too
Echoes    == {"no", "ignores", "says", "yes"}   \* ignores the name; says no such file in a good reply
HostKinds == [feat : BOOLEAN, wu : BOOLEAN,                   \* answers FEAT; says it is wu-ftpd
              MDTM : Answers, SIZE : Answers, MLST : {"no", "all"}, STAT : Echoes, NLST : Echoes,
              back : {"yes", "noPwd", "noReturn"},            \* may the client leave its directory and return
              root : {"items", "emptyDir", "empty", "refused"}, \* the first directory; what is last in it
              write : {"no", "keeps", "yes"},                 \* files can be stored there, and deleted
              MFF : {"no", "refuses", "yes"}, MFMT : BOOLEAN, UTIME : BOOLEAN, MDTMset : BOOLEAN]
Directories == {"dir", "empty", "closed"}                     \* empty, or not to be entered
Items       == {"none", "file"} \cup Directories

ASSUME HostsAssumption     == Hosts \subseteq HostKinds /\ Changes \in Nat
ASSUME OverridesAssumption == \A o \in Overrides : DOMAIN o \subseteq Commands

VARIABLES
  peer,       \* the server
  item,       \* what the name asked about is, on the server
  stampable,  \* whether the user may set its time
  litter,     \* the client's testfile.ftp is on the server
  knows,      \* cip->hasMDTM, ..., STATfileParamWorks, NLSTfileParamWorks
  place,      \* the working directory: the user's, the first one, the item
  ppc, by,    \* where the call is, and by which method
  ask, tries, \* what was asked, and the methods FTPFileExists2 may use
  presult,
  forced,     \* history: what was overridden
  changed,    \* how often the item was replaced
  seen,       \* history: what the item was during the call
  worked      \* history: the calls of FTPUtime that set the time

still == <<peer, item, stampable, forced, changed>>
pvars == <<still, litter, knows, place, ppc, by, ask, tries, presult, seen, worked>>

(* FTPQueryFeatures: what wu-ftpd is known to have; what FEAT lists; and   *)
(* without FEAT there is none of the commands that came with it.  Then     *)
(* FTPManualOverrideFeatures sets what the user said.                      *)
Listed(h) == {c \in {"MDTM", "SIZE", "MLST", "MFF"} : h[c] # "no"} \cup {c \in {"MFMT", "UTIME"} : h[c]}
FTPQueryFeatures(h) ==
  [c \in Commands |-> IF \/ h.wu /\ c \in {"MDTM", "SIZE", "MDTMset", "NLST"}
                         \/ h.feat /\ c \in Listed(h) THEN "yes"
                      ELSE IF ~h.feat /\ c \in {"MLST", "MFMT", "MFF"} THEN "no"
                      ELSE "unknown"]
FTPManualOverrideFeatures(k, o) == [c \in Commands |-> IF c \in DOMAIN o THEN o[c] ELSE k[c]]

PInit ==
  /\ peer \in Hosts /\ item \in Items /\ stampable \in BOOLEAN /\ litter = FALSE
  /\ \E o \in Overrides : knows = FTPManualOverrideFeatures(FTPQueryFeatures(peer), o) /\ forced = DOMAIN o
  /\ place = "home" /\ ppc = "idle" /\ by = "none" /\ ask = "none" /\ tries = {} /\ presult = "none"
  /\ changed = 0 /\ seen = {} /\ worked = {}

Learn(c, v) == knows' = [knows EXCEPT ![c] = v]
At(l)       == ppc' = l /\ UNCHANGED <<by, presult>>
Answer(r)   == ppc' = "idle" /\ by' = "none" /\ presult' = r

(* The methods of FTPFileExists2, in their order; from each to the next.   *)
Order == <<"MDTM", "SIZE", "MLST", "STAT", "NLST", "none">>
After(i, ms) == Min({j \in i + 1 .. 6 : Order[j] \in ms \cup {"none"}})
Try(i) == /\ by' = Order[i] /\ UNCHANGED presult
          /\ ppc' = IF i <= 3 THEN "one" ELSE IF i <= 5 THEN "probe" ELSE "cannotTell"
NextMethod == Try(After(CHOOSE i \in 1..5 : Order[i] = by, tries))

(* FTPFileType takes any answer but one for "it is there".                 *)
Exists(r) == Answer(IF ask = "type" /\ r # "noSuch" THEN "thereUnknown" ELSE r)
-----------------------------------------------------------------------------
(* The beginning of a call: FTPFileExists; FTPFileType; FTPFileExists2 as  *)
(* FTPPutOneF calls it; FTPUtime.                                          *)
Ask ==
  /\ ppc = "idle"
  /\ \/ ask' = "exists" /\ Try(1) /\ tries' = {"MDTM", "SIZE", "MLST", "STAT", "NLST"}
     \/ ask' = "exists" /\ Try(4) /\ tries' = {"STAT", "NLST"}
     \/ ask' = "type" /\ At("typeMLST") /\ tries' = {"MDTM", "SIZE", "STAT", "NLST"}
     \/ ask' \in {"utime", "utimeWithCreation"} /\ At("MFF") /\ tries' = {}
  /\ seen' = {item}
  /\ UNCHANGED <<still, litter, knows, place, worked>>

(* A defect to be caught: a SIZE that fails is an answer.                  *)
OneCommandSizeDenies ==
  /\ ppc = "one"
  /\ IF knows[by] = "no" THEN NextMethod /\ UNCHANGED knows
     ELSE IF peer[by] = "no" THEN NextMethod /\ Learn(by, "no")
     ELSE IF item = "file" \/ (peer[by] = "all" /\ item # "none")
       THEN Exists("ok") /\ IF by = "MLST" THEN UNCHANGED knows ELSE Learn(by, "yes")
     ELSE UNCHANGED knows /\ Exists("noSuch")
  /\ UNCHANGED <<still, litter, place, ask, tries, seen, worked>>

(* FTPFileModificationTime, FTPFileSize, FTPMListOneFile.  A method is     *)
(* left for the next if the server does not know it; SIZE also if it just  *)
(* fails.                                                                  *)
OneCommand ==
  /\ ppc = "one"
  /\ IF knows[by] = "no" THEN NextMethod /\ UNCHANGED knows
     ELSE IF peer[by] = "no"
       THEN /\ NextMethod
            /\ knows' = [c \in Commands |-> IF c = by \/ (by = "MDTM" /\ c = "MDTMset") THEN "no" ELSE knows[c]]
     ELSE IF item = "file" \/ (peer[by] = "all" /\ item # "none")
       THEN Exists("ok") /\ IF by = "MLST" THEN UNCHANGED knows ELSE Learn(by, "yes")
     ELSE UNCHANGED knows /\ IF by = "SIZE" THEN NextMethod ELSE Exists("noSuch")
  /\ UNCHANGED <<still, litter, place, ask, tries, seen, worked>>

(* FTPFileExistsStat and FTPFileExistsNlst.  First a name that is not      *)
(* there: an answer that is good all the same shows that the name is       *)
(* ignored.                                                                *)
Probe ==
  /\ ppc = "probe"
  /\ IF knows[by] = "no" THEN NextMethod /\ UNCHANGED knows
     ELSE IF knows[by] = "yes" THEN At("it") /\ UNCHANGED knows
     ELSE IF peer[by] = "ignores" THEN Learn(by, "no") /\ NextMethod
     ELSE At("go") /\ UNCHANGED knows
  /\ UNCHANGED <<still, litter, place, ask, tries, seen, worked>>

(* Then to the first directory; if that fails so does the call, with the   *)
(* error of PWD or CWD, and FTPFileExists2 tries the next method.          *)
ProbeGo ==
  /\ ppc = "go"
  /\ IF peer.back # "noPwd" THEN place' = "first" /\ At("list") ELSE UNCHANGED place /\ NextMethod
  /\ UNCHANGED <<still, litter, knows, ask, tries, seen, worked>>

Returning == place' = IF peer.back = "yes" THEN "home" ELSE place

(* The listing of it.  For NLST, if there is nothing to list, a file is    *)
(* made.                                                                   *)
ProbeList ==
  /\ ppc = "list"
  /\ IF peer.root \in {"items", "emptyDir"} THEN At("last") /\ UNCHANGED <<litter, knows, place>>
     ELSE IF by = "NLST" /\ peer.write # "no"
       THEN litter' = TRUE /\ At("last") /\ UNCHANGED <<knows, place>>
     ELSE Learn(by, "no") /\ Returning /\ NextMethod /\ UNCHANGED litter
  /\ UNCHANGED <<still, ask, tries, seen, worked>>

(* The answer about something that is there; NLST of an empty directory    *)
(* lists nothing.                                                          *)
Shows(m, kind) == \/ peer[m] = "ignores"
                  \/ /\ peer[m] \in {"says", "yes"} /\ kind # "none"
                     /\ m = "NLST" => kind \notin {"empty", "closed"}
LastListed    == IF peer.root = "emptyDir" THEN "empty" ELSE "file"
Deleted == litter /\ peer.write = "keeps"

(* The last name of the listing: an answer that denies it shows that names *)
(* are no use here.  Either way the test file goes, and so does the client. *)
ProbeLast ==
  /\ ppc = "last"
  /\ IF Shows(by, LastListed) THEN Learn(by, "yes") /\ At("it") ELSE Learn(by, "no") /\ NextMethod
  /\ litter' = Deleted /\ Returning
  /\ UNCHANGED <<still, ask, tries, seen, worked>>

(* The item itself.                                                        *)
ProbeIt ==
  /\ ppc = "it" /\ Exists(IF Shows(by, item) THEN "ok" ELSE "noSuch")
  /\ UNCHANGED <<still, litter, knows, place, ask, tries, seen, worked>>

CannotTell ==
  /\ ppc = "cannotTell" /\ Exists("cannotTell")
  /\ UNCHANGED <<still, litter, knows, place, ask, tries, seen, worked>>
-----------------------------------------------------------------------------
(* FTPFileType, before FTPFileExists2: MLST; then CWD to it and back.      *)
TypeMlst ==
  /\ ppc = "typeMLST"
  /\ IF knows["MLST"] = "no" THEN At("typeCWD") /\ UNCHANGED knows
     ELSE IF peer.MLST = "no" THEN Learn("MLST", "no") /\ At("typeCWD")
     ELSE /\ UNCHANGED knows
          /\ IF item = "none" THEN At("typeCWD")
             ELSE Answer(IF item \in Directories THEN "aDirectory" ELSE "aFile")
  /\ UNCHANGED <<still, litter, place, ask, tries, seen, worked>>

TypeCwd ==
  /\ ppc = "typeCWD"
  /\ IF item \in {"dir", "empty"} THEN place' = "item" /\ At("typeBack") ELSE UNCHANGED place /\ Try(1)
  /\ UNCHANGED <<still, litter, knows, ask, tries, seen, worked>>

TypeBack ==
  /\ ppc = "typeBack" /\ Returning /\ Answer("aDirectory")
  /\ UNCHANGED <<still, litter, knows, ask, tries, seen, worked>>
-----------------------------------------------------------------------------
(* FTPUtime.  MFF can set the time of creation too; if it is refused there *)
(* is MFMT, else SITE UTIME, and only if that is not to be had MDTM with a *)
(* time.  `tries' holds what the result is so far.                         *)
CanStamp == stampable /\ item # "none"
Done(r) == Answer(r) /\ worked' = worked \cup (IF r = "ok" THEN {ask} ELSE {})

UtimeMff ==
  /\ ppc = "MFF"
  /\ LET asked == knows["MFF"] = "yes" /\ ask = "utimeWithCreation" IN
     IF asked /\ peer.MFF = "yes" /\ CanStamp THEN Done("ok") /\ UNCHANGED tries
     ELSE At("MFMT") /\ tries' = {IF asked THEN "failed" ELSE "notAvailable"} /\ UNCHANGED worked
  /\ UNCHANGED <<still, litter, knows, place, ask, seen>>

UtimeMfmt ==
  /\ ppc = "MFMT"
  /\ IF knows["MFMT"] = "yes" THEN Done(IF peer.MFMT /\ CanStamp THEN "ok" ELSE "failed")
     ELSE At("UTIME") /\ UNCHANGED worked
  /\ UNCHANGED <<still, litter, knows, place, ask, tries, seen>>

UtimeSite ==
  /\ ppc = "UTIME"
  /\ IF knows["UTIME"] = "no" THEN At("MDTMset") /\ UNCHANGED <<knows, tries, worked>>
     ELSE IF ~peer.UTIME THEN Learn("UTIME", "no") /\ At("MDTMset") /\ tries' = {"notAvailable"} /\ UNCHANGED worked
     ELSE IF CanStamp THEN Learn("UTIME", "yes") /\ Done("ok") /\ UNCHANGED tries
     ELSE Done("failed") /\ UNCHANGED <<tries, knows>>
  /\ UNCHANGED <<still, litter, place, ask, seen>>

(* A server that does not know this use of MDTM looks for a file that has  *)
(* the time for its name: its 550 is that of a file that may not be set.   *)
UtimeMdtm ==
  /\ ppc = "MDTMset"
  /\ IF tries = {"failed"} \/ knows["MDTM"] = "no" \/ knows["MDTMset"] = "no"
       THEN Done(CHOOSE r \in tries : TRUE) /\ UNCHANGED knows
     ELSE IF peer.MDTMset /\ CanStamp THEN Learn("MDTMset", "yes") /\ Done("ok")
     ELSE Learn("MDTMset", "no") /\ Done("notAvailable")
  /\ UNCHANGED <<still, litter, place, ask, tries, seen>>
-----------------------------------------------------------------------------
(* Another user makes the item into something else.                        *)
Replaced ==
  /\ changed < Changes /\ changed' = changed + 1
  /\ item' \in Items \ {item} /\ stampable' \in BOOLEAN
  /\ seen' = (IF ppc = "idle" THEN seen ELSE seen \cup {item'}) /\ worked' = {}
  /\ UNCHANGED <<peer, forced, litter, knows, place, ppc, by, ask, tries, presult>>

PNext == \/ Ask \/ OneCommand \/ Probe \/ ProbeGo \/ ProbeList \/ ProbeLast \/ ProbeIt \/ CannotTell
         \/ TypeMlst \/ TypeCwd \/ TypeBack
         \/ UtimeMff \/ UtimeMfmt \/ UtimeSite \/ UtimeMdtm \/ Replaced
PSpec == PInit /\ [][PNext]_pvars
-----------------------------------------------------------------------------
PTypeOK ==
  /\ item \in Items /\ stampable \in BOOLEAN /\ litter \in BOOLEAN
  /\ knows \in [Commands -> {"unknown", "yes", "no"}] /\ place \in {"home", "first", "item"}
  /\ seen \subseteq Items /\ changed \in 0..Changes /\ forced \subseteq Commands
  /\ ppc = "idle" => by = "none"

(* Between two calls the client is where the user left it, unless the      *)
(* server does not let it return (c_filetype.c:52 owns up to that).        *)
StaysHome == ppc = "idle" /\ peer.back # "noReturn" => place = "home" \/ peer.back = "noPwd"

(* And its test file is not left behind, unless the server keeps it.       *)
NoLitter == litter => ppc = "last" \/ peer.write = "keeps"

(* What the client has learnt is true of the server.  What it gives up it  *)
(* has reason to: a command that came with FEAT is not looked for without, *)
(* the first directory could not be used for the probe, or a time could    *)
(* not be set that the user may not set.                                   *)
Understands(c) == CASE c \in {"STAT", "NLST"} -> peer[c] \in {"says", "yes"}
                    [] c \in {"MFMT", "UTIME", "MDTMset"} -> peer[c]
                    [] OTHER -> peer[c] # "no"
LearntRight ==
  \A c \in Commands \ forced :
    /\ knows[c] = "yes" => Understands(c)
    /\ (knows[c] = "no" /\ Understands(c)) =>
         \/ c \in {"MLST", "MFMT", "MFF"} /\ ~peer.feat
         \/ c \in {"STAT", "NLST"} /\ peer.root # "items"
         \/ c = "MDTMset" /\ (knows["MDTM"] = "no" \/ changed > 0 \/ ~CanStamp)

(* FTPFileExists is right about what was there at some time of the call.   *)
(* A directory it can miss, by MDTM of a server that has it for files only *)
(* and by NLST of an empty one.                                            *)
Returned(r) == ppc # "idle" /\ ppc' = "idle" /\ presult' \in r
ExistsRight ==
  [][forced = {} =>
       /\ Returned({"ok"}) => seen # {"none"}
       /\ Returned({"noSuch"}) => \/ "none" \in seen
                                  \/ seen \cap Directories # {} /\ peer.MDTM = "files"
                                  \/ seen \cap {"empty", "closed"} # {} /\ peer.NLST # "no"]_pvars

(* FTPFileType is right about the kind; when it says "exists" without a    *)
(* kind it is, if there is any means to tell.                              *)
TypeRight ==
  [][forced = {} =>
       /\ Returned({"aDirectory"}) => seen \cap Directories # {}
       /\ Returned({"aFile"}) => "file" \in seen
       /\ Returned({"thereUnknown"}) =>
            seen # {"none"} \/ (peer.MDTM = "no" /\ {knows'["STAT"], knows'["NLST"]} \cap {"yes"} = {})]_pvars

(* What FTPUtime has set once it sets again, however often it is asked,    *)
(* unless MFF is refused: then MDTM is used in the call that finds SITE    *)
(* UTIME missing, and in no later one.                                     *)
UtimeSteady ==
  [][(Returned({"ok", "failed", "notAvailable"}) /\ ask \in worked /\ peer.MFF # "refuses") => presult' = "ok"]_pvars
=============================================================================
