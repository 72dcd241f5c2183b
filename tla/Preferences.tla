---------------------------- MODULE Preferences ----------------------------
(***************************************************************************)
(* What the sessions of ncftp share in ~/.ncftp: the preferences, the      *)
(* firewall file and the counter of runs (ncftp/pref.c, preffw.c,          *)
(* main.c).  A session reads them as it starts, over the system's files,   *)
(* keeps every setting in a variable of its own, and writes all of them    *)
(* back as it ends: into a temporary file, which then takes the place of   *)
(* the old one.                                                            *)
(*                                                                         *)
(* A settings file is a function from the options it sets to their text,   *)
(* with a flag for options of older versions.  Options stand for the kinds *)
(* there are: yes or no, three-valued, text, number, one that another file *)
(* may force (passive) and one the connection keeps a copy of.             *)
(***************************************************************************)
EXTENDS Naturals

CONSTANTS Shells,   \* the processes that run ncftp
          Sites,    \* the system's files: [global, fixed, firewall]
          Homes,    \* what ~/.ncftp holds at first: [prefs, v2, firewall, counted]
          MaxSets   \* bound: settings changed in a behaviour

VARIABLES site,     \* the system's files, which no session writes
          home,     \* [prefs, v2, firewall, counted]
          temp,     \* the temporary file of each process
          sh,       \* the processes
          saved,    \* history: the settings of the last process that saved them
          hurt,     \* history: a death or a failed rename has left no file
          sets      \* settings changed so far

pfvars == <<site, home, temp, sh, saved, hurt, sets>>

NoFile  == [is |-> "none"]
Torn    == [is |-> "torn"]                   \* the end is missing
Holding(opts, old) == [is |-> "file", opts |-> opts, old |-> old]
NoMode  == "none"                            \* gFwDataPortMode < 0
NoSave  == [is |-> "none"]
Found(file) == file.is = "file"

Options == {"auto-resume", "pager", "passive", "redial-delay", "save-passwords",
            "control-timeout", "anon-password", "one-time-messages-seen"}
Default == [o \in Options |->
              CASE o = "auto-resume"     -> "no"       [] o = "pager"        -> "more"
                [] o = "passive"         -> "optional" [] o = "redial-delay" -> "20"
                [] o = "save-passwords"  -> "ask"      [] o = "control-timeout" -> "135"
                [] OTHER                 -> ""]

(* What a user may type after "set" and the option; the last one of all    *)
(* is not for the user.                                                    *)
Choices(o) == CASE o = "auto-resume"  -> {"yes"} [] o = "pager"           -> {"", "most"}
                [] o = "passive"      -> {"on"}  [] o = "redial-delay"    -> {"5"}
                [] o = "control-timeout" -> {"60"} [] OTHER               -> {}

(* What is assumed of the files that are there at first.                   *)
Modes  == {NoMode, "on", "off", "optional"}
Text   == STRING \cup Modes \cup {"", "no", "yes", "more", "most", "ask", "tar", "user@host",
                                    "0", "3", "5", "20", "60", "135"}
Optional(file) ==
  \/ file \in {NoFile, Torn}
  \/ /\ DOMAIN file.opts \subseteq Options /\ file.opts \in [DOMAIN file.opts -> Text]
     /\ file.old \in BOOLEAN /\ file = Holding(file.opts, file.old)
FwFile == {NoFile} \cup [is : {"file"}, opts : Modes]
PfAssumption ==
  /\ \A s \in Sites : /\ Optional(s.global) /\ Optional(s.fixed)
                      /\ s.firewall \in [global : FwFile, fixed : FwFile]
  /\ \A h \in Homes : /\ h = [prefs |-> h.prefs, v2 |-> h.v2, firewall |-> h.firewall, counted |-> h.counted]
                      /\ Optional(h.prefs) /\ Optional(h.v2) /\ h.firewall \in FwFile /\ h.counted \in BOOLEAN
  /\ MaxSets \in Nat
-----------------------------------------------------------------------------
(* SetPassive and its like: the firewall's file decides for the user.      *)
Valued(fw, o, v) == IF o = "passive" /\ fw # NoMode THEN fw ELSE v

(* A line without a text is skipped.                                       *)
ProcessPrefsFile(fw, prefs, file) ==
  IF ~Found(file) THEN prefs
  ELSE [o \in Options |-> IF o \in DOMAIN file.opts /\ file.opts[o] # ""
                          THEN Valued(fw, o, file.opts[o]) ELSE prefs[o]]
Outdated(file) == Found(file) /\ file.old

(* The last of the firewall files that sets the mode.                      *)
ProcessFirewallPrefFile(mode, file) == IF Found(file) /\ file.opts # NoMode THEN file.opts ELSE mode
LoadFirewallPrefs ==
  ProcessFirewallPrefFile(ProcessFirewallPrefFile(
    ProcessFirewallPrefFile(NoMode, site.firewall.global), home.firewall), site.firewall.fixed)

(* Written for a user who has none on a system that has none.              *)
WriteDefaultFirewallPrefs ==
  IF Found(home.firewall) \/ Found(site.firewall.global) \/ Found(site.firewall.fixed)
  THEN home.firewall ELSE [is |-> "file", opts |-> NoMode]

InitPrefs(fw) == IF fw = NoMode THEN Default ELSE [Default EXCEPT !["passive"] = fw]

(* The user's file, or the one of version 2.                               *)
UserPrefs == IF Found(home.prefs) \/ home.prefs = Torn THEN home.prefs ELSE home.v2
LoadPrefs(fw) ==
  ProcessPrefsFile(fw, ProcessPrefsFile(fw, ProcessPrefsFile(fw, InitPrefs(fw), site.global),
                                        UserPrefs), site.fixed)
PostInitPrefs(prefs) ==
  IF prefs["anon-password"] = "" THEN [prefs EXCEPT !["anon-password"] = "user@host"] ELSE prefs

(* The connection's copies; too short a delay leaves the library's own.    *)
InitConnectionInfo(prefs) ==
  [mode |-> prefs["passive"], ctrl |-> prefs["control-timeout"],
   delay |-> IF prefs["redial-delay"] = "5" THEN "20" ELSE prefs["redial-delay"]]

NoConn == [mode |-> NoMode, ctrl |-> "0", delay |-> "0"]
Out    == [pc |-> "out", prefs |-> Default, fw |-> NoMode, dirty |-> FALSE, conn |-> NoConn]

PfInit ==
  /\ site \in Sites /\ home \in Homes
  /\ temp = [p \in Shells |-> NoFile]
  /\ sh = [p \in Shells |-> Out]
  /\ saved = NoSave /\ hurt = FALSE /\ sets = 0
-----------------------------------------------------------------------------
(* The file "init_v3" with the count of runs; the first run makes it.      *)
CheckForNewV3User == [home EXCEPT !.counted = TRUE]

(* PreInit and PostInit of main.c, in their order.                         *)
Start(p) ==
  /\ sh[p].pc = "out"
  /\ LET fw    == LoadFirewallPrefs
         prefs == LoadPrefs(fw)
     IN sh' = [sh EXCEPT ![p] =
                 [pc |-> "closed", prefs |-> PostInitPrefs(prefs), fw |-> fw,
                  dirty |-> \/ ~home.counted \/ home.prefs = NoFile
                            \/ prefs["anon-password"] = ""
                            \/ \E f \in {site.global, UserPrefs, site.fixed} : Outdated(f),
                  conn |-> [InitConnectionInfo(prefs) EXCEPT !.mode = IF fw # NoMode THEN fw ELSE @]]]
  /\ home' = [CheckForNewV3User EXCEPT !.firewall = WriteDefaultFirewallPrefs]
  /\ UNCHANGED <<site, temp, saved, hurt, sets>>

(* The settings that are copied go into the connection at once.            *)
SetConnBehind(s, o, v) ==   \* a defect: the firewall's mode can be set aside
  CASE o = "passive"         -> [s.conn EXCEPT !.mode = v]
    [] o = "control-timeout" -> [s.conn EXCEPT !.ctrl = v]
    [] OTHER                 -> s.conn
SetConn(s, o, v) ==
  CASE o = "passive" /\ s.fw = NoMode -> [s.conn EXCEPT !.mode = v]
    [] o = "control-timeout"          -> [s.conn EXCEPT !.ctrl = v]
    [] OTHER                          -> s.conn
Set(p, o, v) ==
  /\ sh[p].pc \in {"closed", "open"} /\ sets < MaxSets
  /\ sh' = [sh EXCEPT ![p].prefs[o] = Valued(sh[p].fw, o, v), ![p].dirty = TRUE,
                      ![p].conn = SetConn(sh[p], o, v)]
  /\ sets' = sets + 1 /\ UNCHANGED <<site, home, temp, saved, hurt>>

OneTimeMessage(p) ==
  /\ sh[p].pc = "open" /\ sh[p].prefs["one-time-messages-seen"] = "" /\ sets < MaxSets
  /\ sh' = [sh EXCEPT ![p].prefs["one-time-messages-seen"] = "tar", ![p].dirty = TRUE]
  /\ sets' = sets + 1 /\ UNCHANGED <<site, home, temp, saved, hurt>>

(* OpenCmd sets the connection up from the settings.                       *)
OpenHost(p) ==
  /\ sh[p].pc = "closed"
  /\ sh' = [sh EXCEPT ![p].pc = "open", ![p].conn = InitConnectionInfo(sh[p].prefs)]
  /\ UNCHANGED <<site, home, temp, saved, hurt, sets>>

(* CloseHost waits no more than three seconds for the server's good-bye.   *)
CloseHost(p) ==
  /\ sh[p].pc = "open"
  /\ sh' = [sh EXCEPT ![p].pc = "closed", ![p].conn.ctrl = "3"]
  /\ UNCHANGED <<site, home, temp, saved, hurt, sets>>
-----------------------------------------------------------------------------
(* PostShell and SavePrefs.                                                *)
Quit(p) ==
  /\ sh[p].pc = "closed"
  /\ sh' = [sh EXCEPT ![p] = IF @.dirty THEN [@ EXCEPT !.pc = "temp", !.conn = NoConn] ELSE Out]
  /\ UNCHANGED <<site, home, temp, saved, hurt, sets>>

OpenTemp(p) ==
  /\ sh[p].pc = "temp"
  /\ \/ temp' = [temp EXCEPT ![p] = Torn] /\ sh' = [sh EXCEPT ![p].pc = "write"]
     \/ temp' = temp /\ sh' = [sh EXCEPT ![p] = Out]
  /\ UNCHANGED <<site, home, saved, hurt, sets>>

Printed(s, o) == IF o = "passive" /\ s.fw # NoMode THEN s.fw ELSE s.prefs[o]

(* A full disk is not noticed.                                             *)
WriteTemp(p) ==
  /\ sh[p].pc = "write"
  /\ \/ temp' = [temp EXCEPT ![p] = Holding([o \in Options |-> Printed(sh[p], o)], FALSE)]
     \/ UNCHANGED temp
  /\ sh' = [sh EXCEPT ![p].pc = "unlink"]
  /\ UNCHANGED <<site, home, saved, hurt, sets>>

UnlinkPrefs(p) ==
  /\ sh[p].pc = "unlink"
  /\ home' = [home EXCEPT !.prefs = NoFile]
  /\ sh' = [sh EXCEPT ![p].pc = "rename"]
  /\ UNCHANGED <<site, temp, saved, hurt, sets>>

RenameTemp(p) ==
  /\ sh[p].pc = "rename"
  /\ \/ /\ home' = [home EXCEPT !.prefs = temp[p]]
        /\ saved' = IF temp[p] = Torn THEN NoSave ELSE [is |-> "saved", prefs |-> sh[p].prefs]
        /\ hurt' = (temp[p] = Torn)
     \/ home' = home /\ hurt' = TRUE /\ UNCHANGED saved
  /\ temp' = [temp EXCEPT ![p] = NoFile]
  /\ sh' = [sh EXCEPT ![p] = Out]
  /\ UNCHANGED <<site, sets>>

(* A signal or a crash; the temporary file is left behind, under a name    *)
(* that no later process uses.                                             *)
Die(p) ==
  /\ sh[p].pc # "out"
  /\ sh' = [sh EXCEPT ![p] = Out]
  /\ temp' = [temp EXCEPT ![p] = NoFile]
  /\ hurt' = (hurt \/ sh[p].pc = "rename")
  /\ UNCHANGED <<site, home, saved, sets>>

PfNext ==
  \E p \in Shells :
    \/ Start(p) \/ OneTimeMessage(p) \/ OpenHost(p) \/ CloseHost(p) \/ Quit(p)
    \/ OpenTemp(p) \/ WriteTemp(p) \/ UnlinkPrefs(p) \/ RenameTemp(p) \/ Die(p)
    \/ \E o \in Options : \E v \in Choices(o) : Set(p, o, v)

PfSpec == PfInit /\ [][PfNext]_pfvars
-----------------------------------------------------------------------------
(* The types of the variables.                                             *)
PfTypeOK ==
  /\ site \in Sites /\ sets \in 0..MaxSets /\ hurt \in BOOLEAN
  /\ \A p \in Shells :
       /\ sh[p].pc \in {"out", "closed", "open", "temp", "write", "unlink", "rename"}
       /\ DOMAIN sh[p].prefs = Options
       /\ sh[p].fw \in {NoMode, "on", "off", "optional"}

(* While a host is open its connection runs with the settings in force:    *)
(* the firewall's mode before the user's, the user's waiting times and not *)
(* the three seconds left by the last good-bye, and never a delay between  *)
(* two dials below ten seconds.                                            *)
InForce ==
  \A p \in Shells : sh[p].pc = "open" =>
    /\ sh[p].conn.mode = IF sh[p].fw # NoMode THEN sh[p].fw ELSE sh[p].prefs["passive"]
    /\ sh[p].conn.ctrl = sh[p].prefs["control-timeout"]
    /\ sh[p].conn.delay # "5"

(* Once saved, the preferences are there, whole, whatever sessions overlap *)
(* or fail to save, but between the two calls that replace the file, when  *)
(* all of the new ones are in a temporary file; a full disk is what it     *)
(* takes to have a file that is not whole, a death or a failed rename what *)
(* it takes to have none.                                                  *)
PrefsThere ==
  /\ (saved # NoSave /\ ~hurt) =>
       (Found(home.prefs) \/ \E p \in Shells : sh[p].pc = "rename" /\ temp[p] # NoFile)
  /\ home.prefs = Torn => (hurt \/ saved = NoSave)

(* What one session set and saved is what the next one starts with, but    *)
(* for the options the system fixes, the mode that a firewall file sets    *)
(* and texts that were cleared.                                            *)
Says(file, o) == Found(file) /\ o \in DOMAIN file.opts /\ file.opts[o] # ""
Loads(p) ==
  /\ sh[p].pc = "out" /\ sh'[p].pc = "closed" /\ saved # NoSave /\ Found(home.prefs)
  => \A o \in Options :
       sh'[p].prefs[o] =
         IF o = "passive" /\ sh'[p].fw # NoMode THEN sh'[p].fw
         ELSE IF Says(site.fixed, o) THEN site.fixed.opts[o]
         ELSE IF saved.prefs[o] # "" THEN saved.prefs[o]
         ELSE IF Says(site.global, o) THEN site.global.opts[o]
         ELSE Default[o]
Remembered == \A p \in Shells : Loads(p)
-----------------------------------------------------------------------------
(* What every step keeps, and what these follow from: a firewall's mode is *)
(* the setting, too; a password for "anonymous" has been found; what a     *)
(* process has written is its settings or torn; and what was saved is what *)
(* the file holds.                                                         *)
Settings == [Options -> Text]
ConnType == [mode : Text, ctrl : Text, delay : Text]
ShType == [pc : {"out", "closed", "open", "temp", "write", "unlink", "rename"}, prefs : Settings, fw : Modes,
           dirty : BOOLEAN, conn : ConnType]
HomeTyped ==
  /\ home = [prefs |-> home.prefs, v2 |-> home.v2, firewall |-> home.firewall, counted |-> home.counted]
  /\ Optional(home.prefs) /\ Optional(home.v2) /\ home.firewall \in FwFile /\ home.counted \in BOOLEAN
PfTypes ==
  /\ site \in Sites /\ sets \in 0..MaxSets /\ hurt \in BOOLEAN
  /\ sh \in [Shells -> ShType] /\ temp = [p \in Shells |-> temp[p]] /\ HomeTyped
  /\ saved # NoSave => /\ saved.prefs \in Settings /\ saved.prefs["anon-password"] # ""
                       /\ saved = [is |-> "saved", prefs |-> saved.prefs]

HasMode == \A p \in Shells : sh[p].pc # "out" /\ sh[p].fw # NoMode => sh[p].prefs["passive"] = sh[p].fw
Named   == \A p \in Shells : sh[p].pc # "out" => sh[p].prefs["anon-password"] # ""
Temps   == \A p \in Shells : sh[p].pc \in {"write", "unlink", "rename"} =>
             temp[p] \in {Torn, Holding(sh[p].prefs, FALSE)}
SavedThere == saved # NoSave /\ Found(home.prefs) => home.prefs = Holding(saved.prefs, FALSE)

PfInv == PfTypes /\ HasMode /\ Named /\ Temps /\ SavedThere /\ InForce /\ PrefsThere
=============================================================================
