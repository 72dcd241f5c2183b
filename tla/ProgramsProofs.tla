---------------------------- MODULE ProgramsProofs ----------------------------
(***************************************************************************)
(* What TLAPS proves of the programs around libncftp, for every value of   *)
(* their constants.  Of the files that ncftp keeps between its sessions:   *)
(* the settings, as Preferences has them; the log, as TransferLog has it;  *)
(* and the bookmarks, as Bookmarks has the file and BookmarkLine a line of *)
(* it; for any number of sessions, any files they find, any size of a log  *)
(* that ten lines fit in and any text of a bookmark.  And, from the        *)
(* invariants of ToolsProofs, that ncftpget, ncftpput and ncftpls do what  *)
(* their command lines say, that ncftpspooler carries its jobs, and that a *)
(* tree is copied whole.                                                   *)
(***************************************************************************)
EXTENDS ProgramsMC, ToolsProofs

-----------------------------------------------------------------------------
(***************************************************************************)
(* The settings.                                                           *)
(***************************************************************************)
LEMMA FilesDiffer ==
    ASSUME NEW opts, NEW old
    PROVE  /\ Pf!Found(Pf!Holding(opts, old)) /\ ~Pf!Found(Pf!NoFile) /\ ~Pf!Found(Pf!Torn)
           /\ Pf!Torn # Pf!Holding(opts, old) /\ Pf!NoFile # Pf!Holding(opts, old) /\ Pf!NoFile # Pf!Torn
           /\ Pf!Holding(opts, old).opts = opts /\ Pf!Holding(opts, old).old = old
<1>1. Pf!Holding(opts, old).is = "file" /\ Pf!NoFile.is = "none" /\ Pf!Torn.is = "torn"
  BY DEF Pf!Holding, Pf!NoFile, Pf!Torn
<1>2. QED
  BY <1>1 DEF Pf!Found, Pf!Holding

LEMMA ModeTyped == \A m \in Pf!Modes : m \in Pf!Text
  BY DEF Pf!Text

LEMMA DefaultTyped == Pf!Default \in Pf!Settings
<1>1. SUFFICES ASSUME NEW o \in Pf!Options PROVE Pf!Default[o] \in Pf!Text
  BY DEF Pf!Default, Pf!Settings
<1>2. Pf!Default[o] \in {"no", "more", "optional", "20", "ask", "135", ""}
  BY DEF Pf!Default, Pf!Options
<1>3. QED
  BY <1>2 DEF Pf!Text, Pf!Modes

(* A file read over some settings leaves each as it was or as it says; and *)
(* the firewall's mode is not changed.                                     *)
LEMMA ProcessRight ==
    ASSUME NEW fw \in Pf!Modes, NEW prefs \in Pf!Settings, NEW file, Pf!Optional(file)
    PROVE  /\ Pf!ProcessPrefsFile(fw, prefs, file) \in Pf!Settings
           /\ \A o \in Pf!Options : Pf!ProcessPrefsFile(fw, prefs, file)[o] =
                IF Pf!Says(file, o) THEN Pf!Valued(fw, o, file.opts[o]) ELSE prefs[o]
<1>1. CASE ~Pf!Found(file)
  BY <1>1 DEF Pf!ProcessPrefsFile, Pf!Says
<1>2. CASE Pf!Found(file)
  <2>1. /\ DOMAIN file.opts \subseteq Pf!Options
        /\ file.opts \in [DOMAIN file.opts -> Pf!Text]
    BY <1>2, FilesDiffer DEF Pf!Optional
  <2>2. \A o \in DOMAIN file.opts : Pf!Valued(fw, o, file.opts[o]) \in Pf!Text
    BY <2>1, ModeTyped DEF Pf!Valued
  <2>3. \A o \in Pf!Options : prefs[o] \in Pf!Text
    BY DEF Pf!Settings
  <2>4. Pf!ProcessPrefsFile(fw, prefs, file) =
          [o \in Pf!Options |-> IF o \in DOMAIN file.opts /\ file.opts[o] # ""
                          THEN Pf!Valued(fw, o, file.opts[o]) ELSE prefs[o]]
    BY <1>2 DEF Pf!ProcessPrefsFile
  <2>5. QED
    BY <1>2, <2>2, <2>3, <2>4 DEF Pf!Says, Pf!Settings
<1>3. QED
  BY <1>1, <1>2

LEMMA FirewallTyped == ASSUME Pf!PfInv PROVE Pf!LoadFirewallPrefs \in Pf!Modes
<1>1. v1.firewall.global \in Pf!FwFile /\ v1.firewall.fixed \in Pf!FwFile /\ v2.firewall \in Pf!FwFile
  BY PreferencesAssumption DEF Pf!PfInv, Pf!PfTypes, Pf!HomeTyped, Pf!PfAssumption
<1>2. ASSUME NEW m \in Pf!Modes, NEW f \in Pf!FwFile PROVE Pf!ProcessFirewallPrefFile(m, f) \in Pf!Modes
  BY FilesDiffer DEF Pf!ProcessFirewallPrefFile, Pf!FwFile, Pf!Found, Pf!NoFile
<1>3. Pf!NoMode \in Pf!Modes
  BY DEF Pf!Modes
<1>4. QED
  BY <1>1, <1>2, <1>3 DEF Pf!LoadFirewallPrefs

(* What the settings are when all files have been read.                    *)
LEMMA LoadRight ==
    ASSUME Pf!PfInv, NEW fw \in Pf!Modes
    PROVE  /\ Pf!LoadPrefs(fw) \in Pf!Settings
           /\ fw # Pf!NoMode => Pf!LoadPrefs(fw)["passive"] = fw
           /\ \A o \in Pf!Options : o # "passive" \/ fw = Pf!NoMode =>
                Pf!LoadPrefs(fw)[o] =
                  IF Pf!Says(v1.fixed, o) THEN v1.fixed.opts[o]
                  ELSE IF Pf!Says(Pf!UserPrefs, o) THEN Pf!UserPrefs.opts[o]
                  ELSE IF Pf!Says(v1.global, o) THEN v1.global.opts[o] ELSE Pf!Default[o]
<1>1. Pf!Optional(v1.global) /\ Pf!Optional(v1.fixed) /\ Pf!Optional(Pf!UserPrefs)
  BY PreferencesAssumption DEF Pf!PfInv, Pf!PfTypes, Pf!HomeTyped, Pf!PfAssumption, Pf!UserPrefs
<1>2. /\ Pf!InitPrefs(fw) \in Pf!Settings
      /\ fw # Pf!NoMode => Pf!InitPrefs(fw)["passive"] = fw
      /\ \A o \in Pf!Options : o # "passive" \/ fw = Pf!NoMode => Pf!InitPrefs(fw)[o] = Pf!Default[o]
  <2>1. "passive" \in Pf!Options /\ fw \in Pf!Text
    BY ModeTyped DEF Pf!Options
  <2>2. QED
    BY <2>1, DefaultTyped DEF Pf!InitPrefs, Pf!Settings
<1>3. PICK a \in Pf!Settings : a = Pf!ProcessPrefsFile(fw, Pf!InitPrefs(fw), v1.global)
  BY <1>1, <1>2, ProcessRight
<1>4. PICK b \in Pf!Settings : b = Pf!ProcessPrefsFile(fw, a, Pf!UserPrefs)
  BY <1>1, <1>3, ProcessRight
<1>5. PICK c \in Pf!Settings : c = Pf!ProcessPrefsFile(fw, b, v1.fixed)
  BY <1>1, <1>4, ProcessRight
<1>6. c = Pf!LoadPrefs(fw)
  BY <1>3, <1>4, <1>5 DEF Pf!LoadPrefs
<1>7. \A o \in Pf!Options : a[o] = IF Pf!Says(v1.global, o) THEN Pf!Valued(fw, o, v1.global.opts[o])
                                   ELSE Pf!InitPrefs(fw)[o]
  BY <1>1, <1>2, <1>3, ProcessRight
<1>8. \A o \in Pf!Options : b[o] = IF Pf!Says(Pf!UserPrefs, o) THEN Pf!Valued(fw, o, Pf!UserPrefs.opts[o])
                                   ELSE a[o]
  BY <1>1, <1>4, ProcessRight
<1>9. \A o \in Pf!Options : c[o] = IF Pf!Says(v1.fixed, o) THEN Pf!Valued(fw, o, v1.fixed.opts[o]) ELSE b[o]
  BY <1>1, <1>5, ProcessRight
<1>10. "passive" \in Pf!Options
  BY DEF Pf!Options
<1>11. \A v : fw # Pf!NoMode => Pf!Valued(fw, "passive", v) = fw
  BY DEF Pf!Valued
<1>12. \A v, o : o # "passive" \/ fw = Pf!NoMode => Pf!Valued(fw, o, v) = v
  BY DEF Pf!Valued
<1>13. fw # Pf!NoMode => c["passive"] = fw
  BY <1>2, <1>7, <1>8, <1>9, <1>10, <1>11
<1>14. \A o \in Pf!Options : o # "passive" \/ fw = Pf!NoMode =>
         c[o] = IF Pf!Says(v1.fixed, o) THEN v1.fixed.opts[o]
                  ELSE IF Pf!Says(Pf!UserPrefs, o) THEN Pf!UserPrefs.opts[o]
                  ELSE IF Pf!Says(v1.global, o) THEN v1.global.opts[o] ELSE Pf!Default[o]
  BY <1>2, <1>7, <1>8, <1>9, <1>12
<1>15. QED
  BY <1>6, <1>13, <1>14

LEMMA PostInitRight ==
    ASSUME NEW prefs \in Pf!Settings
    PROVE  /\ Pf!PostInitPrefs(prefs) \in Pf!Settings
           /\ Pf!PostInitPrefs(prefs)["anon-password"] # ""
           /\ \A o \in Pf!Options : o # "anon-password" \/ prefs[o] # "" => Pf!PostInitPrefs(prefs)[o] = prefs[o]
<1>1. "anon-password" \in Pf!Options
  BY DEF Pf!Options
<1>2. CASE prefs["anon-password"] = ""
  <2>1. Pf!PostInitPrefs(prefs) = [prefs EXCEPT !["anon-password"] = "user@host"]
    BY <1>2 DEF Pf!PostInitPrefs
  <2>2. "user@host" \in Pf!Text /\ "user@host" # ""
    BY DEF Pf!Text
  <2>3. QED
    BY <1>1, <1>2, <2>1, <2>2 DEF Pf!Settings
<1>3. CASE prefs["anon-password"] # ""
  BY <1>3 DEF Pf!PostInitPrefs
<1>4. QED
  BY <1>2, <1>3

LEMMA ConnectionTyped ==
    ASSUME NEW prefs \in Pf!Settings
    PROVE  /\ Pf!InitConnectionInfo(prefs) \in Pf!ConnType
           /\ Pf!InitConnectionInfo(prefs).mode = prefs["passive"]
           /\ Pf!InitConnectionInfo(prefs).ctrl = prefs["control-timeout"]
           /\ Pf!InitConnectionInfo(prefs).delay # "5"
<1>1. prefs["passive"] \in Pf!Text /\ prefs["control-timeout"] \in Pf!Text /\ prefs["redial-delay"] \in Pf!Text
  BY DEF Pf!Settings, Pf!Options
<1>2. "20" \in Pf!Text /\ "20" # "5"
  BY DEF Pf!Text
<1>3. CASE prefs["redial-delay"] = "5"
  <2>1. Pf!InitConnectionInfo(prefs) = [mode |-> prefs["passive"], ctrl |-> prefs["control-timeout"], delay |-> "20"]
    BY <1>3 DEF Pf!InitConnectionInfo
  <2>2. QED
    BY <1>1, <1>2, <2>1 DEF Pf!ConnType
<1>4. CASE prefs["redial-delay"] # "5"
  <2>1. Pf!InitConnectionInfo(prefs) =
          [mode |-> prefs["passive"], ctrl |-> prefs["control-timeout"], delay |-> prefs["redial-delay"]]
    BY <1>4 DEF Pf!InitConnectionInfo
  <2>2. QED
    BY <1>1, <1>4, <2>1 DEF Pf!ConnType
<1>5. QED
  BY <1>3, <1>4

LEMMA OutTyped == Pf!Out \in Pf!ShType
<1>1. Pf!NoConn \in Pf!ConnType
  BY DEF Pf!NoConn, Pf!ConnType, Pf!Text, Pf!Modes, Pf!NoMode
<1>2. Pf!NoMode \in Pf!Modes
  BY DEF Pf!Modes
<1>3. QED
  BY <1>1, <1>2, DefaultTyped DEF Pf!Out, Pf!ShType

LEMMA SettingsStart == ASSUME Pf!PfInit PROVE Pf!PfInv
<1>1. Pf!Out \in Pf!ShType /\ Pf!Out.pc = "out"
  BY OutTyped DEF Pf!Out
<1>2. \A p \in Ncftps : v4[p] = Pf!Out
  BY DEF Pf!PfInit
<1>3. Pf!PfTypes
  <2>1. v4 \in [Ncftps -> Pf!ShType]
    BY <1>1 DEF Pf!PfInit
  <2>2. v7 \in 0..MaxSets
    BY PreferencesAssumption DEF Pf!PfInit, Pf!PfAssumption
  <2>3. v1 \in SystemFiles /\ v2 \in UserFiles
    BY DEF Pf!PfInit
  <2>4. /\ v2 = [prefs |-> v2.prefs, v2 |-> v2.v2, firewall |-> v2.firewall, counted |-> v2.counted]
        /\ Pf!Optional(v2.prefs) /\ Pf!Optional(v2.v2) /\ v2.firewall \in Pf!FwFile /\ v2.counted \in BOOLEAN
    BY <2>3, PreferencesAssumption DEF Pf!PfAssumption
  <2>5. QED
    BY <2>1, <2>2, <2>3, <2>4 DEF Pf!PfInit, Pf!PfTypes, Pf!HomeTyped
<1>4. QED
  BY <1>1, <1>2, <1>3 DEF Pf!PfInit, Pf!PfInv, Pf!HasMode, Pf!Named, Pf!Temps, Pf!SavedThere, Pf!InForce, Pf!PrefsThere

LEMMA SettingsStutter == ASSUME Pf!PfInv, UNCHANGED Pf!pfvars PROVE Pf!PfInv'
<1> USE DEF Pf!pfvars
<1>1. Pf!PfTypes'
  BY DEF Pf!PfInv, Pf!PfTypes, Pf!HomeTyped
<1>2. Pf!HasMode' /\ Pf!Named' /\ Pf!Temps' /\ Pf!InForce'
  BY DEF Pf!PfInv, Pf!HasMode, Pf!Named, Pf!Temps, Pf!InForce
<1>3. Pf!SavedThere' /\ Pf!PrefsThere'
  BY DEF Pf!PfInv, Pf!SavedThere, Pf!PrefsThere
<1>4. QED
  BY <1>1, <1>2, <1>3 DEF Pf!PfInv

(* A step that changes only one process, and neither its temporary file    *)
(* nor the preferences.                                                    *)
LEMMA OneProcess ==
    ASSUME Pf!PfInv, NEW p \in Ncftps, NEW s \in Pf!ShType, v4' = [v4 EXCEPT ![p] = s],
           v7' \in 0..MaxSets, UNCHANGED <<v1, v3, v5, v6>>, Pf!HomeTyped', v2'.prefs = v2.prefs,
           s.pc # "out" /\ s.fw # Pf!NoMode => s.prefs["passive"] = s.fw,
           s.pc # "out" => s.prefs["anon-password"] # "",
           s.pc \in {"write", "unlink", "rename"} => v3[p] \in {Pf!Torn, Pf!Holding(s.prefs, FALSE)},
           s.pc = "open" => /\ s.conn.mode = IF s.fw # Pf!NoMode THEN s.fw ELSE s.prefs["passive"]
                            /\ s.conn.ctrl = s.prefs["control-timeout"] /\ s.conn.delay # "5",
           v4[p].pc # "rename"
    PROVE  Pf!PfInv'
<1>1. v4 \in [Ncftps -> Pf!ShType]
  BY DEF Pf!PfInv, Pf!PfTypes
<1>2. v4' \in [Ncftps -> Pf!ShType]
  BY <1>1
<1>3. \A q \in Ncftps : v4'[q] = IF q = p THEN s ELSE v4[q]
  BY <1>1
<1>4. Pf!PfTypes'
  BY <1>2 DEF Pf!PfInv, Pf!PfTypes
<1>5. Pf!HasMode' /\ Pf!Named'
  BY <1>3, ZenonT(40) DEF Pf!PfInv, Pf!HasMode, Pf!Named
<1>6. Pf!Temps'
  BY <1>3 DEF Pf!PfInv, Pf!Temps
<1>7. Pf!InForce'
  <2>1. SUFFICES ASSUME NEW q \in Ncftps, v4'[q].pc = "open"
                 PROVE  /\ v4'[q].conn.mode = IF v4'[q].fw # Pf!NoMode THEN v4'[q].fw ELSE v4'[q].prefs["passive"]
                        /\ v4'[q].conn.ctrl = v4'[q].prefs["control-timeout"] /\ v4'[q].conn.delay # "5"
    BY DEF Pf!InForce
  <2>2. CASE q = p
    BY <1>3, <2>1, <2>2
  <2>3. CASE q # p
    <3>1. v4'[q] = v4[q]
      BY <1>3, <2>3
    <3>2. QED
      BY <2>1, <3>1 DEF Pf!PfInv, Pf!InForce
  <2>4. QED
    BY <2>2, <2>3
<1>8. Pf!SavedThere'
  BY DEF Pf!PfInv, Pf!SavedThere
<1>9. Pf!PrefsThere'
  BY <1>3 DEF Pf!PfInv, Pf!PrefsThere
<1>10. QED
  BY <1>4, <1>5, <1>6, <1>7, <1>8, <1>9 DEF Pf!PfInv

LEMMA StartStep == ASSUME Pf!PfInv, NEW p \in Ncftps, Pf!Start(p) PROVE Pf!PfInv'
<1>1. PICK fw \in Pf!Modes : fw = Pf!LoadFirewallPrefs
  BY FirewallTyped
<1>2. PICK prefs \in Pf!Settings : prefs = Pf!LoadPrefs(fw)
  BY <1>1, LoadRight
<1>3. PICK post \in Pf!Settings : post = Pf!PostInitPrefs(prefs)
  BY <1>2, PostInitRight
<1>4. PICK conn \in Pf!ConnType : conn = [Pf!InitConnectionInfo(prefs) EXCEPT !.mode = IF fw # Pf!NoMode THEN fw ELSE @]
  BY <1>1, <1>2, ConnectionTyped, ModeTyped DEF Pf!ConnType
<1>5. PICK d \in BOOLEAN : v4' = [v4 EXCEPT ![p] = [pc |-> "closed", prefs |-> post, fw |-> fw, dirty |-> d, conn |-> conn]]
  BY <1>1, <1>2, <1>3, <1>4 DEF Pf!Start
<1>6. [pc |-> "closed", prefs |-> post, fw |-> fw, dirty |-> d, conn |-> conn] \in Pf!ShType
  BY DEF Pf!ShType
<1>7. Pf!HomeTyped' /\ v2'.prefs = v2.prefs
  <2>1. Pf!WriteDefaultFirewallPrefs \in Pf!FwFile
    BY DEF Pf!WriteDefaultFirewallPrefs, Pf!FwFile, Pf!Modes, Pf!PfInv, Pf!PfTypes, Pf!HomeTyped
  <2>2. v2' = [[v2 EXCEPT !.counted = TRUE] EXCEPT !.firewall = Pf!WriteDefaultFirewallPrefs]
    BY DEF Pf!Start, Pf!CheckForNewV3User
  <2>3. v2 = [prefs |-> v2.prefs, v2 |-> v2.v2, firewall |-> v2.firewall, counted |-> v2.counted]
    BY DEF Pf!PfInv, Pf!PfTypes, Pf!HomeTyped
  <2>4. v2' = [prefs |-> v2.prefs, v2 |-> v2.v2, firewall |-> Pf!WriteDefaultFirewallPrefs, counted |-> TRUE]
    BY <2>2, <2>3
  <2>5. Pf!Optional(v2.prefs) /\ Pf!Optional(v2.v2)
    BY DEF Pf!PfInv, Pf!PfTypes, Pf!HomeTyped
  <2>6. v2'.prefs = v2.prefs /\ v2'.v2 = v2.v2 /\ v2'.firewall = Pf!WriteDefaultFirewallPrefs /\ v2'.counted = TRUE
    BY <2>4
  <2>7. Pf!Optional(v2'.prefs) /\ Pf!Optional(v2'.v2)
    BY <2>5, <2>6
  <2>8. QED
    BY <2>1, <2>4, <2>6, <2>7 DEF Pf!HomeTyped, Pf!Optional
<1>8. fw # Pf!NoMode => post["passive"] = fw
  <2>1. fw # Pf!NoMode => prefs["passive"] = fw
    BY <1>2, LoadRight
  <2>2. "passive" \in Pf!Options
    BY DEF Pf!Options
  <2>3. QED
    BY <1>3, <2>1, <2>2, PostInitRight
<1>9. post["anon-password"] # ""
  BY <1>3, PostInitRight
<1>10. v4[p].pc = "out" /\ UNCHANGED <<v1, v3, v5, v6, v7>>
  BY DEF Pf!Start
<1>11. v7' \in 0..MaxSets
  BY <1>10 DEF Pf!PfInv, Pf!PfTypes
<1>12. QED
  BY <1>5, <1>6, <1>7, <1>8, <1>9, <1>10, <1>11, OneProcess

(* Setting something in a process that runs.                               *)
LEMMA SetStep ==
    ASSUME Pf!PfInv, NEW p \in Ncftps, NEW o \in Pf!Options, NEW v \in Pf!Choices(o), Pf!Set(p, o, v)
    PROVE  Pf!PfInv'
<1>1. v4[p] \in Pf!ShType /\ v4 \in [Ncftps -> Pf!ShType]
  BY DEF Pf!PfInv, Pf!PfTypes
<1>2. v \in Pf!Text /\ o # "anon-password"
  <2>1. o = "auto-resume" => v \in {"yes"}
    BY DEF Pf!Choices
  <2>2. o = "pager" => v \in {"", "most"}
    BY DEF Pf!Choices
  <2>3. o = "passive" => v \in {"on"}
    BY DEF Pf!Choices
  <2>4. o = "redial-delay" => v \in {"5"}
    BY DEF Pf!Choices
  <2>5. o = "control-timeout" => v \in {"60"}
    BY DEF Pf!Choices
  <2>6. o \in {"auto-resume", "pager", "passive", "redial-delay", "control-timeout"}
    BY DEF Pf!Choices
  <2>7. v \in {"yes", "", "most", "on", "5", "60"}
    BY <2>1, <2>2, <2>3, <2>4, <2>5, <2>6
  <2>8. QED
    BY <2>6, <2>7 DEF Pf!Text, Pf!Modes
<1>3. PICK w \in Pf!Text : w = Pf!Valued(v4[p].fw, o, v)
  BY <1>1, <1>2, ModeTyped DEF Pf!Valued, Pf!ShType
<1>4. PICK prefs \in Pf!Settings : prefs = [v4[p].prefs EXCEPT ![o] = w]
  BY <1>1 DEF Pf!ShType, Pf!Settings
<1>5. PICK conn \in Pf!ConnType : conn = Pf!SetConn(v4[p], o, v)
  BY <1>1, <1>2 DEF Pf!SetConn, Pf!ShType, Pf!ConnType
<1>6. PICK s : s = [v4[p] EXCEPT !.prefs = prefs, !.dirty = TRUE, !.conn = conn]
  OBVIOUS
<1>7. s = [pc |-> v4[p].pc, prefs |-> prefs, fw |-> v4[p].fw, dirty |-> TRUE, conn |-> conn]
  BY <1>1, <1>6 DEF Pf!ShType
<1>8. s \in Pf!ShType
  BY <1>1, <1>7 DEF Pf!ShType
<1>9. v4' = [v4 EXCEPT ![p] = s]
  BY <1>1, <1>3, <1>4, <1>5, <1>6 DEF Pf!Set, Pf!ShType
<1>10. v7' \in 0..MaxSets /\ UNCHANGED <<v1, v2, v3, v5, v6>> /\ v4[p].pc \in {"closed", "open"}
  <2>1. v7' = v7 + 1 /\ v7 < MaxSets /\ v7 \in 0..MaxSets /\ MaxSets \in Nat
    BY PreferencesAssumption DEF Pf!Set, Pf!PfInv, Pf!PfTypes, Pf!PfAssumption
  <2>2. v7' \in 0..MaxSets
    BY <2>1
  <2>3. QED
    BY <2>2 DEF Pf!Set
<1>11. Pf!HomeTyped'
  BY <1>10 DEF Pf!HomeTyped, Pf!PfInv, Pf!PfTypes
<1>12. \A q \in Pf!Options : prefs[q] = IF q = o THEN w ELSE v4[p].prefs[q]
  BY <1>1, <1>4 DEF Pf!ShType, Pf!Settings
<1>13. s.fw # Pf!NoMode => s.prefs["passive"] = s.fw
  <2>1. "passive" \in Pf!Options
    BY DEF Pf!Options
  <2>2. v4[p].fw # Pf!NoMode => v4[p].prefs["passive"] = v4[p].fw
    BY <1>10 DEF Pf!PfInv, Pf!HasMode
  <2>3. v4[p].fw # Pf!NoMode /\ o = "passive" => w = v4[p].fw
    BY <1>3 DEF Pf!Valued
  <2>4. QED
    BY <1>7, <1>12, <2>1, <2>2, <2>3
<1>14. s.prefs["anon-password"] # ""
  <2>1. "anon-password" \in Pf!Options
    BY DEF Pf!Options
  <2>2. v4[p].prefs["anon-password"] # ""
    BY <1>10 DEF Pf!PfInv, Pf!Named
  <2>3. QED
    BY <1>2, <1>7, <1>12, <2>1, <2>2
<1>15. s.pc = "open" => /\ s.conn.mode = IF s.fw # Pf!NoMode THEN s.fw ELSE s.prefs["passive"]
                        /\ s.conn.ctrl = s.prefs["control-timeout"] /\ s.conn.delay # "5"
  <2>1. SUFFICES ASSUME v4[p].pc = "open"
                 PROVE  /\ conn.mode = IF v4[p].fw # Pf!NoMode THEN v4[p].fw ELSE prefs["passive"]
                        /\ conn.ctrl = prefs["control-timeout"] /\ conn.delay # "5"
    BY <1>7
  <2>2. /\ v4[p].conn.mode = IF v4[p].fw # Pf!NoMode THEN v4[p].fw ELSE v4[p].prefs["passive"]
        /\ v4[p].conn.ctrl = v4[p].prefs["control-timeout"] /\ v4[p].conn.delay # "5"
    BY <2>1 DEF Pf!PfInv, Pf!InForce
  <2>3. "passive" \in Pf!Options /\ "control-timeout" \in Pf!Options
    BY DEF Pf!Options
  <2>4. v4[p].conn \in Pf!ConnType
    BY <1>1 DEF Pf!ShType
  <2>5. CASE o = "passive" /\ v4[p].fw = Pf!NoMode
    <3>1. conn = [v4[p].conn EXCEPT !.mode = v] /\ w = v
      BY <1>3, <1>5, <2>5 DEF Pf!SetConn, Pf!Valued
    <3>2. QED
      BY <1>12, <2>2, <2>3, <2>4, <2>5, <3>1 DEF Pf!ConnType
  <2>6. CASE o = "passive" /\ v4[p].fw # Pf!NoMode
    <3>1. conn = v4[p].conn
      BY <1>5, <2>6 DEF Pf!SetConn
    <3>2. QED
      BY <1>12, <2>2, <2>3, <2>6, <3>1
  <2>7. CASE o = "control-timeout"
    <3>1. conn = [v4[p].conn EXCEPT !.ctrl = v] /\ w = v
      BY <1>3, <1>5, <2>7 DEF Pf!SetConn, Pf!Valued
    <3>2. QED
      BY <1>12, <2>2, <2>3, <2>4, <2>7, <3>1 DEF Pf!ConnType
  <2>8. CASE o # "passive" /\ o # "control-timeout"
    <3>1. conn = v4[p].conn
      BY <1>5, <2>8 DEF Pf!SetConn
    <3>2. QED
      BY <1>12, <2>2, <2>3, <2>8, <3>1
  <2>9. QED
    BY <2>5, <2>6, <2>7, <2>8
<1>16. s.pc \in {"closed", "open"}
  BY <1>7, <1>10
<1>17. QED
  BY <1>8, <1>9, <1>10, <1>11, <1>13, <1>14, <1>15, <1>16, OneProcess

(* The steps that only move a process on.                                  *)
LEMMA MoveSteps ==
    ASSUME Pf!PfInv, NEW p \in Ncftps,
           Pf!OneTimeMessage(p) \/ Pf!OpenHost(p) \/ Pf!CloseHost(p) \/ Pf!Quit(p)
    PROVE  Pf!PfInv'
<1>1. v4[p] \in Pf!ShType /\ v4 \in [Ncftps -> Pf!ShType]
  BY DEF Pf!PfInv, Pf!PfTypes
<1>2. UNCHANGED <<v1, v2, v3, v5, v6>> /\ Pf!HomeTyped' /\ v7' \in 0..MaxSets
  <2>1. UNCHANGED <<v1, v2, v3, v5, v6>> /\ (v7' = v7 \/ (v7' = v7 + 1 /\ v7 < MaxSets))
    BY DEF Pf!OneTimeMessage, Pf!OpenHost, Pf!CloseHost, Pf!Quit
  <2>2. v7 \in 0..MaxSets /\ MaxSets \in Nat
    BY PreferencesAssumption DEF Pf!PfInv, Pf!PfTypes, Pf!PfAssumption
  <2>3. v7' \in 0..MaxSets
    BY <2>1, <2>2
  <2>4. QED
    BY <2>1, <2>3 DEF Pf!HomeTyped, Pf!PfInv, Pf!PfTypes
<1>3. v4[p].pc \in {"closed", "open"}
  BY DEF Pf!OneTimeMessage, Pf!OpenHost, Pf!CloseHost, Pf!Quit
<1>4. /\ v4[p].fw # Pf!NoMode => v4[p].prefs["passive"] = v4[p].fw
      /\ v4[p].prefs["anon-password"] # ""
  BY <1>3 DEF Pf!PfInv, Pf!HasMode, Pf!Named
<1>5. v4[p].pc = "open" => /\ v4[p].conn.mode = IF v4[p].fw # Pf!NoMode THEN v4[p].fw ELSE v4[p].prefs["passive"]
                           /\ v4[p].conn.ctrl = v4[p].prefs["control-timeout"] /\ v4[p].conn.delay # "5"
  BY DEF Pf!PfInv, Pf!InForce
<1>6. v4[p].prefs \in Pf!Settings /\ v4[p].conn \in Pf!ConnType
  BY <1>1 DEF Pf!ShType
<1>7. CASE Pf!OneTimeMessage(p)
  <2>1. PICK prefs \in Pf!Settings : prefs = [v4[p].prefs EXCEPT !["one-time-messages-seen"] = "tar"]
    BY <1>6 DEF Pf!Settings, Pf!Text
  <2>2. PICK s : s = [v4[p] EXCEPT !.prefs = prefs, !.dirty = TRUE]
    OBVIOUS
  <2>3. s = [pc |-> v4[p].pc, prefs |-> prefs, fw |-> v4[p].fw, dirty |-> TRUE, conn |-> v4[p].conn]
    BY <1>1, <2>2 DEF Pf!ShType
  <2>4. s \in Pf!ShType
    BY <1>1, <2>3 DEF Pf!ShType
  <2>5. v4' = [v4 EXCEPT ![p] = s]
    BY <1>1, <1>7, <2>1, <2>2 DEF Pf!OneTimeMessage, Pf!ShType
  <2>6. \A o \in {"passive", "anon-password", "control-timeout"} : prefs[o] = v4[p].prefs[o]
    BY <1>6, <2>1 DEF Pf!Settings, Pf!Options
  <2>7. s.pc \in {"closed", "open"}
    BY <1>3, <2>3
  <2>8. /\ s.pc = v4[p].pc /\ s.fw = v4[p].fw /\ s.conn = v4[p].conn
        /\ \A o \in {"passive", "anon-password", "control-timeout"} : s.prefs[o] = v4[p].prefs[o]
    BY <2>3, <2>6
  <2>9. s.pc = "open" => /\ s.conn.mode = IF s.fw # Pf!NoMode THEN s.fw ELSE s.prefs["passive"]
                         /\ s.conn.ctrl = s.prefs["control-timeout"] /\ s.conn.delay # "5"
    BY <1>5, <2>8
  <2>10. s.fw # Pf!NoMode => s.prefs["passive"] = s.fw
    BY <1>4, <2>8
  <2>11. s.prefs["anon-password"] # ""
    BY <1>4, <2>8
  <2>12. QED
    BY <1>2, <1>3, <2>4, <2>5, <2>7, <2>9, <2>10, <2>11, OneProcess
<1>8. CASE Pf!OpenHost(p)
  <2>1. PICK conn \in Pf!ConnType : conn = Pf!InitConnectionInfo(v4[p].prefs)
    BY <1>6, ConnectionTyped
  <2>2. PICK s : s = [pc |-> "open", prefs |-> v4[p].prefs, fw |-> v4[p].fw, dirty |-> v4[p].dirty, conn |-> conn]
    OBVIOUS
  <2>3. v4' = [v4 EXCEPT ![p] = s]
    <3>1. v4' = [v4 EXCEPT ![p] = [v4[p] EXCEPT !.pc = "open", !.conn = conn]]
      BY <1>1, <1>8, <2>1 DEF Pf!OpenHost
    <3>2. PICK r : r = [v4[p] EXCEPT !.pc = "open", !.conn = conn]
      OBVIOUS
    <3>3. r = [pc |-> "open", prefs |-> v4[p].prefs, fw |-> v4[p].fw, dirty |-> v4[p].dirty, conn |-> conn]
      BY <1>1, <3>2 DEF Pf!ShType
    <3>4. QED
      BY <2>2, <3>1, <3>2, <3>3
  <2>4. s \in Pf!ShType
    BY <1>1, <2>2 DEF Pf!ShType
  <2>5. /\ conn.mode = v4[p].prefs["passive"] /\ conn.ctrl = v4[p].prefs["control-timeout"] /\ conn.delay # "5"
    BY <1>6, <2>1, ConnectionTyped
  <2>6. QED
    BY <1>2, <1>3, <1>4, <2>2, <2>3, <2>4, <2>5, OneProcess
<1>9. CASE Pf!CloseHost(p)
  <2>1. PICK conn \in Pf!ConnType : conn = [v4[p].conn EXCEPT !.ctrl = "3"]
    BY <1>6 DEF Pf!ConnType, Pf!Text
  <2>2. PICK s : s = [pc |-> "closed", prefs |-> v4[p].prefs, fw |-> v4[p].fw, dirty |-> v4[p].dirty, conn |-> conn]
    OBVIOUS
  <2>3. v4' = [v4 EXCEPT ![p] = s]
    <3>1. v4' = [v4 EXCEPT ![p] = [v4[p] EXCEPT !.pc = "closed", !.conn = conn]]
      BY <1>1, <1>9, <2>1 DEF Pf!CloseHost, Pf!ShType
    <3>2. PICK r : r = [v4[p] EXCEPT !.pc = "closed", !.conn = conn]
      OBVIOUS
    <3>3. r = [pc |-> "closed", prefs |-> v4[p].prefs, fw |-> v4[p].fw, dirty |-> v4[p].dirty, conn |-> conn]
      BY <1>1, <3>2 DEF Pf!ShType
    <3>4. QED
      BY <2>2, <3>1, <3>2, <3>3
  <2>4. s \in Pf!ShType
    BY <1>1, <2>2 DEF Pf!ShType
  <2>5. QED
    BY <1>2, <1>3, <1>4, <2>2, <2>3, <2>4, OneProcess
<1>10. CASE Pf!Quit(p)
  <2>1. PICK s : s = IF v4[p].dirty THEN [v4[p] EXCEPT !.pc = "temp", !.conn = Pf!NoConn] ELSE Pf!Out
    OBVIOUS
  <2>2. v4' = [v4 EXCEPT ![p] = s]
    BY <1>10, <2>1, <1>1 DEF Pf!Quit
  <2>3. CASE v4[p].dirty
    <3>1. s = [pc |-> "temp", prefs |-> v4[p].prefs, fw |-> v4[p].fw, dirty |-> v4[p].dirty, conn |-> Pf!NoConn]
      BY <1>1, <2>1, <2>3 DEF Pf!ShType
    <3>2. Pf!NoConn \in Pf!ConnType
      BY DEF Pf!NoConn, Pf!ConnType, Pf!Text, Pf!Modes, Pf!NoMode
    <3>3. s \in Pf!ShType
      BY <1>1, <3>1, <3>2 DEF Pf!ShType
    <3>4. QED
      BY <1>2, <1>3, <1>4, <2>2, <3>1, <3>3, OneProcess
  <2>4. CASE ~v4[p].dirty
    <3>1. s = Pf!Out /\ s.pc = "out"
      BY <2>1, <2>4 DEF Pf!Out
    <3>2. s \in Pf!ShType
      BY <3>1, OutTyped
    <3>3. QED
      BY <1>2, <1>3, <2>2, <3>1, <3>2, OneProcess
  <2>5. QED
    BY <2>3, <2>4
<1>11. QED
  BY <1>7, <1>8, <1>9, <1>10

(* Saving, step by step, and dying.                                        *)
LEMMA SaveSteps ==
    ASSUME Pf!PfInv, NEW p \in Ncftps,
           Pf!OpenTemp(p) \/ Pf!WriteTemp(p) \/ Pf!UnlinkPrefs(p) \/ Pf!RenameTemp(p) \/ Pf!Die(p)
    PROVE  Pf!PfInv'
<1>1. v4[p] \in Pf!ShType /\ v4 \in [Ncftps -> Pf!ShType] /\ v3 = [q \in Ncftps |-> v3[q]]
  BY DEF Pf!PfInv, Pf!PfTypes
<1> DEFINE Goes(s, t) ==
      \/ s = Pf!Out
      \/ v4[p].pc = "temp" /\ s = [v4[p] EXCEPT !.pc = "write"] /\ t = Pf!Torn
      \/ v4[p].pc = "write" /\ s = [v4[p] EXCEPT !.pc = "unlink"] /\ t \in {v3[p], Pf!Holding(v4[p].prefs, FALSE)}
      \/ v4[p].pc = "unlink" /\ s = [v4[p] EXCEPT !.pc = "rename"] /\ t = v3[p]
<1>2. PICK s, t : s \in Pf!ShType /\ v4' = [v4 EXCEPT ![p] = s] /\ v3' = [v3 EXCEPT ![p] = t] /\ Goes(s, t)
  <2>1. \A pc \in {"write", "unlink", "rename"} : [v4[p] EXCEPT !.pc = pc] \in Pf!ShType
    BY <1>1 DEF Pf!ShType
  <2>2. v3 = [v3 EXCEPT ![p] = v3[p]]
    BY <1>1
  <2>3. CASE Pf!OpenTemp(p)
    <3>1. \/ v3' = [v3 EXCEPT ![p] = Pf!Torn] /\ v4' = [v4 EXCEPT ![p] = [v4[p] EXCEPT !.pc = "write"]] /\ v4[p].pc = "temp"
          \/ v3' = v3 /\ v4' = [v4 EXCEPT ![p] = Pf!Out]
      BY <2>3, <1>1 DEF Pf!OpenTemp
    <3>2. QED
      BY <2>1, <2>2, <3>1, OutTyped
  <2>4. CASE Pf!WriteTemp(p)
    <3>1. [o \in Pf!Options |-> Pf!Printed(v4[p], o)] = v4[p].prefs
      <4>1. v4[p].fw # Pf!NoMode => v4[p].prefs["passive"] = v4[p].fw
        BY <2>4 DEF Pf!PfInv, Pf!HasMode, Pf!WriteTemp
      <4>2. v4[p].prefs = [o \in Pf!Options |-> v4[p].prefs[o]]
        BY <1>1 DEF Pf!ShType, Pf!Settings
      <4>3. \A o \in Pf!Options : Pf!Printed(v4[p], o) = v4[p].prefs[o]
        BY <4>1 DEF Pf!Printed
      <4>4. QED
        BY <4>2, <4>3
    <3>2. v4' = [v4 EXCEPT ![p] = [v4[p] EXCEPT !.pc = "unlink"]] /\ v4[p].pc = "write"
      BY <2>4, <1>1 DEF Pf!WriteTemp
    <3>3. v3' = [v3 EXCEPT ![p] = Pf!Holding(v4[p].prefs, FALSE)] \/ v3' = v3
      BY <2>4, <3>1 DEF Pf!WriteTemp
    <3>4. QED
      BY <2>1, <2>2, <3>2, <3>3
  <2>5. CASE Pf!UnlinkPrefs(p)
    <3>1. v4' = [v4 EXCEPT ![p] = [v4[p] EXCEPT !.pc = "rename"]] /\ v4[p].pc = "unlink" /\ v3' = v3
      BY <2>5, <1>1 DEF Pf!UnlinkPrefs
    <3>2. QED
      BY <2>1, <2>2, <3>1
  <2>6. CASE Pf!RenameTemp(p) \/ Pf!Die(p)
    BY <2>6, OutTyped DEF Pf!RenameTemp, Pf!Die
  <2>7. QED
    BY <2>3, <2>4, <2>5, <2>6
<1>3. \A q \in Ncftps : v4'[q] = (IF q = p THEN s ELSE v4[q]) /\ v3'[q] = (IF q = p THEN t ELSE v3[q])
  BY <1>1, <1>2
<1>4. Pf!Out.pc = "out"
  BY DEF Pf!Out
<1>5. s # Pf!Out => /\ s.pc \in {"write", "unlink", "rename"} /\ s.prefs = v4[p].prefs /\ s.fw = v4[p].fw
                    /\ v4[p].pc \in {"temp", "write", "unlink"}
                    /\ t \in {Pf!Torn, Pf!Holding(s.prefs, FALSE)}
  <2>1. SUFFICES ASSUME s # Pf!Out
                 PROVE  /\ s.pc \in {"write", "unlink", "rename"} /\ s.prefs = v4[p].prefs /\ s.fw = v4[p].fw
                        /\ v4[p].pc \in {"temp", "write", "unlink"}
                        /\ t \in {Pf!Torn, Pf!Holding(s.prefs, FALSE)}
    OBVIOUS
  <2>2. \/ v4[p].pc = "temp" /\ s = [v4[p] EXCEPT !.pc = "write"] /\ t = Pf!Torn
        \/ v4[p].pc = "write" /\ s = [v4[p] EXCEPT !.pc = "unlink"] /\ t \in {v3[p], Pf!Holding(v4[p].prefs, FALSE)}
        \/ v4[p].pc = "unlink" /\ s = [v4[p] EXCEPT !.pc = "rename"] /\ t = v3[p]
    BY <1>2, <2>1
  <2>3. s.pc \in {"write", "unlink", "rename"} /\ s.prefs = v4[p].prefs /\ s.fw = v4[p].fw
    BY <1>1, <2>2 DEF Pf!ShType
  <2>4. v4[p].pc \in {"write", "unlink"} => v3[p] \in {Pf!Torn, Pf!Holding(v4[p].prefs, FALSE)}
    BY DEF Pf!PfInv, Pf!Temps
  <2>5. QED
    BY <2>2, <2>3, <2>4
<1>6. Pf!HasMode' /\ Pf!Named'
  <2>1. v4[p].pc \in {"temp", "write", "unlink"} =>
          /\ v4[p].fw # Pf!NoMode => v4[p].prefs["passive"] = v4[p].fw
          /\ v4[p].prefs["anon-password"] # ""
    BY DEF Pf!PfInv, Pf!HasMode, Pf!Named
  <2>2. QED
    BY <1>3, <1>4, <1>5, <2>1 DEF Pf!PfInv, Pf!HasMode, Pf!Named
<1>7. Pf!Temps'
  BY <1>3, <1>4, <1>5 DEF Pf!PfInv, Pf!Temps
<1>8. Pf!InForce'
  <2>1. SUFFICES ASSUME NEW q \in Ncftps, v4'[q].pc = "open" PROVE v4'[q] = v4[q]
    BY DEF Pf!PfInv, Pf!InForce
  <2>2. s.pc # "open"
    BY <1>4, <1>5
  <2>3. QED
    BY <1>3, <2>1, <2>2
<1>9. v4' \in [Ncftps -> Pf!ShType] /\ v3' = [q \in Ncftps |-> v3'[q]]
  BY <1>1, <1>2
<1>10. v1' = v1 /\ v7' = v7
  BY DEF Pf!OpenTemp, Pf!WriteTemp, Pf!UnlinkPrefs, Pf!RenameTemp, Pf!Die
<1>11. CASE Pf!OpenTemp(p) \/ Pf!WriteTemp(p)
  <2>1. UNCHANGED <<v2, v5, v6>> /\ v4[p].pc \in {"temp", "write"}
    BY <1>11 DEF Pf!OpenTemp, Pf!WriteTemp
  <2>2. Pf!PfTypes' /\ Pf!SavedThere'
    BY <1>9, <1>10, <2>1 DEF Pf!PfInv, Pf!PfTypes, Pf!HomeTyped, Pf!SavedThere
  <2>3. Pf!PrefsThere'
    BY <1>3, <2>1 DEF Pf!PfInv, Pf!PrefsThere
  <2>4. QED
    BY <1>6, <1>7, <1>8, <2>2, <2>3 DEF Pf!PfInv
<1>12. CASE Pf!UnlinkPrefs(p)
  <2>1. /\ UNCHANGED <<v3, v5, v6>> /\ v4[p].pc = "unlink" /\ v2' = [v2 EXCEPT !.prefs = Pf!NoFile]
        /\ v4' = [v4 EXCEPT ![p].pc = "rename"]
    BY <1>12 DEF Pf!UnlinkPrefs
  <2>2. v2 = [prefs |-> v2.prefs, v2 |-> v2.v2, firewall |-> v2.firewall, counted |-> v2.counted]
    BY DEF Pf!PfInv, Pf!PfTypes, Pf!HomeTyped
  <2>3. v2' = [prefs |-> Pf!NoFile, v2 |-> v2.v2, firewall |-> v2.firewall, counted |-> v2.counted]
    BY <2>1, <2>2
  <2>4. v2'.prefs = Pf!NoFile /\ v2'.v2 = v2.v2 /\ v2'.firewall = v2.firewall /\ v2'.counted = v2.counted
    BY <2>3
  <2>5. Pf!HomeTyped'
    BY <2>3, <2>4 DEF Pf!PfInv, Pf!PfTypes, Pf!HomeTyped, Pf!Optional
  <2>6. Pf!PfTypes' /\ Pf!SavedThere'
    BY <1>9, <1>10, <2>1, <2>4, <2>5, FilesDiffer DEF Pf!PfInv, Pf!PfTypes, Pf!SavedThere
  <2>7. v3[p] # Pf!NoFile
    <3>1. v3[p] \in {Pf!Torn, Pf!Holding(v4[p].prefs, FALSE)}
      BY <2>1 DEF Pf!PfInv, Pf!Temps
    <3>2. Pf!NoFile # Pf!Torn /\ Pf!NoFile # Pf!Holding(v4[p].prefs, FALSE)
      BY FilesDiffer
    <3>3. QED
      BY <3>1, <3>2
  <2>8. v4'[p].pc = "rename" /\ v3'[p] # Pf!NoFile
    BY <1>1, <2>1, <2>7 DEF Pf!ShType
  <2>9. Pf!PrefsThere'
    BY <2>4, <2>8, FilesDiffer DEF Pf!PrefsThere
  <2>10. QED
    BY <1>6, <1>7, <1>8, <2>6, <2>9 DEF Pf!PfInv
<1>13. CASE Pf!RenameTemp(p)
  <2>1. v4[p].pc = "rename" /\ v3[p] \in {Pf!Torn, Pf!Holding(v4[p].prefs, FALSE)}
    BY <1>13 DEF Pf!RenameTemp, Pf!PfInv, Pf!Temps
  <2>2. v4[p].prefs["anon-password"] # "" /\ v4[p].prefs \in Pf!Settings
    BY <1>1, <2>1 DEF Pf!PfInv, Pf!Named, Pf!ShType
  <2>3. CASE /\ v2' = [v2 EXCEPT !.prefs = v3[p]] /\ v6' = (v3[p] = Pf!Torn)
             /\ v5' = IF v3[p] = Pf!Torn THEN Pf!NoSave ELSE [is |-> "saved", prefs |-> v4[p].prefs]
    <3>1. v2 = [prefs |-> v2.prefs, v2 |-> v2.v2, firewall |-> v2.firewall, counted |-> v2.counted]
      BY DEF Pf!PfInv, Pf!PfTypes, Pf!HomeTyped
    <3>2. v2' = [prefs |-> v3[p], v2 |-> v2.v2, firewall |-> v2.firewall, counted |-> v2.counted]
      BY <2>3, <3>1
    <3>3. v2'.prefs = v3[p] /\ v2'.v2 = v2.v2 /\ v2'.firewall = v2.firewall /\ v2'.counted = v2.counted
      BY <3>2
    <3>4. Pf!Optional(v3[p])
      <4>1. Pf!Optional(Pf!Torn)
        BY DEF Pf!Optional
      <4>2. Pf!Optional(Pf!Holding(v4[p].prefs, FALSE))
        <5>1. PICK h : h = Pf!Holding(v4[p].prefs, FALSE)
          OBVIOUS
        <5>2. h.opts = v4[p].prefs /\ h.old = FALSE
          BY <5>1, FilesDiffer
        <5>3. DOMAIN h.opts = Pf!Options /\ h.opts \in [DOMAIN h.opts -> Pf!Text]
          BY <2>2, <5>2 DEF Pf!Settings
        <5>4. QED
          BY <5>1, <5>2, <5>3 DEF Pf!Optional
      <4>3. QED
        BY <2>1, <4>1, <4>2
    <3>5. Pf!HomeTyped'
      <4>1. Pf!Optional(v2'.prefs) /\ Pf!Optional(v2'.v2)
        BY <3>3, <3>4 DEF Pf!PfInv, Pf!PfTypes, Pf!HomeTyped
      <4>2. QED
        BY <3>2, <3>3, <4>1 DEF Pf!PfInv, Pf!PfTypes, Pf!HomeTyped, Pf!Optional
    <3>6. Pf!PfTypes'
      BY <1>9, <1>10, <2>2, <2>3, <3>5 DEF Pf!PfInv, Pf!PfTypes
    <3>7. Pf!SavedThere'
      BY <2>1, <2>3, <3>3 DEF Pf!SavedThere
    <3>8. Pf!PrefsThere'
      <4>1. /\ Pf!Found(Pf!Holding(v4[p].prefs, FALSE)) /\ Pf!Holding(v4[p].prefs, FALSE) # Pf!Torn
        BY FilesDiffer
      <4>2. v3[p] # Pf!Torn => Pf!Found(v2'.prefs)
        BY <2>1, <3>3, <4>1
      <4>3. QED
        BY <2>3, <3>3, <4>2 DEF Pf!PrefsThere
    <3>9. QED
      BY <1>6, <1>7, <1>8, <3>6, <3>7, <3>8 DEF Pf!PfInv
  <2>4. CASE v2' = v2 /\ v6' = TRUE /\ v5' = v5
    <3>1. Pf!PfTypes' /\ Pf!SavedThere' /\ Pf!PrefsThere'
      BY <1>9, <1>10, <2>4 DEF Pf!PfInv, Pf!PfTypes, Pf!HomeTyped, Pf!SavedThere, Pf!PrefsThere
    <3>2. QED
      BY <1>6, <1>7, <1>8, <3>1 DEF Pf!PfInv
  <2>5. QED
    BY <1>13, <2>3, <2>4 DEF Pf!RenameTemp
<1>14. CASE Pf!Die(p)
  <2>1. UNCHANGED <<v2, v5>> /\ v6' = (v6 \/ v4[p].pc = "rename")
    BY <1>14 DEF Pf!Die
  <2>2. Pf!PfTypes' /\ Pf!SavedThere'
    BY <1>9, <1>10, <2>1 DEF Pf!PfInv, Pf!PfTypes, Pf!HomeTyped, Pf!SavedThere
  <2>3. Pf!PrefsThere'
    BY <1>3, <2>1 DEF Pf!PfInv, Pf!PrefsThere
  <2>4. QED
    BY <1>6, <1>7, <1>8, <2>2, <2>3 DEF Pf!PfInv
<1>15. QED
  BY <1>11, <1>12, <1>13, <1>14

LEMMA SettingsStep == ASSUME Pf!PfInv, Pf!PfNext PROVE Pf!PfInv'
<1>1. PICK p \in Ncftps :
        \/ Pf!Start(p) \/ Pf!OneTimeMessage(p) \/ Pf!OpenHost(p) \/ Pf!CloseHost(p) \/ Pf!Quit(p)
        \/ Pf!OpenTemp(p) \/ Pf!WriteTemp(p) \/ Pf!UnlinkPrefs(p) \/ Pf!RenameTemp(p) \/ Pf!Die(p)
        \/ \E o \in Pf!Options : \E v \in Pf!Choices(o) : Pf!Set(p, o, v)
  BY DEF Pf!PfNext
<1>2. QED
  BY <1>1, StartStep, SetStep, MoveSteps, SaveSteps

LEMMA SettingsSafe == ASSUME Pf!PfInv PROVE Pf!PfTypeOK /\ Pf!InForce /\ Pf!PrefsThere
<1>1. Pf!PfTypeOK
  <2>1. \A p \in Ncftps : v4[p] \in Pf!ShType
    BY DEF Pf!PfInv, Pf!PfTypes
  <2>2. QED
    BY <2>1 DEF Pf!PfInv, Pf!PfTypes, Pf!PfTypeOK, Pf!ShType, Pf!Settings, Pf!Modes
<1>2. QED
  BY <1>1 DEF Pf!PfInv

(* What one session saved is what the next one loads.                      *)
LEMMA SettingsRemembered == ASSUME Pf!PfInv, Pf!PfNext PROVE Pf!Remembered
<1>1. SUFFICES ASSUME NEW p \in Ncftps, v4[p].pc = "out", v4'[p].pc = "closed", v5 # Pf!NoSave,
                      Pf!Found(v2.prefs), NEW o \in Pf!Options
               PROVE  v4'[p].prefs[o] =
                        IF o = "passive" /\ v4'[p].fw # Pf!NoMode THEN v4'[p].fw
                        ELSE IF Pf!Says(v1.fixed, o) THEN v1.fixed.opts[o]
                        ELSE IF v5.prefs[o] # "" THEN v5.prefs[o]
                        ELSE IF Pf!Says(v1.global, o) THEN v1.global.opts[o] ELSE Pf!Default[o]
  BY DEF Pf!Remembered, Pf!Loads
<1>2. Pf!Start(p)
  <2>1. PICK q \in Ncftps :
        \/ Pf!Start(q) \/ Pf!OneTimeMessage(q) \/ Pf!OpenHost(q) \/ Pf!CloseHost(q) \/ Pf!Quit(q)
        \/ Pf!OpenTemp(q) \/ Pf!WriteTemp(q) \/ Pf!UnlinkPrefs(q) \/ Pf!RenameTemp(q) \/ Pf!Die(q)
        \/ \E c \in Pf!Options : \E v \in Pf!Choices(c) : Pf!Set(q, c, v)
    BY DEF Pf!PfNext
  <2>2. v4 \in [Ncftps -> Pf!ShType]
    BY DEF Pf!PfInv, Pf!PfTypes
  <2>3. v4'[p] # v4[p]
    BY <1>1
  <2>4. q = p
    <3>1. SUFFICES ASSUME q # p PROVE v4'[p] = v4[p]
      BY <2>3
    <3>2. QED
      BY <2>1, <2>2, <3>1 DEF Pf!Start, Pf!OneTimeMessage, Pf!OpenHost, Pf!CloseHost, Pf!Quit,
        Pf!OpenTemp, Pf!WriteTemp, Pf!UnlinkPrefs, Pf!RenameTemp, Pf!Die, Pf!Set
  <2>5. QED
    BY <1>1, <2>1, <2>4 DEF Pf!OneTimeMessage, Pf!OpenHost, Pf!CloseHost, Pf!Quit,
        Pf!OpenTemp, Pf!WriteTemp, Pf!UnlinkPrefs, Pf!RenameTemp, Pf!Die, Pf!Set
<1>3. PICK fw \in Pf!Modes : fw = Pf!LoadFirewallPrefs
  BY FirewallTyped
<1>4. PICK prefs \in Pf!Settings : prefs = Pf!LoadPrefs(fw)
  BY <1>3, LoadRight
<1>5. v4'[p].prefs = Pf!PostInitPrefs(prefs) /\ v4'[p].fw = fw
  <2>1. v4 \in [Ncftps -> Pf!ShType]
    BY DEF Pf!PfInv, Pf!PfTypes
  <2>2. QED
    BY <1>2, <1>3, <1>4, <2>1 DEF Pf!Start
<1>6. v2.prefs = Pf!Holding(v5.prefs, FALSE) /\ v5.prefs \in Pf!Settings /\ v5.prefs["anon-password"] # ""
  BY <1>1 DEF Pf!PfInv, Pf!SavedThere, Pf!PfTypes
<1>7. Pf!UserPrefs = v2.prefs /\ v2.prefs.opts = v5.prefs
  <2>1. Pf!Holding(v5.prefs, FALSE).opts = v5.prefs
    BY FilesDiffer
  <2>2. QED
    BY <1>1, <1>6, <2>1 DEF Pf!UserPrefs
<1>8. Pf!Says(Pf!UserPrefs, o) <=> v5.prefs[o] # ""
  BY <1>1, <1>6, <1>7 DEF Pf!Says, Pf!Settings
<1>9. o # "passive" \/ fw = Pf!NoMode =>
        prefs[o] = IF Pf!Says(v1.fixed, o) THEN v1.fixed.opts[o]
                   ELSE IF v5.prefs[o] # "" THEN v5.prefs[o]
                   ELSE IF Pf!Says(v1.global, o) THEN v1.global.opts[o] ELSE Pf!Default[o]
  BY <1>4, <1>7, <1>8, LoadRight
<1>10. o = "passive" /\ fw # Pf!NoMode => prefs[o] = fw
  BY <1>4, LoadRight
<1>11. o = "anon-password" => prefs[o] # ""
  BY <1>6, <1>9 DEF Pf!Says
<1>12. Pf!PostInitPrefs(prefs)[o] = prefs[o]
  BY <1>11, PostInitRight
<1>13. QED
  BY <1>5, <1>9, <1>10, <1>12
-----------------------------------------------------------------------------
(***************************************************************************)
(* The log of the sessions.                                                *)
(***************************************************************************)
LEMMA LeastThere == ASSUME NEW I, I \subseteq Nat, I # {} PROVE \E x \in I : \A y \in I : x <= y
<1>1. PICK x \in I : \A y \in I : ~(<<y, x>> \in OpToRel(<, Nat))
  BY NatLessThanWellFounded, WFMin
<1>2. \A y \in I : ~(y < x) /\ y \in Nat /\ x \in Nat
  BY <1>1 DEF OpToRel
<1>3. \A y \in I : x <= y
  BY <1>2
<1>4. QED
  BY <1>1, <1>3

LEMMA GreatestThere ==
    ASSUME NEW n \in Nat, NEW I, I \subseteq 1..n, I # {}
    PROVE  \E x \in I : \A y \in I : x >= y
<1> DEFINE J == {n - i : i \in I}
<1>1. J \subseteq Nat /\ J # {}
  <2>1. \A i \in I : n - i \in Nat
    OBVIOUS
  <2>2. QED
    BY <2>1
<1>2. PICK j \in J : \A k \in J : j <= k
  BY <1>1, LeastThere
<1>3. PICK x \in I : j = n - x
  BY <1>2
<1>4. \A y \in I : n - y \in J
  OBVIOUS
<1>5. \A y \in I : n - x <= n - y
  BY <1>2, <1>3, <1>4
<1>6. \A y \in I : x >= y
  BY <1>5
<1>7. QED
  BY <1>3, <1>6

(* Line u is the line of the site that line i stands under.                *)
IsUnder(ls, i, u) == u \in 1..i /\ ls[u].open /\ \A k \in (u + 1)..i : ~ls[k].open
Ordered(ls) == \A i \in 1..Len(ls) : \E u \in 1..i : IsUnder(ls, i, u) /\ ls[u].of = ls[i].of

LEMMA OneUnder ==
    ASSUME NEW ls, NEW i \in Nat, NEW u, NEW v, IsUnder(ls, i, u), IsUnder(ls, i, v)
    PROVE  u = v
<1>1. u \in 1..i /\ v \in 1..i
  BY DEF IsUnder
<1>2. ~(u < v)
  <2>1. u < v => v \in (u + 1)..i
    BY <1>1
  <2>2. QED
    BY <2>1 DEF IsUnder
<1>3. ~(v < u)
  <2>1. v < u => u \in (v + 1)..i
    BY <1>1
  <2>2. QED
    BY <2>1 DEF IsUnder
<1>4. QED
  BY <1>1, <1>2, <1>3

LEMMA LastSiteIs ==
    ASSUME NEW ls \in Lg!LogLines
    PROVE  /\ \A u : IsUnder(ls, Len(ls), u) => Lg!LastSite(ls) = u
           /\ Lg!LastSite(ls) # 0 => IsUnder(ls, Len(ls), Lg!LastSite(ls))
           /\ Lg!LastSite(ls) \in 0..Len(ls)
<1> DEFINE I == {i \in 1..Len(ls) : ls[i].open}
<1>1. Len(ls) \in Nat
  BY DEF Lg!LogLines
<1>2. Lg!LastSite(ls) = IF I # {} THEN Lg!Max(I) ELSE 0
  BY DEF Lg!LastSite, Lg!SelectLastInSubSeq
<1>3. CASE I = {}
  <2>1. Lg!LastSite(ls) = 0
    BY <1>2, <1>3
  <2>2. \A u : ~IsUnder(ls, Len(ls), u)
    BY <1>3 DEF IsUnder
  <2>3. QED
    BY <1>1, <2>1, <2>2
<1>4. CASE I # {}
  <2>1. \E x \in I : \A y \in I : x >= y
    <3>1. I \subseteq 1..Len(ls)
      OBVIOUS
    <3>2. QED
      BY <1>1, <1>4, <3>1, GreatestThere
  <2>2. PICK m : m = Lg!Max(I)
    OBVIOUS
  <2>3. m \in I /\ \A y \in I : m >= y
    BY <2>1, <2>2 DEF Lg!Max
  <2>4. m \in 1..Len(ls) /\ ls[m].open
    BY <2>3
  <2>5. \A k \in (m + 1)..Len(ls) : ~ls[k].open
    <3>1. SUFFICES ASSUME NEW k \in (m + 1)..Len(ls), ls[k].open PROVE FALSE
      OBVIOUS
    <3>2. k \in 1..Len(ls) /\ k > m
      BY <1>1, <2>4
    <3>3. k \in I
      BY <3>1, <3>2
    <3>4. QED
      BY <1>1, <2>3, <2>4, <3>2, <3>3
  <2>6. IsUnder(ls, Len(ls), m)
    BY <2>4, <2>5 DEF IsUnder
  <2>7. Lg!LastSite(ls) = m
    BY <1>2, <1>4, <2>2
  <2>8. QED
    BY <1>1, <2>4, <2>6, <2>7, OneUnder
<1>5. QED
  BY <1>3, <1>4

LEMMA BeginningIs ==
    ASSUME NEW ls \in Lg!LogLines, NEW i \in 0..Len(ls)
    PROVE  /\ SubSeq(ls, 1, i) \in Lg!LogLines /\ Len(SubSeq(ls, 1, i)) = i
           /\ \A k \in 1..i : SubSeq(ls, 1, i)[k] = ls[k]
           /\ \A u : IsUnder(SubSeq(ls, 1, i), i, u) <=> IsUnder(ls, i, u)
<1> DEFINE L == [open : BOOLEAN, of : LogHosts, purged : BOOLEAN]
<1>1. \A k \in 1..i : ls[k] \in L
  <2>1. \A k \in 1..i : k \in 1..Len(ls)
    BY DEF Lg!LogLines
  <2>2. ls \in Seq(L)
    BY DEF Lg!LogLines
  <2>3. \A k \in 1..Len(ls) : ls[k] \in L
    BY <2>2, ElementOfSeq
  <2>4. QED
    BY <2>1, <2>3
<1>2. /\ SubSeq(ls, 1, i) \in Seq(L) /\ Len(SubSeq(ls, 1, i)) = IF 1 <= i THEN i - 1 + 1 ELSE 0
      /\ \A k \in 1..(i - 1 + 1) : SubSeq(ls, 1, i)[k] = ls[1 + k - 1]
  BY <1>1, SubSeqProperties
<1>3. /\ SubSeq(ls, 1, i) \in Lg!LogLines /\ Len(SubSeq(ls, 1, i)) = i
      /\ \A k \in 1..i : SubSeq(ls, 1, i)[k] = ls[k]
  BY <1>2 DEF Lg!LogLines
<1>4. \A u : u \in 1..i => (u + 1)..i \subseteq 1..i
  OBVIOUS
<1>5. \A u : IsUnder(SubSeq(ls, 1, i), i, u) <=> IsUnder(ls, i, u)
  BY <1>3, <1>4 DEF IsUnder
<1>6. QED
  BY <1>3, <1>5

LEMMA UnderIs ==
    ASSUME NEW ls \in Lg!LogLines, NEW i \in 0..Len(ls)
    PROVE  /\ \A u : IsUnder(ls, i, u) => Lg!Under(ls, i) = u
           /\ Lg!Under(ls, i) # 0 => IsUnder(ls, i, Lg!Under(ls, i))
           /\ Lg!Under(ls, i) \in 0..i
<1>1. PICK b : b = SubSeq(ls, 1, i)
  OBVIOUS
<1>2. b \in Lg!LogLines /\ Len(b) = i /\ \A u : IsUnder(b, i, u) <=> IsUnder(ls, i, u)
  BY <1>1, BeginningIs
<1>3. Lg!Under(ls, i) = Lg!LastSite(b)
  BY <1>1 DEF Lg!Under
<1>4. QED
  BY <1>2, <1>3, LastSiteIs

LEMMA OrderedIs == ASSUME NEW ls \in Lg!LogLines PROVE Lg!InOrder(ls) <=> Ordered(ls)
<1>1. ASSUME Lg!InOrder(ls), NEW i \in 1..Len(ls)
      PROVE  \E u \in 1..i : IsUnder(ls, i, u) /\ ls[u].of = ls[i].of
  <2>1. i \in 0..Len(ls)
    OBVIOUS
  <2>2. Lg!Under(ls, i) # 0 /\ ls[Lg!Under(ls, i)].of = ls[i].of
    BY <1>1 DEF Lg!InOrder
  <2>3. IsUnder(ls, i, Lg!Under(ls, i))
    BY <2>1, <2>2, UnderIs
  <2>4. Lg!Under(ls, i) \in 1..i
    BY <2>3 DEF IsUnder
  <2>5. QED
    BY <2>2, <2>3, <2>4
<1>2. ASSUME Ordered(ls), NEW i \in 1..Len(ls)
      PROVE  Lg!Under(ls, i) # 0 /\ ls[Lg!Under(ls, i)].of = ls[i].of
  <2>1. i \in 0..Len(ls)
    OBVIOUS
  <2>2. PICK u \in 1..i : IsUnder(ls, i, u) /\ ls[u].of = ls[i].of
    BY <1>2 DEF Ordered
  <2>3. Lg!Under(ls, i) = u
    BY <2>1, <2>2, UnderIs
  <2>4. QED
    BY <2>2, <2>3
<1>3. QED
  BY <1>1, <1>2 DEF Lg!InOrder, Ordered

LEMMA Appending ==
    ASSUME NEW ls \in Lg!LogLines, NEW l \in [open : BOOLEAN, of : LogHosts, purged : BOOLEAN], Ordered(ls),
           l.open \/ (Lg!LastSite(ls) # 0 /\ ls[Lg!LastSite(ls)].of = l.of)
    PROVE  /\ Append(ls, l) \in Lg!LogLines /\ Ordered(Append(ls, l))
           /\ Lg!LastSite(Append(ls, l)) # 0 /\ Append(ls, l)[Lg!LastSite(Append(ls, l))].of = l.of
<1>1. PICK n : n = Len(ls)
  OBVIOUS
<1>2. n \in Nat
  BY <1>1 DEF Lg!LogLines
<1>3. PICK ms : ms = Append(ls, l)
  OBVIOUS
<1>4. ms \in Lg!LogLines /\ Len(ms) = n + 1 /\ ms[n + 1] = l /\ \A i \in 1..n : ms[i] = ls[i]
  BY <1>1, <1>3, AppendProperties DEF Lg!LogLines
<1>5. ASSUME NEW i \in 1..n, NEW u, IsUnder(ls, i, u) PROVE IsUnder(ms, i, u)
  <2>1. u \in 1..i /\ (u + 1)..i \subseteq 1..n /\ u \in 1..n
    BY <1>2, <1>5 DEF IsUnder
  <2>2. QED
    BY <1>4, <1>5, <2>1 DEF IsUnder
<1>6. \E u \in 1..(n + 1) : IsUnder(ms, n + 1, u) /\ ms[u].of = l.of
  <2>1. CASE l.open
    <3>1. n + 1 \in 1..(n + 1) /\ (n + 1 + 1)..(n + 1) = {}
      BY <1>2
    <3>2. IsUnder(ms, n + 1, n + 1)
      BY <1>4, <2>1, <3>1 DEF IsUnder
    <3>3. QED
      BY <1>4, <3>1, <3>2
  <2>2. CASE ~l.open
    <3>1. PICK u : u = Lg!LastSite(ls)
      OBVIOUS
    <3>2. IsUnder(ls, n, u) /\ ls[u].of = l.of
      BY <1>1, <2>2, <3>1, LastSiteIs
    <3>3. u \in 1..n
      BY <3>2 DEF IsUnder
    <3>4. u \in 1..(n + 1) /\ ms[u] = ls[u]
      BY <1>2, <1>4, <3>3
    <3>5. \A k \in (u + 1)..(n + 1) : ~ms[k].open
      <4>1. \A k \in (u + 1)..(n + 1) : k = n + 1 \/ (k \in (u + 1)..n /\ k \in 1..n)
        BY <1>2, <3>3
      <4>2. QED
        BY <1>4, <2>2, <3>2, <4>1 DEF IsUnder
    <3>6. IsUnder(ms, n + 1, u)
      BY <3>2, <3>4, <3>5 DEF IsUnder
    <3>7. QED
      BY <3>2, <3>4, <3>6
  <2>3. QED
    BY <2>1, <2>2
<1>7. Ordered(ms)
  <2>1. SUFFICES ASSUME NEW i \in 1..(n + 1)
                 PROVE  \E u \in 1..i : IsUnder(ms, i, u) /\ ms[u].of = ms[i].of
    BY <1>4 DEF Ordered
  <2>2. CASE i = n + 1
    BY <1>4, <1>6, <2>2
  <2>3. CASE i \in 1..n
    <3>1. PICK u \in 1..i : IsUnder(ls, i, u) /\ ls[u].of = ls[i].of
      BY <1>1, <2>3 DEF Ordered
    <3>2. u \in 1..n
      BY <1>2, <2>3
    <3>3. IsUnder(ms, i, u)
      BY <1>5, <2>3, <3>1
    <3>4. QED
      BY <1>4, <2>3, <3>1, <3>2, <3>3
  <2>4. QED
    BY <1>2, <2>2, <2>3
<1>8. PICK u \in 1..(n + 1) : IsUnder(ms, n + 1, u) /\ ms[u].of = l.of
  BY <1>6
<1>9. Lg!LastSite(ms) = u
  BY <1>4, <1>8, LastSiteIs
<1>10. u # 0
  BY <1>2, <1>8
<1>11. QED
  BY <1>3, <1>4, <1>7, <1>8, <1>9, <1>10

(* How much is dropped.                                                    *)
LEMMA LinesHold ==
    ASSUME NEW b \in Nat
    PROVE  /\ Lg!Lines(b) \in Nat
           /\ LogLine * Lg!Lines(b) >= b /\ LogLine * Lg!Lines(b) < b + LogLine
           /\ b > 0 => Lg!Lines(b) >= 1
<1>1. PICK S : S = LogLine
  OBVIOUS
<1>2. S \in Nat /\ S > 0
  BY <1>1, TransferLogAssumption DEF Lg!LgAssumption
<1>3. PICK a \in Nat : a = b + S - 1
  BY <1>2
<1>4. PICK q : q = a \div S
  OBVIOUS
<1>5. q \in Int /\ S * q <= a /\ a < S * q + S
  BY <1>2, <1>4
<1>6. q >= 0
  BY <1>2, <1>4
<1>7. S * q >= b /\ S * q < b + S
  BY <1>2, <1>3, <1>5
<1>8. b > 0 => q >= 1
  <2>1. q = 0 => S * q = 0
    BY <1>2
  <2>2. QED
    BY <1>5, <1>6, <1>7, <2>1
<1>9. Lg!Lines(b) = q
  BY <1>1, <1>3, <1>4 DEF Lg!Lines
<1>10. QED
  BY <1>1, <1>5, <1>6, <1>7, <1>8, <1>9

LEMMA TenthThere == Lg!Tenth \in Nat /\ Lg!Tenth >= 1
<1>1. LogLine \in Nat /\ LogLine > 0 /\ MaxLogSize \in Nat /\ MaxLogSize >= 10 * LogLine
  BY TransferLogAssumption DEF Lg!LgAssumption
<1>2. MaxLogSize \div 10 \in Nat /\ MaxLogSize \div 10 > 0
  BY <1>1
<1>3. QED
  BY <1>2, LinesHold DEF Lg!Tenth

LEMMA FatHolds ==
    ASSUME NEW ls \in Lg!LogLines, Lg!Size(ls) >= MaxLogSize
    PROVE  /\ Lg!Lines(Lg!Fat(ls)) \in 1..Len(ls)
           /\ LogLine * (Len(ls) - Lg!Lines(Lg!Fat(ls)) + 1) < MaxLogSize
<1>1. PICK S : S = LogLine
  OBVIOUS
<1>2. PICK M : M = MaxLogSize
  OBVIOUS
<1>3. PICK N : N = Len(ls)
  OBVIOUS
<1>4. S \in Nat /\ S > 0 /\ M \in Nat /\ M >= 10 * S
  BY <1>1, <1>2, TransferLogAssumption DEF Lg!LgAssumption
<1>5. N \in Nat
  BY <1>3 DEF Lg!LogLines
<1>6. S * N \in Nat /\ S * N >= M
  BY <1>1, <1>2, <1>3, <1>4, <1>5 DEF Lg!Size
<1>7. PICK f : f = M \div 5
  OBVIOUS
<1>8. f \in Nat /\ f >= 2 * S /\ f <= M
  BY <1>4, <1>7
<1>9. PICK b : b = S * N - M + f
  OBVIOUS
<1>10. b \in Nat /\ b > 0 /\ b <= S * N
  BY <1>4, <1>6, <1>8, <1>9
<1>11. Lg!Fat(ls) = b
  BY <1>1, <1>2, <1>3, <1>7, <1>9 DEF Lg!Fat, Lg!Size
<1>12. PICK d : d = Lg!Lines(b)
  OBVIOUS
<1>13. d \in Nat /\ S * d >= b /\ S * d < b + S /\ d >= 1
  BY <1>1, <1>10, <1>12, LinesHold
<1>14. d <= N
  <2>1. SUFFICES ASSUME d >= N + 1 PROVE FALSE
    BY <1>5, <1>13
  <2>2. S * d >= S * (N + 1)
    BY <1>4, <1>5, <1>13, <2>1
  <2>3. S * (N + 1) = S * N + S
    BY <1>4, <1>5
  <2>4. S * d \in Nat
    BY <1>4, <1>13
  <2>5. QED
    BY <1>4, <1>6, <1>10, <1>13, <2>2, <2>3, <2>4
<1>15. S * (N - d + 1) < M
  <2>1. S * (N - d + 1) = S * N - S * d + S
    BY <1>4, <1>5, <1>13
  <2>2. S * d \in Nat
    BY <1>4, <1>13
  <2>3. S * N - S * d <= M - f
    BY <1>4, <1>6, <1>8, <1>9, <1>10, <1>13, <2>2
  <2>4. QED
    BY <1>4, <1>6, <1>8, <2>1, <2>2, <2>3
<1>16. QED
  BY <1>1, <1>2, <1>3, <1>5, <1>11, <1>12, <1>13, <1>14, <1>15

(* The second loop passes no site's line but, perhaps, the last it reads.  *)
LEMMA FurtherIs ==
    ASSUME NEW rest \in Lg!LogLines
    PROVE  /\ Lg!Further(rest) \in Nat /\ Lg!Further(rest) >= 1
           /\ Lg!Further(rest) <= Len(rest) /\ ~rest[Lg!Further(rest)].open =>
                \A k \in 1..Lg!Further(rest) : ~rest[k].open
<1> DEFINE I == {i \in 1..Len(rest) : rest[i].open}
<1>1. PICK t \in Nat : t = Lg!Tenth /\ t >= 1
  BY TenthThere
<1>2. Len(rest) \in Nat
  BY DEF Lg!LogLines
<1>3. PICK first : first = IF I # {} THEN Lg!Min(I) ELSE 0
  OBVIOUS
<1>4. Lg!Further(rest) = IF first # 0 /\ first <= t THEN first ELSE t
  BY <1>1, <1>3 DEF Lg!Further, Lg!SelectInSeq
<1>5. CASE I = {}
  <2>1. Lg!Further(rest) = t
    BY <1>3, <1>4, <1>5
  <2>2. \A k \in 1..Len(rest) : ~rest[k].open
    BY <1>5
  <2>3. t <= Len(rest) => \A k \in 1..t : k \in 1..Len(rest)
    BY <1>2
  <2>4. QED
    BY <1>1, <2>1, <2>2, <2>3
<1>6. CASE I # {}
  <2>1. I \subseteq Nat
    OBVIOUS
  <2>2. \E x \in I : \A y \in I : x <= y
    BY <1>6, <2>1, LeastThere
  <2>3. first \in I /\ \A y \in I : first <= y
    BY <1>3, <1>6, <2>2 DEF Lg!Min
  <2>4. first \in 1..Len(rest) /\ rest[first].open
    BY <2>3
  <2>5. CASE first <= t
    BY <1>2, <1>4, <2>4, <2>5
  <2>6. CASE ~(first <= t)
    <3>1. Lg!Further(rest) = t
      BY <1>4, <2>6
    <3>2. ASSUME NEW k \in 1..t PROVE ~rest[k].open
      <4>1. k \in 1..Len(rest) /\ ~(first <= k)
        BY <1>1, <1>2, <2>4, <2>6
      <4>2. QED
        BY <2>3, <4>1
    <3>3. QED
      BY <1>1, <3>1, <3>2
  <2>7. QED
    BY <2>5, <2>6
<1>7. QED
  BY <1>5, <1>6

(* What is written in the place of a log that is too big.                  *)
LEMMA Trimming ==
    ASSUME NEW ls \in Lg!LogLines, Lg!Size(ls) >= MaxLogSize, Lg!Trimmed(ls) # <<>>
    PROVE  /\ Lg!Trimmed(ls) \in Lg!LogLines /\ Lg!Size(Lg!Trimmed(ls)) < MaxLogSize
           /\ Lg!Last(Lg!Trimmed(ls)) = Lg!Last(ls)
           /\ Ordered(ls) => Ordered(Lg!Trimmed(ls))
<1> DEFINE L == [open : BOOLEAN, of : LogHosts, purged : BOOLEAN]
<1>1. PICK N : N = Len(ls)
  OBVIOUS
<1>2. N \in Nat /\ ls \in Seq(L) /\ \A i \in 1..N : ls[i] \in L
  <2>1. ls \in Seq(L)
    BY DEF Lg!LogLines
  <2>2. N \in Nat
    BY <1>1, <2>1
  <2>3. QED
    BY <1>1, <2>1, <2>2, ElementOfSeq
<1>3. PICK d : d = Lg!Lines(Lg!Fat(ls))
  OBVIOUS
<1>4. d \in 1..N /\ LogLine * (N - d + 1) < MaxLogSize
  BY <1>1, <1>3, FatHolds
<1>5. PICK rest : rest = SubSeq(ls, d + 1, N)
  OBVIOUS
<1>6. rest \in Lg!LogLines /\ Len(rest) = N - d /\ \A i \in 1..(N - d) : rest[i] = ls[d + i]
  <2>1. d + 1 \in Int /\ N \in Int /\ \A i \in (d + 1)..N : i \in 1..N
    BY <1>2, <1>4
  <2>2. \A i \in (d + 1)..N : ls[i] \in L
    BY <1>2, <2>1
  <2>3. /\ SubSeq(ls, d + 1, N) \in Seq(L)
        /\ Len(SubSeq(ls, d + 1, N)) = IF d + 1 <= N THEN N - (d + 1) + 1 ELSE 0
        /\ \A i \in 1 .. N - (d + 1) + 1 : SubSeq(ls, d + 1, N)[i] = ls[d + 1 + i - 1]
    BY <2>1, <2>2, SubSeqProperties
  <2>4. N - (d + 1) + 1 = N - d /\ (IF d + 1 <= N THEN N - (d + 1) + 1 ELSE 0) = N - d
    BY <1>2, <1>4
  <2>5. \A i \in 1..(N - d) : d + 1 + i - 1 = d + i
    BY <1>2, <1>4
  <2>6. QED
    BY <1>5, <2>3, <2>4, <2>5 DEF Lg!LogLines
<1>7. PICK n : n = Lg!Further(rest)
  OBVIOUS
<1>8. n \in Nat /\ n >= 1 /\ (n <= N - d /\ ~rest[n].open => \A k \in 1..n : ~rest[k].open)
  BY <1>6, <1>7, FurtherIs
<1>9. PICK site : site = Lg!LastSite(SubSeq(ls, 1, d))
  OBVIOUS
<1>10. site \in 0..d /\ (site # 0 => IsUnder(ls, d, site)) /\ \A u : IsUnder(ls, d, u) => site = u
  <2>1. d \in 0..Len(ls) /\ site = Lg!Under(ls, d)
    BY <1>1, <1>4, <1>9 DEF Lg!Under
  <2>2. QED
    BY <2>1, UnderIs
<1>11. Lg!Trimmed(ls) = IF n > Len(rest) THEN <<>>
                    ELSE (IF rest[n].open \/ site = 0 THEN <<>> ELSE <<Lg!Kept(ls[site])>>)
                         \o SubSeq(rest, n, Len(rest))
  BY <1>1, <1>3, <1>5, <1>7, <1>9 DEF Lg!Trimmed
<1>12. n <= N - d
  BY <1>2, <1>4, <1>6, <1>8, <1>11
<1>13. PICK m : m = N - d
  OBVIOUS
<1>14. m \in Nat /\ n \in 1..m /\ d + m = N
  BY <1>2, <1>4, <1>8, <1>12, <1>13
<1>15. PICK tail : tail = SubSeq(rest, n, m)
  OBVIOUS
<1>16. tail \in Seq(L) /\ Len(tail) = m - n + 1 /\ \A i \in 1..(m - n + 1) : tail[i] = ls[d + n + i - 1]
  <2>1. n \in Int /\ m \in Int /\ \A i \in n..m : i \in 1..m
    BY <1>14
  <2>2. \A i \in 1..m : d + i \in 1..N
    BY <1>2, <1>4, <1>14
  <2>3. \A i \in 1..m : rest[i] \in L
    BY <1>2, <1>6, <1>13, <2>2
  <2>4. /\ SubSeq(rest, n, m) \in Seq(L) /\ Len(SubSeq(rest, n, m)) = IF n <= m THEN m - n + 1 ELSE 0
        /\ \A i \in 1 .. m - n + 1 : SubSeq(rest, n, m)[i] = rest[n + i - 1]
    BY <2>1, <2>3, SubSeqProperties
  <2>5. \A i \in 1..(m - n + 1) : n + i - 1 \in 1..m /\ d + (n + i - 1) = d + n + i - 1
    BY <1>4, <1>14
  <2>6. \A i \in 1..(m - n + 1) : rest[n + i - 1] = ls[d + n + i - 1]
    BY <1>6, <1>13, <2>5
  <2>7. QED
    BY <1>14, <1>15, <2>4, <2>6
<1>17. PICK head : head = IF rest[n].open \/ site = 0 THEN <<>> ELSE <<Lg!Kept(ls[site])>>
  OBVIOUS
<1>18. head = <<>> \/ head = <<Lg!Kept(ls[site])>>
  BY <1>17
<1>19. site # 0 => Lg!Kept(ls[site]) \in L /\ Lg!Kept(ls[site]).open /\ Lg!Kept(ls[site]).of = ls[site].of
  <2>1. site # 0 => ls[site] \in L /\ ls[site].open
    BY <1>2, <1>4, <1>10 DEF IsUnder
  <2>2. QED
    BY <2>1 DEF Lg!Kept
<1>20. head \in Seq(L) /\ Len(head) \in 0..1
  <2>1. <<>> \in Seq(L) /\ Len(<<>>) = 0
    OBVIOUS
  <2>2. \A l \in L : <<l>> \in Seq(L) /\ Len(<<l>>) = 1
    OBVIOUS
  <2>3. CASE rest[n].open \/ site = 0
    BY <1>17, <2>1, <2>3
  <2>4. CASE ~(rest[n].open \/ site = 0)
    BY <1>17, <1>19, <2>2, <2>4
  <2>5. QED
    BY <2>3, <2>4
<1>21. PICK trimmed : trimmed = head \o tail
  OBVIOUS
<1>22. Lg!Trimmed(ls) = trimmed
  BY <1>6, <1>11, <1>12, <1>13, <1>14, <1>15, <1>17, <1>21
<1>23. PICK h \in 0..1 : h = Len(head)
  BY <1>20
<1>24. /\ trimmed \in Seq(L) /\ Len(trimmed) = h + (m - n + 1)
       /\ \A i \in 1..h : trimmed[i] = head[i]
       /\ \A i \in (h + 1)..(h + (m - n + 1)) : trimmed[i] = ls[d + n + (i - h) - 1]
  <2>1. /\ head \o tail \in Seq(L) /\ Len(head \o tail) = Len(head) + Len(tail)
        /\ \A i \in 1..(Len(head) + Len(tail)) :
              (head \o tail)[i] = IF i <= Len(head) THEN head[i] ELSE tail[i - Len(head)]
    BY <1>16, <1>20, ConcatProperties
  <2>2. \A i \in 1..h : i \in 1..(h + (m - n + 1)) /\ i <= h
    BY <1>14
  <2>3. \A i \in (h + 1)..(h + (m - n + 1)) : i \in 1..(h + (m - n + 1)) /\ ~(i <= h) /\ i - h \in 1..(m - n + 1)
    BY <1>14
  <2>4. QED
    BY <1>16, <1>21, <1>23, <2>1, <2>2, <2>3
<1>25. Lg!Size(trimmed) < MaxLogSize
  <2>1. PICK S : S = LogLine
    OBVIOUS
  <2>2. S \in Nat /\ S > 0 /\ MaxLogSize \in Nat
    BY <2>1, TransferLogAssumption DEF Lg!LgAssumption
  <2>3. PICK a \in Nat : a = h + (m - n + 1)
    BY <1>14
  <2>4. a <= m + 1
    BY <1>14, <2>3
  <2>5. S * a <= S * (m + 1)
    BY <1>14, <2>2, <2>3, <2>4
  <2>6. S * (m + 1) < MaxLogSize /\ S * a \in Nat /\ S * (m + 1) \in Nat
    <3>1. m + 1 = N - d + 1
      BY <1>13
    <3>2. S * (m + 1) < MaxLogSize
      BY <1>4, <2>1, <3>1
    <3>3. QED
      BY <1>14, <2>2, <2>3, <3>2
  <2>7. S * a < MaxLogSize
    BY <2>2, <2>5, <2>6
  <2>8. QED
    BY <1>24, <2>1, <2>3, <2>7 DEF Lg!Size
<1>26. Lg!Last(trimmed) = Lg!Last(ls)
  <2>1. PICK a : a = h + (m - n + 1)
    OBVIOUS
  <2>2. a \in (h + 1)..(h + (m - n + 1)) /\ d + n + (a - h) - 1 = N
    BY <1>2, <1>4, <1>14, <2>1
  <2>3. trimmed[a] = ls[N]
    BY <1>24, <2>2
  <2>4. QED
    BY <1>1, <1>24, <2>1, <2>3 DEF Lg!Last
<1>27. ASSUME Ordered(ls) PROVE Ordered(trimmed)
  <2>1. SUFFICES ASSUME NEW i \in 1..(h + (m - n + 1))
                 PROVE  \E u \in 1..i : IsUnder(trimmed, i, u) /\ trimmed[u].of = trimmed[i].of
    BY <1>24 DEF Ordered
  <2>2. PICK c : c = d + n
    OBVIOUS
  <2>3. c \in 1..N /\ c \in Nat /\ c = d + n /\ c > d
    BY <1>2, <1>4, <1>14, <2>2
  <2>4. \A k \in (h + 1)..(h + (m - n + 1)) : trimmed[k] = ls[c + (k - h) - 1] /\ c + (k - h) - 1 \in c..N
    <3>1. \A k \in (h + 1)..(h + (m - n + 1)) : c + (k - h) - 1 \in c..N /\ c + (k - h) - 1 = d + n + (k - h) - 1
      BY <1>2, <1>4, <1>14, <2>3
    <3>2. QED
      BY <1>24, <3>1
  \* A line whose site is among the lines that stay.
  <2>5. ASSUME NEW k \in (h + 1)..(h + (m - n + 1)), NEW u \in c..N, IsUnder(ls, c + (k - h) - 1, u),
               ls[u].of = ls[c + (k - h) - 1].of
        PROVE  \E v \in 1..k : IsUnder(trimmed, k, v) /\ trimmed[v].of = trimmed[k].of
    <3>1. /\ u \in 1..(c + (k - h) - 1) /\ u \in c..N /\ k \in (h + 1)..(h + (m - n + 1))
          /\ h \in 0..1 /\ c \in Nat /\ N \in Nat /\ m \in Nat /\ n \in 1..m
      BY <1>2, <1>14, <1>23, <2>3, <2>5 DEF IsUnder
    <3>2. PICK v : v = u - c + h + 1
      OBVIOUS
    <3>3. v \in (h + 1)..k /\ v \in 1..k /\ v \in (h + 1)..(h + (m - n + 1)) /\ c + (v - h) - 1 = u
      <4>1. k \in Nat /\ u \in Nat /\ u >= c /\ u <= c + (k - h) - 1
        BY <3>1
      <4>2. v \in (h + 1)..k
        BY <3>1, <3>2, <4>1
      <4>3. v \in 1..k /\ v \in (h + 1)..(h + (m - n + 1))
        BY <3>1, <4>2
      <4>4. c + (v - h) - 1 = u
        BY <3>1, <3>2, <4>1
      <4>5. QED
        BY <4>2, <4>3, <4>4
    <3>4. trimmed[v] = ls[u] /\ trimmed[k] = ls[c + (k - h) - 1]
      BY <2>4, <2>5, <3>3
    <3>5. ASSUME NEW j \in (v + 1)..k PROVE ~trimmed[j].open
      <4>1. j \in (h + 1)..(h + (m - n + 1)) /\ c + (j - h) - 1 \in (u + 1)..(c + (k - h) - 1)
        BY <3>1, <3>2, <3>3, <3>5
      <4>2. QED
        BY <2>4, <2>5, <4>1 DEF IsUnder
    <3>6. IsUnder(trimmed, k, v)
      BY <2>5, <3>3, <3>4, <3>5 DEF IsUnder
    <3>7. QED
      BY <2>5, <3>3, <3>4, <3>6
  \* The line that is kept of its site.
  <2>6. ASSUME h = 1
        PROVE  /\ trimmed[1].open /\ trimmed[1].of = ls[site].of /\ site # 0
               /\ \A k \in 1..n : ~rest[k].open
    <3>1. head # <<>>
      <4>1. Len(head) = 1 /\ Len(<<>>) = 0
        BY <1>23, <2>6
      <4>2. QED
        BY <4>1
    <3>2. head = <<Lg!Kept(ls[site])>> /\ ~rest[n].open /\ site # 0
      BY <1>17, <3>1
    <3>3. trimmed[1] = head[1]
      BY <1>24, <2>6
    <3>4. QED
      BY <1>8, <1>12, <1>19, <3>2, <3>3
  <2>7. ASSUME NEW e \in c..N, NEW u \in 1..e, IsUnder(ls, e, u), ~(u \in c..N)
        PROVE  h = 1 /\ u = site
    <3>1. u \in 1..(c - 1) /\ u < c
      <4>1. u \in 1..e /\ e \in c..N /\ ~(u \in c..N)
        BY <2>7
      <4>2. QED
        BY <1>2, <2>3, <4>1
    <3>2. c \in (u + 1)..e
      BY <2>3, <2>7, <3>1
    <3>3. ~ls[c].open
      BY <2>7, <3>2 DEF IsUnder
    <3>4. rest[n] = ls[c]
      BY <1>6, <1>13, <1>14, <2>2
    <3>5. \A k \in 1..n : ~rest[k].open
      BY <1>8, <1>12, <3>3, <3>4
    <3>6. u \in 1..d
      <4>1. SUFFICES ASSUME u \in (d + 1)..(c - 1) PROVE FALSE
        BY <1>4, <2>3, <3>1
      <4>2. u - d \in 1..n /\ u - d \in 1..m /\ d + (u - d) = u
        BY <1>4, <1>14, <2>3, <4>1
      <4>3. rest[u - d] = ls[u]
        BY <1>6, <1>13, <4>2
      <4>4. QED
        BY <2>7, <3>5, <4>2, <4>3 DEF IsUnder
    <3>7. \A k \in (u + 1)..d : k \in (u + 1)..e
      BY <1>4, <2>3, <2>7
    <3>8. IsUnder(ls, d, u)
      BY <2>7, <3>6, <3>7 DEF IsUnder
    <3>9. site = u /\ site # 0
      BY <1>10, <3>6, <3>8
    <3>10. head = <<Lg!Kept(ls[site])>>
      BY <1>17, <3>3, <3>4, <3>9
    <3>11. QED
      BY <1>23, <3>9, <3>10
  <2>8. CASE i \in (h + 1)..(h + (m - n + 1))
    <3>1. PICK e : e = c + (i - h) - 1
      OBVIOUS
    <3>2. e \in c..N /\ trimmed[i] = ls[e] /\ e \in 1..N
      BY <2>3, <2>4, <2>8, <3>1
    <3>3. PICK u \in 1..e : IsUnder(ls, e, u) /\ ls[u].of = ls[e].of
      BY <1>1, <1>27, <3>2 DEF Ordered
    <3>4. CASE u \in c..N
      BY <2>5, <2>8, <3>1, <3>3, <3>4
    <3>5. CASE ~(u \in c..N)
      <4>1. h = 1 /\ u = site
        BY <2>7, <3>2, <3>3, <3>5
      <4>2. trimmed[1].open /\ trimmed[1].of = trimmed[i].of
        BY <2>6, <3>2, <3>3, <4>1
      <4>3. ASSUME NEW j \in (1 + 1)..i PROVE ~trimmed[j].open
        <5>1. j \in (h + 1)..(h + (m - n + 1))
          BY <1>14, <2>1, <2>8, <4>1, <4>3
        <5>2. trimmed[j] = ls[c + (j - h) - 1] /\ c + (j - h) - 1 \in c..N
          BY <2>4, <5>1
        <5>3. c + (j - h) - 1 \in (u + 1)..e
          <6>1. u \in 1..e /\ ~(u \in c..N) /\ e \in c..N /\ j \in 2..i
            BY <3>2, <3>3, <3>5, <4>3
          <6>2. u < c
            BY <1>2, <2>3, <6>1
          <6>3. QED
            BY <1>14, <2>1, <2>3, <3>1, <4>1, <5>1, <6>1, <6>2
        <5>4. QED
          BY <3>3, <5>2, <5>3 DEF IsUnder
      <4>4. 1 \in 1..i
        BY <2>8, <4>1
      <4>5. IsUnder(trimmed, i, 1)
        BY <4>2, <4>3, <4>4 DEF IsUnder
      <4>6. QED
        BY <4>2, <4>4, <4>5
    <3>6. QED
      BY <3>4, <3>5
  <2>9. CASE ~(i \in (h + 1)..(h + (m - n + 1)))
    <3>1. h = 1 /\ i = 1
      BY <1>14, <2>9
    <3>2. trimmed[1].open /\ 1 \in 1..i /\ (1 + 1)..i = {}
      BY <2>6, <3>1
    <3>3. IsUnder(trimmed, i, 1)
      BY <3>2 DEF IsUnder
    <3>4. QED
      BY <3>1, <3>2, <3>3
  <2>10. QED
    BY <2>8, <2>9
<1>28. QED
  BY <1>22, <1>24, <1>25, <1>26, <1>27 DEF Lg!LogLines

LEMMA LogThere == ASSUME NEW ls PROVE Lg!LogOf(ls) # Lg!Missing /\ Lg!LogOf(ls).lines = ls
<1>1. Lg!LogOf(ls).is = "log" /\ Lg!Missing.is = "none"
  BY DEF Lg!LogOf, Lg!Missing
<1>2. QED
  BY <1>1 DEF Lg!LogOf

LEMMA ContentTyped == ASSUME Lg!LgInv PROVE Lg!Content \in Lg!LogLines /\ (~v4 => Ordered(Lg!Content))
<1>1. CASE v1 = Lg!Missing
  <2>1. <<>> \in Lg!LogLines /\ Len(<<>>) = 0
    BY DEF Lg!LogLines
  <2>2. Ordered(<<>>)
    BY <2>1 DEF Ordered
  <2>3. QED
    BY <1>1, <2>1, <2>2 DEF Lg!Content
<1>2. CASE v1 # Lg!Missing
  <2>1. v1.lines \in Lg!LogLines /\ (~v4 => Lg!InOrder(v1.lines))
    BY <1>2 DEF Lg!LgInv, Lg!LgTypes, Lg!Attributed
  <2>2. QED
    BY <1>2, <2>1, OrderedIs DEF Lg!Content
<1>3. QED
  BY <1>1, <1>2

LEMMA LineTyped ==
    ASSUME NEW h \in LogHosts
    PROVE  /\ Lg!Opened(h) \in [open : BOOLEAN, of : LogHosts, purged : BOOLEAN] /\ Lg!Opened(h).open /\ Lg!Opened(h).of = h
           /\ Lg!Moved(h) \in [open : BOOLEAN, of : LogHosts, purged : BOOLEAN] /\ Lg!Moved(h).of = h
  BY DEF Lg!Opened, Lg!Moved

(* What a session becomes.                                                 *)
Becomes(s, r) ==
  /\ DOMAIN v3' = Loggers /\ v3'[s] = r /\ \A t \in Loggers \ {s} : v3'[t] = v3[t]
  /\ \A t \in Loggers :
       /\ v3'[t].pc \in {"out", "on", "remove", "rename"}
       /\ v3'[t] = [pc |-> v3'[t].pc, host |-> v3'[t].host, last |-> v3'[t].last]
       /\ v3'[t].pc = "on" => v3'[t].host \in LogHosts

LEMMA SessionTyped ==
    ASSUME Lg!LgTypes, NEW s \in Loggers, NEW pc \in {"out", "on", "remove", "rename"}, NEW host, NEW last,
           pc = "on" => host \in LogHosts, v3' = [v3 EXCEPT ![s] = [pc |-> pc, host |-> host, last |-> last]]
    PROVE  Becomes(s, [pc |-> pc, host |-> host, last |-> last])
<1>1. PICK r : r = [pc |-> pc, host |-> host, last |-> last]
  OBVIOUS
<1>2. r.pc = pc /\ r.host = host /\ r = [pc |-> r.pc, host |-> r.host, last |-> r.last]
  BY <1>1
<1>3. DOMAIN v3 = Loggers
  BY DEF Lg!LgTypes
<1>4. DOMAIN v3' = Loggers /\ v3'[s] = r /\ \A t \in Loggers \ {s} : v3'[t] = v3[t]
  BY <1>1, <1>3
<1>5. Becomes(s, r)
  BY <1>2, <1>4 DEF Lg!LgTypes, Becomes
<1>6. QED
  BY <1>1, <1>5

LEMMA IdleIs == Lg!Idle.pc = "out" /\ Lg!Idle = [pc |-> Lg!Idle.pc, host |-> Lg!Idle.host, last |-> Lg!Idle.last]
  BY DEF Lg!Idle

(* When the sessions take turns, who has begun is on its own.              *)
LEMMA OtherOut ==
    ASSUME Lg!LgInv, ~v4, NEW s \in Loggers, v3[s].pc # "out"
    PROVE  \A o \in Loggers \ {s} : v3[o].pc = "out"
  BY DEF Lg!LgInv, Lg!Alone

(* What follows from the rest of the invariant when one session, s, moves  *)
(* and the others are out.                                                 *)
LEMMA OneMoves ==
    ASSUME Lg!LgTypes', Lg!Attributed', NEW s \in Loggers, \A o \in Loggers \ {s} : v3'[o].pc = "out",
           v3'[s].pc = "on" => /\ v1' # Lg!Missing /\ Lg!LastSite(v1'.lines) # 0
                               /\ v1'.lines[Lg!LastSite(v1'.lines)].of = v3'[s].host,
           v3'[s].pc \in {"remove", "rename"} =>
             /\ v2' # Lg!Missing /\ Lg!InOrder(v2'.lines) /\ Lg!Size(v2'.lines) < MaxLogSize
             /\ v2'.lines # <<>> /\ Lg!Last(v2'.lines) = v3'[s].last
    PROVE  Lg!LgInv'
<1>1. Lg!Alone'
  BY DEF Lg!Alone
<1>2. Lg!OnTop'
  <2>1. ASSUME NEW t \in Loggers, v3'[t].pc = "on"
        PROVE  /\ v1' # Lg!Missing /\ Lg!LastSite(v1'.lines) # 0
               /\ v1'.lines[Lg!LastSite(v1'.lines)].of = v3'[t].host
    <3>1. t = s
      BY <2>1
    <3>2. QED
      BY <2>1, <3>1
  <2>2. QED
    BY <2>1 DEF Lg!OnTop
<1>3. Lg!CutHeld'
  <2>1. ASSUME NEW t \in Loggers, v3'[t].pc \in {"remove", "rename"}
        PROVE  /\ v2' # Lg!Missing /\ Lg!InOrder(v2'.lines) /\ Lg!Size(v2'.lines) < MaxLogSize
               /\ v2'.lines # <<>> /\ Lg!Last(v2'.lines) = v3'[t].last
    <3>1. t = s
      BY <2>1
    <3>2. QED
      BY <2>1, <3>1
  <2>2. QED
    BY <2>1 DEF Lg!CutHeld
<1>4. QED
  BY <1>1, <1>2, <1>3 DEF Lg!LgInv

LEMMA LogStarts == ASSUME Lg!LgInit PROVE Lg!LgInv
<1>1. v1 = Lg!Missing \/ (v1.lines \in Lg!LogLines /\ v1 = Lg!LogOf(v1.lines) /\ Lg!InOrder(v1.lines))
  BY TransferLogAssumption DEF Lg!LgInit, Lg!LgAssumption
<1>2. \A s \in Loggers : v3[s] = Lg!Idle
  BY DEF Lg!LgInit
<1>3. Lg!LgTypes
  BY <1>1, <1>2, IdleIs DEF Lg!LgInit, Lg!LgTypes
<1>4. QED
  BY <1>1, <1>2, <1>3, IdleIs DEF Lg!LgInv, Lg!LgInit, Lg!Attributed, Lg!Alone, Lg!OnTop, Lg!CutHeld

LEMMA LogStutter == ASSUME Lg!LgInv, UNCHANGED <<v1, v2, v3, v4, v5, v6, v7>> PROVE Lg!LgInv'
<1>1. Lg!LgTypes'
  BY DEF Lg!LgInv, Lg!LgTypes
<1>2. Lg!Attributed'
  BY DEF Lg!LgInv, Lg!Attributed
<1>3. ~v4 => Lg!Alone' /\ Lg!OnTop'
  BY DEF Lg!LgInv, Lg!Alone, Lg!OnTop
<1>4. ~v4 => Lg!CutHeld'
  BY DEF Lg!LgInv, Lg!CutHeld
<1>5. QED
  BY <1>1, <1>2, <1>3, <1>4 DEF Lg!LgInv

LEMMA LogOpenStep == ASSUME Lg!LgInv, NEW s \in Loggers, Lg!LogOpen(s) PROVE Lg!LgInv'
<1>0. Lg!LgTypes
  BY DEF Lg!LgInv
<1>1. PICK h \in LogHosts :
         /\ v1' = Lg!Appended(Lg!Opened(h))
         /\ v3' = [v3 EXCEPT ![s] = [Lg!Idle EXCEPT !.pc = "on", !.host = h]]
  BY DEF Lg!LogOpen
<1>2. PICK ls : ls = Append(Lg!Content, Lg!Opened(h))
  OBVIOUS
<1>3. PICK c : c = Lg!Content
  OBVIOUS
<1>4. c \in Lg!LogLines /\ (~v4 => Ordered(c)) /\ ls = Append(c, Lg!Opened(h))
  BY <1>2, <1>3, ContentTyped
<1>5. ls \in Lg!LogLines
  BY <1>1, <1>4, LineTyped, AppendProperties DEF Lg!LogLines
<1>6. ~v4 => Ordered(ls) /\ Lg!LastSite(ls) # 0 /\ ls[Lg!LastSite(ls)].of = h
  BY <1>1, <1>4, LineTyped, Appending
<1>7. v1' = Lg!LogOf(ls) /\ v1' # Lg!Missing /\ v1'.lines = ls
  BY <1>1, <1>2, LogThere DEF Lg!Appended
<1>8. PICK r : r = [pc |-> "on", host |-> h, last |-> Lg!Idle.last]
  OBVIOUS
<1>9. r.pc = "on" /\ r.host = h
  BY <1>8
<1>10. Becomes(s, r)
  <2>1. [Lg!Idle EXCEPT !.pc = "on", !.host = h] = [pc |-> "on", host |-> h, last |-> Lg!Idle.last]
    <3>1. PICK l : l = Lg!Opened("none")
      OBVIOUS
    <3>2. Lg!Idle = [pc |-> "out", host |-> "none", last |-> l]
      BY <3>1 DEF Lg!Idle
    <3>3. PICK i : i = Lg!Idle
      OBVIOUS
    <3>4. i \in [pc : {"out", "on"}, host : {"none", h}, last : {l}] /\ i.last = l
      BY <3>2, <3>3
    <3>5. PICK j : j = [i EXCEPT !.pc = "on", !.host = h]
      OBVIOUS
    <3>6. j \in [pc : {"out", "on"}, host : {"none", h}, last : {l}] /\ j.pc = "on" /\ j.host = h /\ j.last = l
      BY <3>4, <3>5
    <3>7. j = [pc |-> "on", host |-> h, last |-> l]
      BY <3>6
    <3>8. QED
      BY <3>3, <3>4, <3>5, <3>7
  <2>2. v3' = [v3 EXCEPT ![s] = [pc |-> "on", host |-> h, last |-> Lg!Idle.last]]
    BY <1>1, <2>1
  <2>3. QED
    BY <1>0, <1>1, <1>8, <2>2, SessionTyped
<1>11. Lg!LgTypes'
  BY <1>5, <1>7, <1>10 DEF Lg!LogOpen, Lg!LgInv, Lg!LgTypes, Becomes
<1>12. Lg!Attributed'
  BY <1>5, <1>6, <1>7, OrderedIs DEF Lg!Attributed, Lg!LogOpen
<1>13. CASE v4'
  BY <1>11, <1>12, <1>13 DEF Lg!LgInv
<1>14. CASE ~v4'
  <2>1. ~v4 /\ \A o \in Loggers \ {s} : v3'[o].pc = "out"
    BY <1>10, <1>14 DEF Lg!LogOpen, Lg!Others, Becomes
  <2>2. QED
    BY <1>6, <1>7, <1>9, <1>10, <1>11, <1>12, <2>1, OneMoves DEF Becomes
<1>15. QED
  BY <1>13, <1>14

LEMMA LogXferStep == ASSUME Lg!LgInv, NEW s \in Loggers, Lg!LogXfer(s) PROVE Lg!LgInv'
<1>0. Lg!LgTypes /\ v3[s].pc = "on" /\ v3' = v3 /\ v4' = v4
  BY DEF Lg!LgInv, Lg!LogXfer
<1>1. PICK h \in LogHosts : h = v3[s].host
  BY <1>0 DEF Lg!LgTypes
<1>2. PICK c : c = Lg!Content
  OBVIOUS
<1>3. PICK ls : ls = Append(c, Lg!Moved(h))
  OBVIOUS
<1>4. c \in Lg!LogLines /\ (~v4 => Ordered(c))
  BY <1>2, ContentTyped
<1>5. ls \in Lg!LogLines
  BY <1>1, <1>3, <1>4, LineTyped, AppendProperties DEF Lg!LogLines
<1>6. ~v4 => Ordered(ls) /\ Lg!LastSite(ls) # 0 /\ ls[Lg!LastSite(ls)].of = h
  <2>1. SUFFICES ASSUME ~v4 PROVE Ordered(ls) /\ Lg!LastSite(ls) # 0 /\ ls[Lg!LastSite(ls)].of = h
    OBVIOUS
  <2>2. c = v1.lines /\ Lg!LastSite(c) # 0 /\ c[Lg!LastSite(c)].of = h
    BY <1>0, <1>1, <1>2, <2>1 DEF Lg!LgInv, Lg!OnTop, Lg!Content
  <2>3. PICK l \in [open : BOOLEAN, of : LogHosts, purged : BOOLEAN] : l = Lg!Moved(h) /\ l.of = h
    BY <1>1, LineTyped
  <2>4. QED
    BY <1>3, <1>4, <2>1, <2>2, <2>3, Appending
<1>7. v1' = Lg!LogOf(ls) /\ v1' # Lg!Missing /\ v1'.lines = ls
  BY <1>1, <1>2, <1>3, LogThere DEF Lg!Appended, Lg!LogXfer
<1>8. Lg!LgTypes'
  BY <1>0, <1>5, <1>7 DEF Lg!LogXfer, Lg!LgTypes
<1>9. Lg!Attributed'
  BY <1>0, <1>5, <1>6, <1>7, OrderedIs DEF Lg!Attributed
<1>10. CASE v4'
  BY <1>8, <1>9, <1>10 DEF Lg!LgInv
<1>11. CASE ~v4'
  <2>1. ~v4 /\ \A o \in Loggers \ {s} : v3'[o].pc = "out"
    BY <1>0, <1>11, OtherOut
  <2>2. QED
    BY <1>0, <1>1, <1>6, <1>7, <1>8, <1>9, <2>1, OneMoves
<1>12. QED
  BY <1>10, <1>11

(* A session that becomes idle.                                            *)
LEMMA BackOut ==
    ASSUME Lg!LgTypes, NEW s \in Loggers, v3' = [v3 EXCEPT ![s] = Lg!Idle]
    PROVE  Becomes(s, Lg!Idle) /\ v3'[s].pc = "out"
<1>1. PICK l : l = Lg!Opened("none")
  OBVIOUS
<1>2. Lg!Idle = [pc |-> "out", host |-> "none", last |-> l]
  BY <1>1 DEF Lg!Idle
<1>3. Becomes(s, [pc |-> "out", host |-> "none", last |-> l])
  BY <1>2, SessionTyped
<1>4. QED
  BY <1>2, <1>3 DEF Becomes

LEMMA EndLogStep == ASSUME Lg!LgInv, NEW s \in Loggers, Lg!EndLog(s) PROVE Lg!LgInv'
<1>0. Lg!LgTypes /\ (v4 \/ \E o \in Lg!Others(s) : v3[o].pc # "out") \in BOOLEAN
  BY DEF Lg!LgInv
<1>1. CASE Lg!TooBig /\ Lg!Trimmed(v1.lines) # <<>>
  <2>1. /\ v2' = Lg!LogOf(Lg!Trimmed(v1.lines)) /\ v1' = v1
        /\ v3' = [v3 EXCEPT ![s] = [pc |-> "remove", host |-> "none", last |-> Lg!Last(v1.lines)]]
        /\ v4' = (v4 \/ \E o \in Lg!Others(s) : v3[o].pc # "out")
        /\ v5' = v5 /\ v6' = v6 /\ v7' \in Nat
    BY <1>0, <1>1 DEF Lg!EndLog, Lg!LgTypes
  <2>2. PICK ls : ls = v1.lines
    OBVIOUS
  <2>3. ls \in Lg!LogLines /\ v1 # Lg!Missing /\ Lg!Size(ls) >= MaxLogSize /\ Lg!Trimmed(ls) # <<>>
    BY <1>0, <1>1, <2>2 DEF Lg!TooBig, Lg!LgTypes, Lg!Content
  <2>4. PICK ts : ts = Lg!Trimmed(ls)
    OBVIOUS
  <2>5. ts \in Lg!LogLines /\ Lg!Size(ts) < MaxLogSize /\ Lg!Last(ts) = Lg!Last(ls) /\ (Ordered(ls) => Ordered(ts)) /\ ts # <<>>
    BY <2>3, <2>4, Trimming
  <2>6. v2' = Lg!LogOf(ts) /\ v2' # Lg!Missing /\ v2'.lines = ts
    BY <2>1, <2>2, <2>4, LogThere
  <2>7. Becomes(s, [pc |-> "remove", host |-> "none", last |-> Lg!Last(ls)])
    BY <1>0, <2>1, <2>2, SessionTyped
  <2>8. v3'[s].pc = "remove" /\ v3'[s].last = Lg!Last(ls)
    BY <2>7 DEF Becomes
  <2>9. Lg!LgTypes'
    BY <1>0, <2>1, <2>5, <2>6, <2>7 DEF Lg!LgTypes, Becomes
  <2>10. Lg!Attributed'
    BY <2>1 DEF Lg!LgInv, Lg!Attributed
  <2>11. CASE v4'
    BY <2>9, <2>10, <2>11 DEF Lg!LgInv
  <2>12. CASE ~v4'
    <3>1. ~v4 /\ \A o \in Loggers \ {s} : v3'[o].pc = "out"
      BY <2>1, <2>7, <2>12 DEF Becomes, Lg!Others
    <3>2. Lg!InOrder(ls)
      BY <2>2, <2>3, <3>1 DEF Lg!LgInv, Lg!Attributed
    <3>3. Lg!InOrder(ts)
      BY <2>3, <2>5, <3>2, OrderedIs
    <3>4. QED
      BY <2>5, <2>6, <2>8, <2>9, <2>10, <3>1, <3>3, OneMoves
  <2>13. QED
    BY <2>11, <2>12
<1>2. CASE ~(Lg!TooBig /\ Lg!Trimmed(v1.lines) # <<>>)
  <2>1. /\ v1' = (IF Lg!TooBig THEN Lg!Missing ELSE v1) /\ v2' = v2
        /\ v3' = [v3 EXCEPT ![s] = Lg!Idle]
        /\ v4' = (v4 \/ (Lg!TooBig /\ \E o \in Lg!Others(s) : v3[o].pc # "out"))
        /\ v5' = v5 /\ v6' = v6 /\ v7' \in Nat
    BY <1>0, <1>2 DEF Lg!EndLog, Lg!LgTypes
  <2>2. Becomes(s, Lg!Idle) /\ v3'[s].pc = "out"
    BY <1>0, <2>1, BackOut
  <2>3. Lg!LgTypes'
    BY <1>0, <2>1, <2>2 DEF Lg!LgTypes, Becomes
  <2>4. Lg!Attributed'
    BY <2>1 DEF Lg!LgInv, Lg!Attributed
  <2>5. CASE v4'
    BY <2>3, <2>4, <2>5 DEF Lg!LgInv
  <2>6. CASE ~v4' /\ Lg!TooBig
    <3>1. \A o \in Loggers \ {s} : v3'[o].pc = "out"
      BY <2>1, <2>2, <2>6 DEF Becomes, Lg!Others
    <3>2. QED
      BY <2>2, <2>3, <2>4, <3>1, OneMoves
  <2>7. CASE ~v4' /\ ~Lg!TooBig
    <3>1. ~v4 /\ v1' = v1 /\ v2' = v2 /\ \A t \in Loggers : v3'[t] = v3[t] \/ v3'[t].pc = "out"
      BY <2>1, <2>2, <2>7 DEF Becomes
    <3>2. Lg!Alone' /\ Lg!OnTop'
      BY <3>1 DEF Lg!LgInv, Lg!Alone, Lg!OnTop
    <3>3. Lg!CutHeld'
      BY <3>1 DEF Lg!LgInv, Lg!CutHeld
    <3>4. QED
      BY <2>3, <2>4, <3>2, <3>3 DEF Lg!LgInv
  <2>8. QED
    BY <2>5, <2>6, <2>7
<1>3. QED
  BY <1>1, <1>2

LEMMA RemoveLogStep == ASSUME Lg!LgInv, NEW s \in Loggers, Lg!RemoveLog(s) PROVE Lg!LgInv'
<1>0. Lg!LgTypes /\ v3[s].pc = "remove" /\ v1' = Lg!Missing
      /\ v2' = v2 /\ v4' = v4 /\ v5' = v5 /\ v6' = v6 /\ v7' = v7
  BY DEF Lg!LgInv, Lg!RemoveLog
<1>1. /\ Becomes(s, Lg!Idle) /\ v3'[s].pc = "out"
      \/ /\ \A t \in Loggers \ {s} : v3'[t] = v3[t]
         /\ DOMAIN v3' = Loggers /\ v3'[s].pc = "rename" /\ v3'[s].last = v3[s].last
         /\ Becomes(s, v3'[s])
  <2>1. CASE v1 = Lg!Missing
    <3>1. v3' = [v3 EXCEPT ![s] = Lg!Idle]
      BY <2>1 DEF Lg!RemoveLog
    <3>2. QED
      BY <1>0, <3>1, BackOut
  <2>2. CASE v1 # Lg!Missing
    <3>1. PICK h, l : v3[s] = [pc |-> "remove", host |-> h, last |-> l]
      BY <1>0 DEF Lg!LgTypes
    <3>2. [v3[s] EXCEPT !.pc = "rename"] = [pc |-> "rename", host |-> h, last |-> l]
      BY <3>1
    <3>3. v3' = [v3 EXCEPT ![s] = [pc |-> "rename", host |-> h, last |-> l]]
      BY <2>2, <3>2 DEF Lg!RemoveLog
    <3>4. Becomes(s, [pc |-> "rename", host |-> h, last |-> l])
      BY <1>0, <3>3, SessionTyped
    <3>5. v3'[s] = [pc |-> "rename", host |-> h, last |-> l]
      BY <3>4 DEF Becomes
    <3>6. QED
      BY <3>1, <3>4, <3>5 DEF Becomes
  <2>3. QED
    BY <2>1, <2>2
<1>2. Lg!LgTypes'
  BY <1>0, <1>1 DEF Lg!LgTypes, Becomes
<1>3. Lg!Attributed'
  BY <1>0 DEF Lg!Attributed
<1>4. CASE v4'
  BY <1>2, <1>3, <1>4 DEF Lg!LgInv
<1>5. CASE ~v4'
  <2>1. ~v4 /\ \A o \in Loggers \ {s} : v3'[o].pc = "out"
    BY <1>0, <1>1, <1>5, OtherOut DEF Becomes
  <2>2. /\ v2 # Lg!Missing /\ Lg!InOrder(v2.lines) /\ Lg!Size(v2.lines) < MaxLogSize
        /\ v2.lines # <<>> /\ Lg!Last(v2.lines) = v3[s].last
    BY <1>0, <2>1 DEF Lg!LgInv, Lg!CutHeld
  <2>3. QED
    BY <1>0, <1>1, <1>2, <1>3, <2>1, <2>2, OneMoves
<1>6. QED
  BY <1>4, <1>5

LEMMA RenameCopyStep == ASSUME Lg!LgInv, NEW s \in Loggers, Lg!RenameCopy(s) PROVE Lg!LgInv'
<1>0. Lg!LgTypes /\ v3[s].pc = "rename" /\ v3' = [v3 EXCEPT ![s] = Lg!Idle]
      /\ v4' = v4 /\ v5' = v5 /\ v6' = v6 /\ v7' = v7
      /\ (IF v2 = Lg!Missing THEN v1' = v1 /\ v2' = v2 ELSE v1' = v2 /\ v2' = Lg!Missing)
  BY DEF Lg!LgInv, Lg!RenameCopy
<1>1. Becomes(s, Lg!Idle) /\ v3'[s].pc = "out"
  BY <1>0, BackOut
<1>2. Lg!LgTypes'
  BY <1>0, <1>1 DEF Lg!LgTypes, Becomes
<1>3. CASE v4'
  BY <1>2, <1>3 DEF Lg!LgInv, Lg!Attributed
<1>4. CASE ~v4'
  <2>1. ~v4 /\ \A o \in Loggers \ {s} : v3'[o].pc = "out"
    BY <1>0, <1>1, <1>4, OtherOut DEF Becomes
  <2>2. v2 # Lg!Missing /\ Lg!InOrder(v2.lines)
    BY <1>0, <2>1 DEF Lg!LgInv, Lg!CutHeld
  <2>3. Lg!Attributed'
    BY <1>0, <2>2 DEF Lg!Attributed
  <2>4. QED
    BY <1>1, <1>2, <2>1, <2>3, OneMoves
<1>5. QED
  BY <1>3, <1>4

LEMMA LogDieStep == ASSUME Lg!LgInv, NEW s \in Loggers, Lg!Die(s) PROVE Lg!LgInv'
<1>0. Lg!LgTypes /\ v3' = [v3 EXCEPT ![s] = Lg!Idle]
      /\ v1' = v1 /\ v2' = v2 /\ v4' = v4 /\ v6' = v6 /\ v7' = v7 + 1
      /\ v5' = (v5 \/ v3[s].pc = "rename")
  BY DEF Lg!LgInv, Lg!Die
<1>1. Becomes(s, Lg!Idle) /\ v3'[s].pc = "out"
  BY <1>0, BackOut
<1>2. Lg!LgTypes'
  BY <1>0, <1>1 DEF Lg!LgTypes, Becomes
<1>3. Lg!Attributed'
  BY <1>0 DEF Lg!LgInv, Lg!Attributed
<1>4. \A t \in Loggers : v3'[t] = v3[t] \/ v3'[t].pc = "out"
  BY <1>1 DEF Becomes
<1>5. ~v4 => Lg!Alone' /\ Lg!OnTop'
  BY <1>0, <1>4 DEF Lg!LgInv, Lg!Alone, Lg!OnTop
<1>6. ~v4 => Lg!CutHeld'
  BY <1>0, <1>4 DEF Lg!LgInv, Lg!CutHeld
<1>7. QED
  BY <1>0, <1>2, <1>3, <1>5, <1>6 DEF Lg!LgInv

LEMMA LogStep == ASSUME Lg!LgInv, Lg!LgNext PROVE Lg!LgInv'
<1>1. PICK s \in Loggers :
        Lg!LogOpen(s) \/ Lg!LogXfer(s) \/ Lg!EndLog(s) \/ Lg!RemoveLog(s) \/ Lg!RenameCopy(s) \/ Lg!Die(s)
  BY DEF Lg!LgNext
<1>2. QED
  BY <1>1, LogOpenStep, LogXferStep, EndLogStep, RemoveLogStep, RenameCopyStep, LogDieStep

LEMMA LogCutsWell == ASSUME Lg!LgInv, Lg!LgNext PROVE Lg!CutsWell
<1>1. SUFFICES ASSUME NEW s \in Loggers, v3[s].pc = "rename", v3'[s].pc = "out", ~v4, ~v5, ~v5'
               PROVE  /\ v1' # Lg!Missing /\ Lg!Size(v1'.lines) < MaxLogSize
                      /\ Lg!Last(v1'.lines) = v3[s].last
  BY DEF Lg!CutsWell, Lg!Cuts
<1>2. PICK t \in Loggers :
        Lg!LogOpen(t) \/ Lg!LogXfer(t) \/ Lg!EndLog(t) \/ Lg!RemoveLog(t) \/ Lg!RenameCopy(t) \/ Lg!Die(t)
  BY DEF Lg!LgNext
<1>3. \A o \in Loggers \ {s} : v3[o].pc = "out"
  BY <1>1, OtherOut
<1>4. DOMAIN v3 = Loggers
  BY DEF Lg!LgInv, Lg!LgTypes
<1>5. t = s
  <2>1. SUFFICES ASSUME t # s PROVE v3'[s] = v3[s]
    BY <1>1
  <2>2. QED
    BY <1>2, <1>4, <2>1 DEF Lg!LogOpen, Lg!LogXfer, Lg!EndLog, Lg!RemoveLog, Lg!RenameCopy, Lg!Die
<1>6. Lg!RenameCopy(s)
  <2>1. ~Lg!Die(s)
    BY <1>1 DEF Lg!Die
  <2>2. ~Lg!LogOpen(s) /\ ~Lg!LogXfer(s) /\ ~Lg!EndLog(s) /\ ~Lg!RemoveLog(s)
    BY <1>1 DEF Lg!LogOpen, Lg!LogXfer, Lg!EndLog, Lg!RemoveLog
  <2>3. QED
    BY <1>2, <1>5, <2>1, <2>2
<1>7. /\ v2 # Lg!Missing /\ Lg!Size(v2.lines) < MaxLogSize /\ Lg!Last(v2.lines) = v3[s].last
  BY <1>1 DEF Lg!LgInv, Lg!CutHeld
<1>8. v1' = v2
  BY <1>6, <1>7 DEF Lg!RenameCopy
<1>9. QED
  BY <1>7, <1>8
-----------------------------------------------------------------------------
(***************************************************************************)
(* A line of the bookmarks.                                                *)
(***************************************************************************)
Literals == {"\\", ",", "$", "^", "0", "F", "?", "Y"}
States(C) == [fields : Seq(Seq(C)), token : Seq(C), held : Seq(C)]

LEMMA PutTyped ==
    ASSUME NEW C, NEW t \in States(C), NEW chars \in Seq(C)
    PROVE  Bl!Put(t, chars) \in States(C)
<1>1. t.token \o chars \in Seq(C)
  BY DEF States
<1>2. PICK u : u = t.token \o chars
  OBVIOUS
<1>3. [t EXCEPT !.token = u] \in States(C)
  BY <1>1, <1>2 DEF States
<1>4. [t EXCEPT !.token = @ \o chars] = [t EXCEPT !.token = u]
  BY <1>2
<1>5. QED
  BY <1>3, <1>4 DEF Bl!Put

LEMMA Unlike ==
    /\ Len(<<>>) = 0 /\ \A a : Len(<<a>>) = 1 /\ <<a>>[1] = a
    /\ \A a, b : <<a>> # <<>> /\ <<a, b>> # <<>> /\ Len(<<a, b>>) = 2 /\ <<a, b>>[2] = b
    /\ \A a, b, c : <<a, b>> # <<c>> /\ (a # b => <<a>> # <<b>>)
    /\ "," # "\\" /\ "," # "$" /\ "\\" # "$"
  OBVIOUS

(* The cases of a character.                                               *)
LEMMA TakeCases ==
    ASSUME NEW t, NEW c
    PROVE  /\ t.held = <<"\\">> => Bl!Take(t, c) = Bl!Put([t EXCEPT !.held = <<>>], <<c>>)
           /\ t.held = <<"$">> => Bl!Take(t, c) = [t EXCEPT !.held = <<"$", c>>]
           /\ t.held # <<"\\">> /\ t.held # <<"$">> /\ Len(t.held) = 2
              => Bl!Take(t, c) = Bl!Put([t EXCEPT !.held = <<>>], Bl!HexCharToNibble(<<t.held[2], c>>))
           /\ t.held = <<>> /\ c \in {"\\", "$"} => Bl!Take(t, c) = [t EXCEPT !.held = <<c>>]
           /\ t.held = <<>> /\ c = ","
              => Bl!Take(t, c) = [fields |-> Append(t.fields, t.token), token |-> <<>>, held |-> <<>>]
           /\ /\ t.held # <<"\\">> /\ t.held # <<"$">> /\ Len(t.held) # 2
              /\ ~(t.held = <<>> /\ c \in {"\\", "$"}) /\ ~(t.held = <<>> /\ c = ",")
              => Bl!Take(t, c) = Bl!Put(t, <<c>>)
<1>1. ASSUME t.held = <<"\\">> PROVE Bl!Take(t, c) = Bl!Put([t EXCEPT !.held = <<>>], <<c>>)
  BY <1>1 DEF Bl!Take
<1>2. ASSUME t.held = <<"$">> PROVE Bl!Take(t, c) = [t EXCEPT !.held = <<"$", c>>]
  <2>1. t.held # <<"\\">>
    BY <1>2, Unlike
  <2>2. QED
    BY <1>2, <2>1 DEF Bl!Take
<1>3. ASSUME t.held # <<"\\">>, t.held # <<"$">>, Len(t.held) = 2
      PROVE  Bl!Take(t, c) = Bl!Put([t EXCEPT !.held = <<>>], Bl!HexCharToNibble(<<t.held[2], c>>))
  <2>1. PICK h : h = <<>>
    OBVIOUS
  <2>2. Len(h) = 0
    BY <2>1
  <2>3. t.held # h
    BY <1>3, <2>2
  <2>4. QED
    BY <1>3, <2>1, <2>3 DEF Bl!Take
<1>4. t.held = <<>> => t.held # <<"\\">> /\ t.held # <<"$">> /\ Len(t.held) # 2
  <2>1. SUFFICES ASSUME t.held = <<>> PROVE t.held # <<"\\">> /\ t.held # <<"$">> /\ Len(t.held) # 2
    OBVIOUS
  <2>2. PICK a, b, h : a = <<"\\">> /\ b = <<"$">> /\ h = t.held
    OBVIOUS
  <2>3. Len(a) = 1 /\ Len(b) = 1 /\ Len(h) = 0
    BY <2>1, <2>2, Unlike
  <2>4. h # a /\ h # b /\ Len(h) # 2
    BY <2>3
  <2>5. QED
    BY <2>2, <2>4
<1>5. ASSUME t.held = <<>>, c \in {"\\", "$"} PROVE Bl!Take(t, c) = [t EXCEPT !.held = <<c>>]
  BY <1>4, <1>5 DEF Bl!Take
<1>6. ASSUME t.held = <<>>, c = ","
      PROVE  Bl!Take(t, c) = [fields |-> Append(t.fields, t.token), token |-> <<>>, held |-> <<>>]
  <2>1. c \notin {"\\", "$"}
    BY <1>6, Unlike
  <2>2. QED
    BY <1>4, <1>6, <2>1 DEF Bl!Take
<1>7. ASSUME t.held # <<"\\">>, t.held # <<"$">>, Len(t.held) # 2,
             ~(t.held = <<>> /\ c \in {"\\", "$"}), ~(t.held = <<>> /\ c = ",")
      PROVE  Bl!Take(t, c) = Bl!Put(t, <<c>>)
  BY <1>7 DEF Bl!Take
<1>8. QED
  BY <1>1, <1>2, <1>3, <1>4, <1>5, <1>6, <1>7

LEMMA TakeTyped ==
    ASSUME NEW C, Literals \subseteq C, NEW t \in States(C), NEW c \in C
    PROVE  Bl!Take(t, c) \in States(C)
<1>1. t.held \in Seq(C) /\ t.token \in Seq(C) /\ t.fields \in Seq(Seq(C)) /\ <<>> \in Seq(C) /\ <<c>> \in Seq(C)
  BY DEF States
<1>2. [t EXCEPT !.held = <<>>] \in States(C)
  BY <1>1 DEF States
<1>3. CASE t.held = <<"\\">>
  <2>1. Bl!Take(t, c) = Bl!Put([t EXCEPT !.held = <<>>], <<c>>)
    BY <1>3, TakeCases
  <2>2. QED
    BY <1>1, <1>2, <2>1, PutTyped
<1>4. CASE t.held = <<"$">>
  <2>1. <<"$", c>> \in Seq(C)
    <3>1. "$" \in C
      BY DEF Literals
    <3>2. QED
      BY <3>1
  <2>2. PICK h : h = <<"$", c>>
    OBVIOUS
  <2>3. [t EXCEPT !.held = h] \in States(C)
    BY <2>1, <2>2 DEF States
  <2>4. Bl!Take(t, c) = [t EXCEPT !.held = h]
    BY <1>4, <2>2, Unlike, TakeCases
  <2>5. QED
    BY <2>3, <2>4
<1>4a. CASE Len(t.held) = 2
  <2>1. Bl!HexCharToNibble(<<t.held[2], c>>) \in {<<"^">>, <<"Y">>, <<"?">>, <<>>}
    BY DEF Bl!HexCharToNibble
  <2>2. {<<"^">>, <<"Y">>, <<"?">>, <<>>} \subseteq Seq(C)
    <3>1. "^" \in C /\ "Y" \in C /\ "?" \in C
      BY DEF Literals
    <3>2. <<"^">> \in Seq(C) /\ <<"Y">> \in Seq(C) /\ <<"?">> \in Seq(C)
      BY <3>1
    <3>3. QED
      BY <1>1, <3>2
  <2>3. PICK x \in Seq(C) : x = Bl!HexCharToNibble(<<t.held[2], c>>)
    BY <2>1, <2>2
  <2>4. t.held # <<"\\">> /\ t.held # <<"$">>
    <3>1. PICK a, b : a = <<"\\">> /\ b = <<"$">>
      OBVIOUS
    <3>2. Len(a) = 1 /\ Len(b) = 1
      BY <3>1
    <3>3. t.held # a /\ t.held # b
      BY <1>4a, <3>2
    <3>4. QED
      BY <3>1, <3>3
  <2>5. Bl!Take(t, c) = Bl!Put([t EXCEPT !.held = <<>>], Bl!HexCharToNibble(<<t.held[2], c>>))
    BY <1>4a, <2>4, TakeCases
  <2>6. QED
    BY <1>2, <2>3, <2>5, PutTyped
<1>5. CASE t.held = <<>> /\ c \in {"\\", "$"}
  <2>1. [t EXCEPT !.held = <<c>>] \in States(C)
    BY <1>1 DEF States
  <2>2. Bl!Take(t, c) = [t EXCEPT !.held = <<c>>]
    BY <1>5, Unlike, TakeCases
  <2>3. QED
    BY <2>1, <2>2
<1>6. CASE t.held = <<>> /\ c = ","
  <2>1. Append(t.fields, t.token) \in Seq(Seq(C))
    BY <1>1
  <2>2. PICK f : f = Append(t.fields, t.token)
    OBVIOUS
  <2>3. [fields |-> f, token |-> <<>>, held |-> <<>>] \in States(C)
    BY <1>1, <2>1, <2>2 DEF States
  <2>4. Bl!Take(t, c) = [fields |-> f, token |-> <<>>, held |-> <<>>]
    BY <1>6, <2>2, Unlike, TakeCases
  <2>5. QED
    BY <2>3, <2>4
<1>7. CASE /\ t.held # <<"\\">> /\ t.held # <<"$">> /\ Len(t.held) # 2
           /\ ~(t.held = <<>> /\ c \in {"\\", "$"}) /\ ~(t.held = <<>> /\ c = ",")
  <2>1. Bl!Take(t, c) = Bl!Put(t, <<c>>)
    BY <1>7, TakeCases
  <2>2. QED
    BY <1>1, <2>1, PutTyped
<1>8. QED
  BY <1>3, <1>4, <1>4a, <1>5, <1>6, <1>7

(* What has been read after each character.                                *)
IsSeen(f, t, text) == f = [k \in 0..Len(text) |-> IF k = 0 THEN t ELSE Bl!Take(f[k - 1], text[k])]

LEMMA SeenOnce ==
    ASSUME NEW t, NEW text, NEW more, NEW f, NEW g, Len(text) \in Nat, Len(more) \in Nat, Len(text) <= Len(more),
           IsSeen(f, t, text), IsSeen(g, t, more), \A k \in 1..Len(text) : text[k] = more[k]
    PROVE  \A k \in 0..Len(text) : f[k] = g[k]
<1> DEFINE Q == {k \in Nat : k \in 0..Len(text) => f[k] = g[k]}
<1>1. 0 \in Q
  <2>1. 0 \in 0..Len(text) /\ 0 \in 0..Len(more)
    OBVIOUS
  <2>2. f[0] = t /\ g[0] = t
    BY <2>1 DEF IsSeen
  <2>3. QED
    BY <2>2
<1>2. ASSUME NEW k \in Nat, k \in Q PROVE k + 1 \in Q
  <2>1. SUFFICES ASSUME k + 1 \in 0..Len(text) PROVE f[k + 1] = g[k + 1]
    OBVIOUS
  <2>2. k \in 0..Len(text) /\ k + 1 \in 0..Len(more) /\ k + 1 # 0 /\ (k + 1) - 1 = k /\ k + 1 \in 1..Len(text)
    BY <2>1
  <2>3. f[k + 1] = Bl!Take(f[k], text[k + 1])
    BY <2>1, <2>2 DEF IsSeen
  <2>4. g[k + 1] = Bl!Take(g[k], more[k + 1])
    BY <2>2 DEF IsSeen
  <2>5. QED
    BY <1>2, <2>2, <2>3, <2>4
<1> HIDE DEF Q
<1>3. \A k \in Nat : k \in Q
  BY <1>1, <1>2, ByNat
<1>4. QED
  BY <1>3 DEF Q

LEMMA SeenIs ==
    ASSUME NEW C, Literals \subseteq C, NEW t \in States(C), NEW text \in Seq(C)
    PROVE  \E f \in [0..Len(text) -> States(C)] : IsSeen(f, t, text) /\ Bl!After(t, text) = f[Len(text)]
<1>1. PICK n \in Nat : n = Len(text)
  OBVIOUS
<1>2. \A k \in 1..n : text[k] \in C
  BY <1>1, ElementOfSeq
<1> DEFINE G == [k \in 1..n |-> [v \in States(C) |-> Bl!Take(v, text[k])]]
<1>3. \A k \in 1..n : \A v \in States(C) : G[k][v] = Bl!Take(v, text[k])
  OBVIOUS
<1>3a. \A k \in 1..n : \A v \in States(C) : G[k][v] \in States(C)
  BY <1>2, <1>3, TakeTyped
<1> HIDE DEF G
<1>4. PICK f \in [0..n -> States(C)] : f = [k \in 0..n |-> IF k = 0 THEN t ELSE G[k][f[k - 1]]]
  <2>1. StaysIn(States(C), n, G)
    BY <1>3a DEF StaysIn
  <2>2. \E f \in [0..n -> States(C)] : Traces(f, t, n, G)
    BY <1>1, <2>1, Stepwise
  <2>3. QED
    BY <2>2 DEF Traces
<1>5. IsSeen(f, t, text)
  <2>1. ASSUME NEW k \in 0..n
        PROVE  (IF k = 0 THEN t ELSE G[k][f[k - 1]]) = (IF k = 0 THEN t ELSE Bl!Take(f[k - 1], text[k]))
    <3>1. SUFFICES ASSUME k # 0 PROVE G[k][f[k - 1]] = Bl!Take(f[k - 1], text[k])
      OBVIOUS
    <3>2. k \in 1..n /\ k - 1 \in 0..n
      BY <3>1
    <3>3. f[k - 1] \in States(C)
      BY <1>4, <3>2
    <3>4. QED
      BY <1>3, <3>2, <3>3
  <2>2. [k \in 0..n |-> IF k = 0 THEN t ELSE G[k][f[k - 1]]]
        = [k \in 0..n |-> IF k = 0 THEN t ELSE Bl!Take(f[k - 1], text[k])]
    BY <2>1
  <2>3. QED
    BY <1>1, <1>4, <2>2 DEF IsSeen
<1>6. PICK F : F = CHOOSE seen : IsSeen(seen, t, text)
  OBVIOUS
<1>7. IsSeen(F, t, text)
  BY <1>5, <1>6
<1>8. Bl!After(t, text) = F[n]
  BY <1>1, <1>6 DEF Bl!After, IsSeen
<1>9. F[n] = f[n]
  <2>1. \A k \in 0..n : F[k] = f[k]
    BY <1>1, <1>5, <1>7, SeenOnce
  <2>2. n \in 0..n
    OBVIOUS
  <2>3. QED
    BY <2>1, <2>2
<1>10. QED
  BY <1>1, <1>4, <1>5, <1>8, <1>9

LEMMA AfterNone ==
    ASSUME NEW C, Literals \subseteq C, NEW t \in States(C)
    PROVE  Bl!After(t, <<>>) = t
<1>1. PICK e : e = <<>> /\ e \in Seq(C) /\ Len(e) = 0
  <2>1. <<>> \in Seq(C) /\ Len(<<>>) = 0
    OBVIOUS
  <2>2. QED
    BY <2>1
<1>2. PICK f : IsSeen(f, t, e) /\ Bl!After(t, e) = f[Len(e)]
  BY <1>1, SeenIs
<1>3. 0 \in 0..Len(e)
  BY <1>1
<1>4. f[0] = t
  BY <1>2, <1>3 DEF IsSeen
<1>5. QED
  BY <1>1, <1>2, <1>4

LEMMA AfterOneMore ==
    ASSUME NEW C, Literals \subseteq C, NEW t \in States(C), NEW text \in Seq(C), NEW c \in C
    PROVE  Bl!After(t, text) \in States(C) /\ Bl!After(t, Append(text, c)) = Bl!Take(Bl!After(t, text), c)
<1>1. PICK n \in Nat : n = Len(text)
  OBVIOUS
<1>2. PICK more : more = Append(text, c)
  OBVIOUS
<1>2a. more \in Seq(C) /\ Len(more) = n + 1 /\ more[n + 1] = c /\ \A k \in 1..n : text[k] = more[k]
  BY <1>1, <1>2
<1>3. PICK f \in [0..Len(text) -> States(C)] : IsSeen(f, t, text) /\ Bl!After(t, text) = f[Len(text)]
  BY SeenIs
<1>4. PICK g : IsSeen(g, t, more) /\ Bl!After(t, more) = g[Len(more)]
  BY <1>2a, SeenIs
<1>5. \A k \in 0..n : f[k] = g[k]
  <2>1. Len(text) \in Nat /\ Len(more) \in Nat /\ Len(text) <= Len(more)
    BY <1>1, <1>2a
  <2>2. QED
    BY <2>1, <1>1, <1>2a, <1>3, <1>4, SeenOnce
<1>6. n \in 0..n /\ n + 1 \in 0..(n + 1) /\ n + 1 # 0 /\ (n + 1) - 1 = n
  OBVIOUS
<1>7. g[n + 1] = Bl!Take(g[n], c)
  BY <1>2a, <1>4, <1>6 DEF IsSeen
<1>8. f[n] = g[n] /\ f[n] \in States(C)
  BY <1>1, <1>3, <1>5, <1>6
<1>9. QED
  BY <1>1, <1>2, <1>2a, <1>3, <1>4, <1>7, <1>8

(* A text read in two pieces.                                              *)
Splits(C, n, s) ==
  \E u \in Seq(C) : Len(u) = n /\ s = Append(u, s[n + 1]) /\ s[n + 1] \in C /\ \A k \in 1..n : u[k] = s[k]

LEMMA AppendBack ==
    ASSUME NEW C, NEW n \in Nat, NEW s \in Seq(C), Len(s) = n + 1
    PROVE  Splits(C, n, s)
<1>1. \A k \in 1..(n + 1) : s[k] \in C
  BY ElementOfSeq
<1>2. PICK u : u = [k \in 1..n |-> s[k]]
  OBVIOUS
<1>3. u \in Seq(C) /\ Len(u) = n /\ \A k \in 1..n : u[k] = s[k]
  BY <1>1, <1>2
<1>4. s = Append(u, s[n + 1])
  <2>1. n + 1 \in 1..(n + 1)
    OBVIOUS
  <2>2. s[n + 1] \in C
    BY <1>1, <2>1
  <2>3. PICK v : v = Append(u, s[n + 1])
    OBVIOUS
  <2>4. v \in Seq(C) /\ Len(v) = n + 1 /\ v[n + 1] = s[n + 1] /\ \A k \in 1..n : v[k] = u[k]
    BY <1>3, <2>2, <2>3
  <2>5. \A k \in 1..(n + 1) : v[k] = s[k]
    <3>1. ASSUME NEW k \in 1..(n + 1) PROVE v[k] = s[k]
      <4>1. CASE k = n + 1
        BY <2>4, <4>1
      <4>2. CASE k # n + 1
        <5>1. k \in 1..n
          BY <4>2
        <5>2. QED
          BY <1>3, <2>4, <5>1
      <4>3. QED
        BY <4>1, <4>2
    <3>2. QED
      BY <3>1
  <2>6. QED
    BY <2>3, <2>4, <2>5, SeqEqual
<1>5. n + 1 \in 1..(n + 1)
  OBVIOUS
<1>6. QED
  BY <1>1, <1>3, <1>4, <1>5 DEF Splits

LEMMA AfterTwo ==
    ASSUME NEW C, Literals \subseteq C, NEW t \in States(C), NEW a \in Seq(C), NEW b \in Seq(C)
    PROVE  Bl!After(t, a \o b) = Bl!After(Bl!After(t, a), b)
<1> DEFINE Q == {n \in Nat : \A s \in Seq(C) : Len(s) = n => Bl!After(t, a \o s) = Bl!After(Bl!After(t, a), s)}
<1>0. Bl!After(t, a) \in States(C)
  <2>1. "0" \in C
    BY DEF Literals
  <2>2. QED
    BY <2>1, AfterOneMore
<1>1. 0 \in Q
  <2>1. SUFFICES ASSUME NEW s \in Seq(C), Len(s) = 0 PROVE Bl!After(t, a \o s) = Bl!After(Bl!After(t, a), s)
    OBVIOUS
  <2>2. s = <<>> /\ a \o s = a
    BY <2>1
  <2>3. QED
    BY <1>0, <2>2, AfterNone
<1>2. ASSUME NEW n \in Nat, n \in Q PROVE n + 1 \in Q
  <2>1. SUFFICES ASSUME NEW s \in Seq(C), Len(s) = n + 1 PROVE Bl!After(t, a \o s) = Bl!After(Bl!After(t, a), s)
    OBVIOUS
  <2>2. PICK u, c : u \in Seq(C) /\ Len(u) = n /\ s = Append(u, c) /\ c \in C
    <3>1. \E u \in Seq(C) : Len(u) = n /\ s = Append(u, s[n + 1]) /\ s[n + 1] \in C
      BY <2>1, AppendBack DEF Splits
    <3>2. QED
      BY <3>1
  <2>3. a \o s = Append(a \o u, c) /\ a \o u \in Seq(C)
    BY <2>2
  <2>4. Bl!After(t, a \o u) = Bl!After(Bl!After(t, a), u)
    BY <1>2, <2>2
  <2>5. Bl!After(t, Append(a \o u, c)) = Bl!Take(Bl!After(t, a \o u), c)
    <3>1. PICK au \in Seq(C) : au = a \o u
      BY <2>3
    <3>2. Bl!After(t, Append(au, c)) = Bl!Take(Bl!After(t, au), c)
      BY <2>2, <3>1, AfterOneMore
    <3>3. QED
      BY <3>1, <3>2
  <2>6. Bl!After(Bl!After(t, a), Append(u, c)) = Bl!Take(Bl!After(Bl!After(t, a), u), c)
    BY <1>0, <2>2, AfterOneMore
  <2>7. QED
    BY <2>2, <2>3, <2>4, <2>5, <2>6
<1> HIDE DEF Q
<1>3. Len(b) \in Q
  BY <1>1, <1>2, ByNat
<1>4. QED
  BY <1>3 DEF Q

(* A character that is escaped is read as itself.                          *)
At(f, w, h) == [fields |-> f, token |-> w, held |-> h]

Fits(w, n) == Len(w) + n <= TokenSize - 1

LEMMA AtToken ==
    ASSUME NEW f, NEW w, NEW h, NEW x
    PROVE  [At(f, w, h) EXCEPT !.token = x] = At(f, x, h)
  BY SMT DEF At

LEMMA PutFits ==
    ASSUME NEW f, NEW w, NEW h, NEW chars, Fits(w, Len(chars))
    PROVE  Bl!Put(At(f, w, h), chars) = At(f, w \o chars, h)
<1>0. PICK u : u = w \o chars
  OBVIOUS
<1>1. At(f, w, h).token = w
  BY DEF At
<1>2. [At(f, w, h) EXCEPT !.token = u] = At(f, u, h)
  BY AtToken
<1>3. [At(f, w, h) EXCEPT !.token = @ \o chars] = [At(f, w, h) EXCEPT !.token = u]
  BY <1>0, <1>1
<1>4. QED
  BY <1>0, <1>1, <1>2, <1>3 DEF Bl!Put, Fits

LEMMA PutOne ==
    ASSUME NEW C, NEW f, NEW w \in Seq(C), NEW c \in C, NEW h, Fits(w, 1)
    PROVE  Bl!Put([At(f, w, h) EXCEPT !.held = <<>>], <<c>>) = At(f, Append(w, c), <<>>)
<1>1. PICK one : one = <<c>>
  OBVIOUS
<1>2. PICK none : none = <<>>
  OBVIOUS
<1>3. Len(one) = 1 /\ w \o one = Append(w, c)
  BY <1>1
<1>4. PICK u : u = w \o one
  OBVIOUS
<1>5. [At(f, w, h) EXCEPT !.held = none] = At(f, w, none)
  BY SMT DEF At
<1>6. Bl!Put(At(f, w, none), one) = At(f, w \o one, none)
  <2>1. Len(one) = 1
    BY <1>3
  <2>2. Fits(w, Len(one))
    BY <2>1
  <2>3. QED
    BY <2>2, PutFits
<1>7. QED
  BY <1>1, <1>2, <1>3, <1>4, <1>5, <1>6

LEMMA TakePlain ==
    ASSUME NEW C, NEW f, NEW w \in Seq(C), NEW c \in C, c \notin Bl!Special, Fits(w, 1)
    PROVE  Bl!Take(At(f, w, <<>>), c) = At(f, Append(w, c), <<>>)
<1>1. PICK t : t = At(f, w, <<>>)
  OBVIOUS
<1>2. t.held = <<>>
  BY <1>1 DEF At
<1>3. c # "\\" /\ c # "$" /\ c # ","
  BY DEF Bl!Special
<1>4. Bl!Take(t, c) = Bl!Put(t, <<c>>)
  <2>1. PICK a, b, h : a = <<"\\">> /\ b = <<"$">> /\ h = <<>>
    OBVIOUS
  <2>2. Len(a) = 1 /\ Len(b) = 1 /\ Len(h) = 0
    BY <2>1
  <2>3. h # a
    BY <2>2, SMTT(30)
  <2>4. h # b
    BY <2>2
  <2>5. Len(h) # 2
    BY <2>2
  <2>6. QED
    BY <1>2, <1>3, <2>1, <2>3, <2>4, <2>5, TakeCases
<1>5. [t EXCEPT !.held = <<>>] = t
  <2>1. PICK none : none = <<>>
    OBVIOUS
  <2>2. [At(f, w, none) EXCEPT !.held = none] = At(f, w, none)
    BY SMT DEF At
  <2>3. QED
    BY <1>1, <2>1, <2>2
<1>6. Bl!Put([At(f, w, <<>>) EXCEPT !.held = <<>>], <<c>>) = At(f, Append(w, c), <<>>)
  BY PutOne
<1>7. QED
  BY <1>1, <1>4, <1>5, <1>6

LEMMA TakeHeld ==
    ASSUME NEW f, NEW w
    PROVE  /\ Bl!Take(At(f, w, <<>>), "\\") = At(f, w, <<"\\">>)
           /\ Bl!Take(At(f, w, <<>>), "$") = At(f, w, <<"$">>)
           /\ Bl!Take(At(f, w, <<>>), ",") = At(Append(f, w), <<>>, <<>>)
           /\ \A c : Bl!Take(At(f, w, <<"$">>), c) = At(f, w, <<"$", c>>)
<1>1. PICK t : t = At(f, w, <<>>)
  OBVIOUS
<1>2. t.held = <<>> /\ t.token = w /\ t.fields = f
  BY <1>1 DEF At
<1>3. ASSUME NEW h, NEW g PROVE [At(f, w, h) EXCEPT !.held = g] = At(f, w, g)
  BY SMT DEF At
<1>4. ASSUME NEW c \in {"\\", "$"} PROVE Bl!Take(t, c) = At(f, w, <<c>>)
  <2>1. PICK one, none : one = <<c>> /\ none = <<>>
    OBVIOUS
  <2>2. Bl!Take(t, c) = [t EXCEPT !.held = <<c>>]
    BY <1>2, TakeCases
  <2>3. [At(f, w, none) EXCEPT !.held = one] = At(f, w, one)
    BY <1>3
  <2>4. QED
    BY <1>1, <2>1, <2>2, <2>3
<1>5. Bl!Take(t, ",") = At(Append(f, w), <<>>, <<>>)
  BY <1>2, TakeCases DEF At
<1>6. ASSUME NEW c PROVE Bl!Take(At(f, w, <<"$">>), c) = At(f, w, <<"$", c>>)
  <2>1. PICK s, h, g : h = <<"$">> /\ g = <<"$", c>> /\ s = At(f, w, h)
    OBVIOUS
  <2>2. s.held = h
    BY <2>1 DEF At
  <2>3. Bl!Take(s, c) = [s EXCEPT !.held = <<"$", c>>]
    BY <2>1, <2>2, TakeCases
  <2>4. [At(f, w, h) EXCEPT !.held = g] = At(f, w, g)
    BY <1>3
  <2>5. QED
    BY <2>1, <2>3, <2>4
<1>7. QED
  BY <1>1, <1>4, <1>5, <1>6

LEMMA TakeEscaped ==
    ASSUME NEW C, NEW f, NEW w \in Seq(C), NEW c \in C, Fits(w, 1)
    PROVE  /\ Bl!Take(At(f, w, <<"\\">>), c) = At(f, Append(w, c), <<>>)
           /\ c = "^" => Bl!Take(At(f, w, <<"$", "0">>), "0") = At(f, Append(w, c), <<>>)
<1>1. ASSUME NEW h PROVE Bl!Put([At(f, w, h) EXCEPT !.held = <<>>], <<c>>) = At(f, Append(w, c), <<>>)
  BY PutOne
<1>2. Bl!Take(At(f, w, <<"\\">>), c) = At(f, Append(w, c), <<>>)
  <2>1. PICK s, h : h = <<"\\">> /\ s = At(f, w, h)
    OBVIOUS
  <2>2. s.held = h
    BY <2>1 DEF At
  <2>3. Bl!Take(s, c) = Bl!Put([s EXCEPT !.held = <<>>], <<c>>)
    BY <2>1, <2>2, TakeCases
  <2>4. QED
    BY <1>1, <2>1, <2>3
<1>3. ASSUME c = "^" PROVE Bl!Take(At(f, w, <<"$", "0">>), "0") = At(f, Append(w, c), <<>>)
  <2>1. PICK s, h : h = <<"$", "0">> /\ s = At(f, w, h)
    OBVIOUS
  <2>2. s.held = h
    BY <2>1 DEF At
  <2>3. h # <<"\\">> /\ h # <<"$">> /\ Len(h) = 2 /\ h[2] = "0"
    BY <2>1, Unlike
  <2>4. Bl!Take(s, "0") = Bl!Put([s EXCEPT !.held = <<>>], Bl!HexCharToNibble(<<h[2], "0">>))
    BY <2>2, <2>3, TakeCases
  <2>5. Bl!HexCharToNibble(<<"0", "0">>) = <<c>>
    BY <1>3 DEF Bl!HexCharToNibble
  <2>6. Bl!Put([s EXCEPT !.held = <<>>], <<c>>) = At(f, Append(w, c), <<>>)
    BY <1>1, <2>1
  <2>7. QED
    BY <2>1, <2>3, <2>4, <2>5, <2>6
<1>4. QED
  BY <1>2, <1>3

(* What is escaped is read back.                                           *)
IsDst(d, src) == d = [k \in 0..Len(src) |-> IF k = 0 THEN <<>> ELSE d[k - 1] \o Bl!EscapedChar(src[k])]

LEMMA EscapedCharTyped ==
    ASSUME NEW C, Literals \subseteq C, NEW c \in C
    PROVE  Bl!EscapedChar(c) \in Seq(C)
<1>1. "\\" \in C /\ "$" \in C /\ "0" \in C /\ "F" \in C
  BY DEF Literals
<1>2. <<"\\", c>> \in Seq(C) /\ <<"$", "0", "0">> \in Seq(C) /\ <<"$", "F", "F">> \in Seq(C) /\ <<c>> \in Seq(C)
  BY <1>1
<1>3. Bl!EscapedChar(c) \in {<<"\\", c>>, <<"$", "0", "0">>, <<"$", "F", "F">>, <<c>>}
  BY DEF Bl!EscapedChar
<1>4. QED
  BY <1>2, <1>3

LEMMA DstOnce ==
    ASSUME NEW text, NEW more, NEW f, NEW g, Len(text) \in Nat, Len(more) \in Nat, Len(text) <= Len(more),
           IsDst(f, text), IsDst(g, more), \A k \in 1..Len(text) : text[k] = more[k]
    PROVE  \A k \in 0..Len(text) : f[k] = g[k]
<1> DEFINE Q == {k \in Nat : k \in 0..Len(text) => f[k] = g[k]}
<1>1. 0 \in Q
  <2>1. 0 \in 0..Len(text) /\ 0 \in 0..Len(more)
    OBVIOUS
  <2>2. f[0] = <<>> /\ g[0] = <<>>
    BY <2>1 DEF IsDst
  <2>3. QED
    BY <2>2
<1>2. ASSUME NEW k \in Nat, k \in Q PROVE k + 1 \in Q
  <2>1. SUFFICES ASSUME k + 1 \in 0..Len(text) PROVE f[k + 1] = g[k + 1]
    OBVIOUS
  <2>2. k \in 0..Len(text) /\ k + 1 \in 0..Len(more) /\ k + 1 # 0 /\ (k + 1) - 1 = k /\ k + 1 \in 1..Len(text)
    BY <2>1
  <2>3. f[k + 1] = f[k] \o Bl!EscapedChar(text[k + 1])
    BY <2>1, <2>2 DEF IsDst
  <2>4. g[k + 1] = g[k] \o Bl!EscapedChar(more[k + 1])
    BY <2>2 DEF IsDst
  <2>5. QED
    BY <1>2, <2>2, <2>3, <2>4
<1> HIDE DEF Q
<1>3. \A k \in Nat : k \in Q
  BY <1>1, <1>2, ByNat
<1>4. QED
  BY <1>3 DEF Q

LEMMA EscapedIs ==
    ASSUME NEW C, Literals \subseteq C, NEW text \in Seq(C)
    PROVE  \E f \in [0..Len(text) -> Seq(C)] : IsDst(f, text) /\ Bl!Escaped(text) = f[Len(text)]
<1>1. PICK n \in Nat : n = Len(text)
  OBVIOUS
<1>2. \A k \in 1..n : text[k] \in C
  BY <1>1, ElementOfSeq
<1> DEFINE G == [k \in 1..n |-> [v \in Seq(C) |-> v \o Bl!EscapedChar(text[k])]]
<1>3. \A k \in 1..n : \A v \in Seq(C) : G[k][v] = v \o Bl!EscapedChar(text[k])
  OBVIOUS
<1>4. \A k \in 1..n : \A v \in Seq(C) : G[k][v] \in Seq(C)
  <2>1. \A k \in 1..n : Bl!EscapedChar(text[k]) \in Seq(C)
    BY <1>2, EscapedCharTyped
  <2>2. QED
    BY <1>3, <2>1
<1> HIDE DEF G
<1>5. PICK f \in [0..n -> Seq(C)] : f = [k \in 0..n |-> IF k = 0 THEN <<>> ELSE G[k][f[k - 1]]]
  <2>1. StaysIn(Seq(C), n, G)
    BY <1>4 DEF StaysIn
  <2>2. <<>> \in Seq(C)
    OBVIOUS
  <2>3. \E f \in [0..n -> Seq(C)] : Traces(f, <<>>, n, G)
    BY <1>1, <2>1, <2>2, Stepwise
  <2>4. QED
    BY <2>3 DEF Traces
<1>6. IsDst(f, text)
  <2>1. ASSUME NEW k \in 0..n
        PROVE  (IF k = 0 THEN <<>> ELSE G[k][f[k - 1]]) = (IF k = 0 THEN <<>> ELSE f[k - 1] \o Bl!EscapedChar(text[k]))
    <3>1. SUFFICES ASSUME k # 0 PROVE G[k][f[k - 1]] = f[k - 1] \o Bl!EscapedChar(text[k])
      OBVIOUS
    <3>2. k \in 1..n /\ k - 1 \in 0..n
      BY <3>1
    <3>3. f[k - 1] \in Seq(C)
      BY <1>5, <3>2
    <3>4. QED
      BY <1>3, <3>2, <3>3
  <2>2. [k \in 0..n |-> IF k = 0 THEN <<>> ELSE G[k][f[k - 1]]]
        = [k \in 0..n |-> IF k = 0 THEN <<>> ELSE f[k - 1] \o Bl!EscapedChar(text[k])]
    BY <2>1
  <2>3. QED
    BY <1>1, <1>5, <2>2 DEF IsDst
<1>7. PICK F : F = CHOOSE dst : IsDst(dst, text)
  OBVIOUS
<1>8. IsDst(F, text)
  BY <1>6, <1>7
<1>9. Bl!Escaped(text) = F[n]
  BY <1>1, <1>7 DEF Bl!Escaped, IsDst
<1>10. F[n] = f[n]
  <2>1. \A k \in 0..n : F[k] = f[k]
    BY <1>1, <1>6, <1>8, DstOnce
  <2>2. n \in 0..n
    OBVIOUS
  <2>3. QED
    BY <2>1, <2>2
<1>11. QED
  BY <1>1, <1>5, <1>6, <1>9, <1>10

LEMMA EscapedNone ==
    ASSUME NEW C, Literals \subseteq C
    PROVE  Bl!Escaped(<<>>) = <<>>
<1>1. PICK e : e = <<>> /\ e \in Seq(C) /\ Len(e) = 0
  <2>1. <<>> \in Seq(C) /\ Len(<<>>) = 0
    OBVIOUS
  <2>2. QED
    BY <2>1
<1>2. PICK f : IsDst(f, e) /\ Bl!Escaped(e) = f[Len(e)]
  BY <1>1, EscapedIs
<1>3. 0 \in 0..Len(e)
  BY <1>1
<1>4. f[0] = <<>>
  BY <1>2, <1>3 DEF IsDst
<1>5. QED
  BY <1>1, <1>2, <1>4

LEMMA EscapedOneMore ==
    ASSUME NEW C, Literals \subseteq C, NEW text \in Seq(C), NEW c \in C
    PROVE  Bl!Escaped(text) \in Seq(C) /\ Bl!Escaped(Append(text, c)) = Bl!Escaped(text) \o Bl!EscapedChar(c)
<1>1. PICK n \in Nat : n = Len(text)
  OBVIOUS
<1>2. PICK more : more = Append(text, c)
  OBVIOUS
<1>3. more \in Seq(C) /\ Len(more) = n + 1 /\ more[n + 1] = c /\ \A k \in 1..n : text[k] = more[k]
  BY <1>1, <1>2
<1>4. PICK f \in [0..Len(text) -> Seq(C)] : IsDst(f, text) /\ Bl!Escaped(text) = f[Len(text)]
  BY EscapedIs
<1>5. PICK g : IsDst(g, more) /\ Bl!Escaped(more) = g[Len(more)]
  BY <1>3, EscapedIs
<1>6. \A k \in 0..n : f[k] = g[k]
  <2>1. Len(text) \in Nat /\ Len(more) \in Nat /\ Len(text) <= Len(more)
    BY <1>1, <1>3
  <2>2. QED
    BY <1>1, <1>3, <1>4, <1>5, <2>1, DstOnce
<1>7. n \in 0..n /\ n + 1 \in 0..(n + 1) /\ n + 1 # 0 /\ (n + 1) - 1 = n
  OBVIOUS
<1>8. g[n + 1] = g[n] \o Bl!EscapedChar(c)
  BY <1>3, <1>5, <1>7 DEF IsDst
<1>9. f[n] = g[n] /\ f[n] \in Seq(C)
  BY <1>1, <1>4, <1>6, <1>7
<1>10. QED
  BY <1>1, <1>2, <1>3, <1>4, <1>5, <1>8, <1>9

LEMMA Longer ==
    ASSUME NEW C, NEW n \in Nat, NEW s \in Seq(C), Len(s) = n, NEW u \in Seq(C), Len(u) = n + 1,
           \A k \in 1..n : u[k] = s[k]
    PROVE  u = Append(s, u[n + 1])
<1>1. Splits(C, n, u)
  BY AppendBack
<1>2. PICK v \in Seq(C) : Len(v) = n /\ u = Append(v, u[n + 1]) /\ \A k \in 1..n : v[k] = u[k]
  BY <1>1 DEF Splits
<1>3. v = s
  <2>1. \A k \in 1..n : v[k] = s[k]
    BY <1>2
  <2>2. Len(v) = n /\ Len(s) = n
    BY <1>2
  <2>3. QED
    BY <2>1, <2>2, SeqEqual
<1>4. QED
  BY <1>2, <1>3

LEMMA None ==
    ASSUME NEW C
    PROVE  <<>> \in Seq(C) /\ Len(<<>>) = 0 /\ <<>> \o <<>> = <<>>
  OBVIOUS

LEMMA One ==
    ASSUME NEW C, NEW a \in C
    PROVE  <<a>> \in Seq(C) /\ <<a>> = Append(<<>>, a)
<1>1. PICK u, e : u = <<a>> /\ e = <<>>
  OBVIOUS
<1>2. u \in Seq(C) /\ Len(u) = 1 /\ u[1] = a
  BY <1>1
<1>3. e \in Seq(C) /\ Len(e) = 0
  BY <1>1, None
<1>4. u = Append(e, u[0 + 1])
  <2>1. 0 \in Nat /\ 0 + 1 = 1 /\ 1..0 = {}
    OBVIOUS
  <2>2. QED
    BY <1>2, <1>3, <2>1, Longer
<1>5. QED
  BY <1>1, <1>2, <1>4

LEMMA Two ==
    ASSUME NEW C, NEW a \in C, NEW b \in C
    PROVE  <<a, b>> \in Seq(C) /\ <<a, b>> = Append(<<a>>, b)
<1>1. PICK u, e : u = <<a, b>> /\ e = <<a>>
  OBVIOUS
<1>2. u \in Seq(C) /\ Len(u) = 2 /\ u[1] = a /\ u[2] = b
  BY <1>1
<1>3. e \in Seq(C) /\ Len(e) = 1 /\ e[1] = a
  BY <1>1, One
<1>4. u = Append(e, u[1 + 1])
  <2>1. 1 \in Nat /\ 1 + 1 = 2 /\ \A k \in 1..1 : k = 1
    OBVIOUS
  <2>2. \A k \in 1..1 : u[k] = e[k]
    BY <1>2, <1>3, <2>1
  <2>3. QED
    BY <1>2, <1>3, <2>1, <2>2, Longer
<1>5. QED
  BY <1>1, <1>2, <1>4

LEMMA Three ==
    ASSUME NEW C, NEW a \in C, NEW b \in C, NEW c \in C
    PROVE  <<a, b, c>> = Append(<<a, b>>, c)
<1>1. PICK u, e : u = <<a, b, c>> /\ e = <<a, b>>
  OBVIOUS
<1>2. u \in Seq(C) /\ Len(u) = 3 /\ u[1] = a /\ u[2] = b /\ u[3] = c
  BY <1>1
<1>3. e \in Seq(C) /\ Len(e) = 2 /\ e[1] = a /\ e[2] = b
  BY <1>1
<1>4. u = Append(e, u[2 + 1])
  <2>1. 2 \in Nat /\ 2 + 1 = 3 /\ \A k \in 1..2 : k = 1 \/ k = 2
    OBVIOUS
  <2>2. \A k \in 1..2 : u[k] = e[k]
    BY <1>2, <1>3, <2>1
  <2>3. QED
    BY <1>2, <1>3, <2>1, <2>2, Longer
<1>5. QED
  BY <1>1, <1>2, <1>4

LEMMA AfterOne ==
    ASSUME NEW C, Literals \subseteq C, NEW t \in States(C), NEW a \in C
    PROVE  Bl!After(t, <<a>>) = Bl!Take(t, a)
<1>1. <<>> \in Seq(C) /\ <<a>> = Append(<<>>, a)
  BY None, One
<1>2. Bl!After(t, Append(<<>>, a)) = Bl!Take(Bl!After(t, <<>>), a)
  BY <1>1, AfterOneMore, ZenonT(40)
<1>3. QED
  BY <1>1, <1>2, AfterNone

LEMMA AfterPair ==
    ASSUME NEW C, Literals \subseteq C, NEW t \in States(C), NEW a \in C, NEW b \in C
    PROVE  Bl!After(t, <<a, b>>) = Bl!Take(Bl!Take(t, a), b)
<1>1. PICK s \in Seq(C) : s = <<a>> /\ <<a, b>> = Append(s, b)
  BY One, Two
<1>2. Bl!After(t, Append(s, b)) = Bl!Take(Bl!After(t, s), b)
  BY <1>1, AfterOneMore
<1>3. QED
  BY <1>1, <1>2, AfterOne

LEMMA AfterThree ==
    ASSUME NEW C, Literals \subseteq C, NEW t \in States(C), NEW a \in C, NEW b \in C, NEW d \in C
    PROVE  Bl!After(t, <<a, b, d>>) = Bl!Take(Bl!Take(Bl!Take(t, a), b), d)
<1>1. <<a, b>> \in Seq(C)
  BY Two
<1>2. <<a, b, d>> = Append(<<a, b>>, d)
  BY Three
<1>3. PICK s \in Seq(C) : s = <<a, b>>
  BY <1>1
<1>4. Bl!After(t, Append(s, d)) = Bl!Take(Bl!After(t, s), d)
  BY <1>3, AfterOneMore
<1>5. Bl!After(t, <<a, b>>) = Bl!Take(Bl!Take(t, a), b)
  BY AfterPair
<1>6. QED
  BY <1>2, <1>3, <1>4, <1>5

LEMMA ReadingTyped ==
    ASSUME NEW C, NEW f \in Seq(Seq(C)), NEW w \in Seq(C)
    PROVE  At(f, w, <<>>) \in States(C)
<1>1. <<>> \in Seq(C)
  OBVIOUS
<1>2. QED
  BY <1>1 DEF At, States

LEMMA ReadsChar ==
    ASSUME NEW C, Literals \subseteq C, NEW f \in Seq(Seq(C)), NEW w \in Seq(C), NEW c \in C, c # "H", Fits(w, 1)
    PROVE  Bl!After(At(f, w, <<>>), Bl!EscapedChar(c)) = At(f, Append(w, c), <<>>)
<1>1. PICK t : t = At(f, w, <<>>) /\ t \in States(C)
  BY ReadingTyped
<1>2. "\\" \in C /\ "$" \in C /\ "0" \in C
  BY DEF Literals
<1>3. CASE c \in Bl!Special
  <2>1. Bl!EscapedChar(c) = <<"\\", c>>
    BY <1>3 DEF Bl!EscapedChar, Bl!Special
  <2>2. Bl!After(t, <<"\\", c>>) = Bl!Take(Bl!Take(t, "\\"), c)
    <3>1. PICK x \in C : x = "\\"
      BY <1>2
    <3>2. Bl!After(t, <<x, c>>) = Bl!Take(Bl!Take(t, x), c)
      BY <1>1, <3>1, AfterPair
    <3>3. QED
      BY <3>1, <3>2
  <2>3. Bl!Take(t, "\\") = At(f, w, <<"\\">>)
    BY <1>1, TakeHeld
  <2>4. Bl!Take(At(f, w, <<"\\">>), c) = At(f, Append(w, c), <<>>)
    BY TakeEscaped
  <2>5. QED
    BY <1>1, <2>1, <2>2, <2>3, <2>4
<1>4. CASE c = "^"
  <2>1. Bl!EscapedChar(c) = <<"$", "0", "0">>
    BY <1>4 DEF Bl!EscapedChar, Bl!Special
  <2>2. Bl!After(t, <<"$", "0", "0">>) = Bl!Take(Bl!Take(Bl!Take(t, "$"), "0"), "0")
    <3>1. PICK x \in C, y \in C : x = "$" /\ y = "0"
      BY <1>2
    <3>2. Bl!After(t, <<x, y, y>>) = Bl!Take(Bl!Take(Bl!Take(t, x), y), y)
      BY <1>1, <3>1, AfterThree
    <3>3. QED
      BY <3>1, <3>2
  <2>3. Bl!Take(t, "$") = At(f, w, <<"$">>)
    BY <1>1, TakeHeld
  <2>4. Bl!Take(At(f, w, <<"$">>), "0") = At(f, w, <<"$", "0">>)
    BY TakeHeld
  <2>5. Bl!Take(At(f, w, <<"$", "0">>), "0") = At(f, Append(w, c), <<>>)
    BY <1>4, TakeEscaped
  <2>6. QED
    BY <1>1, <2>1, <2>2, <2>3, <2>4, <2>5
<1>5. CASE c \notin Bl!Special /\ c # "^"
  <2>1. Bl!EscapedChar(c) = <<c>>
    BY <1>5 DEF Bl!EscapedChar
  <2>2. Bl!After(t, <<c>>) = Bl!Take(t, c)
    BY <1>1, AfterOne
  <2>3. Bl!Take(At(f, w, <<>>), c) = At(f, Append(w, c), <<>>)
    BY <1>5, TakePlain
  <2>4. QED
    BY <1>1, <2>1, <2>2, <2>3
<1>6. QED
  BY <1>3, <1>4, <1>5

LEMMA FitsLess ==
    ASSUME NEW C, NEW s \in Seq(C), NEW u \in Seq(C), NEW n \in Nat, Len(s) = n + 1, Len(u) = n, Len(s) < TokenSize,
           TokenSize \in Nat
    PROVE  Len(u) < TokenSize /\ Fits(u, 1)
  BY DEF Fits

LEMMA ReadsText ==
    ASSUME NEW C, Literals \subseteq C, NEW f \in Seq(Seq(C)), NEW text \in Seq(C), TokenSize \in Nat,
           Len(text) < TokenSize, \A k \in 1..Len(text) : text[k] # "H"
    PROVE  Bl!After(At(f, <<>>, <<>>), Bl!Escaped(text)) = At(f, text, <<>>)
<1> DEFINE Reads(s) == Bl!After(At(f, <<>>, <<>>), Bl!Escaped(s)) = At(f, s, <<>>)
           Good(s)  == Len(s) < TokenSize /\ \A k \in 1..Len(s) : s[k] # "H"
           Q == {n \in Nat : \A s \in Seq(C) : Len(s) = n /\ Good(s) => Reads(s)}
<1>0. PICK t \in States(C) : t = At(f, <<>>, <<>>)
  <2>1. <<>> \in Seq(C)
    OBVIOUS
  <2>2. QED
    BY <2>1, ReadingTyped
<1>1. 0 \in Q
  <2>1. SUFFICES ASSUME NEW s \in Seq(C), Len(s) = 0 PROVE Reads(s)
    OBVIOUS
  <2>2. s = <<>>
    BY <2>1
  <2>3. Bl!After(t, Bl!Escaped(<<>>)) = t
    BY <1>0, EscapedNone, AfterNone
  <2>4. QED
    BY <1>0, <2>2, <2>3
<1>2. ASSUME NEW n \in Nat, n \in Q PROVE n + 1 \in Q
  <2>1. SUFFICES ASSUME NEW s \in Seq(C), Len(s) = n + 1, Good(s) PROVE Reads(s)
    OBVIOUS
  <2>2. PICK u, c : u \in Seq(C) /\ Len(u) = n /\ s = Append(u, c) /\ c \in C /\ c = s[n + 1]
                    /\ \A k \in 1..n : u[k] = s[k]
    <3>1. \E u \in Seq(C) : Len(u) = n /\ s = Append(u, s[n + 1]) /\ s[n + 1] \in C /\ \A k \in 1..n : u[k] = s[k]
      <4>1. Len(s) = n + 1
        BY <2>1
      <4>2. Splits(C, n, s)
        BY <4>1, AppendBack
      <4>3. QED
        BY <4>2 DEF Splits
    <3>2. QED
      BY <3>1
  <2>3. Len(u) < TokenSize /\ Fits(u, 1)
    BY <2>1, <2>2, FitsLess
  <2>4. c # "H"
    <3>1. n + 1 \in 1..Len(s)
      BY <2>1
    <3>2. QED
      BY <2>1, <2>2, <3>1
  <2>5. Good(u)
    <3>1. \A k \in 1..n : k \in 1..Len(s)
      BY <2>1
    <3>2. QED
      BY <2>1, <2>2, <2>3, <3>1
  <2>6. Reads(u)
    BY <1>2, <2>2, <2>5
  <2>7. Bl!Escaped(s) = Bl!Escaped(u) \o Bl!EscapedChar(c) /\ Bl!Escaped(u) \in Seq(C)
    <3>1. u \in Seq(C) /\ c \in C /\ s = Append(u, c)
      BY <2>2
    <3>2. Bl!Escaped(u) \in Seq(C) /\ Bl!Escaped(Append(u, c)) = Bl!Escaped(u) \o Bl!EscapedChar(c)
      BY <3>1, EscapedOneMore
    <3>3. QED
      BY <3>1, <3>2
  <2>8. PICK a \in Seq(C), b \in Seq(C) : a = Bl!Escaped(u) /\ b = Bl!EscapedChar(c)
    BY <2>2, <2>7, EscapedCharTyped
  <2>9. Bl!After(t, a \o b) = Bl!After(Bl!After(t, a), b)
    BY <2>8, AfterTwo
  <2>10. Bl!After(At(f, u, <<>>), Bl!EscapedChar(c)) = At(f, Append(u, c), <<>>)
    BY <2>2, <2>3, <2>4, ReadsChar
  <2>11. QED
    BY <1>0, <2>2, <2>6, <2>7, <2>8, <2>9, <2>10
<1> HIDE DEF Q
<1>3. Len(text) \in Q
  <2>1. Len(text) \in Nat
    OBVIOUS
  <2>2. \A n \in Nat : n \in Q
    BY <1>1, <1>2, ByNat
  <2>3. QED
    BY <2>1, <2>2
<1>4. QED
  BY <1>3 DEF Q

LEMMA ReadsPlain ==
    ASSUME NEW C, Literals \subseteq C, NEW f \in Seq(Seq(C)), NEW text \in Seq(C), TokenSize \in Nat,
           Len(text) < TokenSize, Bl!Plain(text)
    PROVE  Bl!After(At(f, <<>>, <<>>), text) = At(f, text, <<>>)
<1> DEFINE Reads(s) == Bl!After(At(f, <<>>, <<>>), s) = At(f, s, <<>>)
           Good(s)  == Len(s) < TokenSize /\ \A k \in 1..Len(s) : s[k] \notin Bl!Special
           Q == {n \in Nat : \A s \in Seq(C) : Len(s) = n /\ Good(s) => Reads(s)}
<1>0. PICK t \in States(C) : t = At(f, <<>>, <<>>)
  <2>1. <<>> \in Seq(C)
    OBVIOUS
  <2>2. QED
    BY <2>1, ReadingTyped
<1>1. 0 \in Q
  <2>1. SUFFICES ASSUME NEW s \in Seq(C), Len(s) = 0 PROVE Reads(s)
    OBVIOUS
  <2>2. s = <<>>
    BY <2>1
  <2>3. Bl!After(t, <<>>) = t
    BY <1>0, AfterNone
  <2>4. QED
    BY <1>0, <2>2, <2>3
<1>2. ASSUME NEW n \in Nat, n \in Q PROVE n + 1 \in Q
  <2>1. SUFFICES ASSUME NEW s \in Seq(C), Len(s) = n + 1, Good(s) PROVE Reads(s)
    OBVIOUS
  <2>2. PICK u, c : u \in Seq(C) /\ Len(u) = n /\ s = Append(u, c) /\ c \in C /\ c = s[n + 1]
                    /\ \A k \in 1..n : u[k] = s[k]
    <3>1. \E u \in Seq(C) : Len(u) = n /\ s = Append(u, s[n + 1]) /\ s[n + 1] \in C /\ \A k \in 1..n : u[k] = s[k]
      <4>1. Len(s) = n + 1
        BY <2>1
      <4>2. Splits(C, n, s)
        BY <4>1, AppendBack
      <4>3. QED
        BY <4>2 DEF Splits
    <3>2. QED
      BY <3>1
  <2>3. Len(u) < TokenSize /\ Fits(u, 1)
    BY <2>1, <2>2, FitsLess
  <2>4. c \notin Bl!Special
    <3>1. n + 1 \in 1..Len(s)
      BY <2>1
    <3>2. QED
      BY <2>1, <2>2, <3>1
  <2>5. Good(u)
    <3>1. \A k \in 1..n : k \in 1..Len(s)
      BY <2>1
    <3>2. QED
      BY <2>1, <2>2, <2>3, <3>1
  <2>6. Reads(u)
    BY <1>2, <2>2, <2>5
  <2>7. Bl!After(t, Append(u, c)) = Bl!Take(Bl!After(t, u), c)
    BY <2>2, AfterOneMore
  <2>8. Bl!Take(At(f, u, <<>>), c) = At(f, Append(u, c), <<>>)
    BY <2>2, <2>3, <2>4, TakePlain
  <2>9. QED
    BY <1>0, <2>2, <2>6, <2>7, <2>8
<1> HIDE DEF Q
<1>3. Len(text) \in Q
  <2>1. Len(text) \in Nat
    OBVIOUS
  <2>2. \A n \in Nat : n \in Q
    BY <1>1, <1>2, ByNat
  <2>3. QED
    BY <2>1, <2>2
<1>4. QED
  BY <1>3 DEF Q, Bl!Plain

LEMMA ReadsLine ==
    ASSUME NEW C, Literals \subseteq C, NEW a \in Seq(C), NEW b \in Seq(C), TokenSize \in Nat,
           Bl!Plain(a), Len(a) < TokenSize, Len(b) < TokenSize, \A k \in 1..Len(b) : b[k] # "H"
    PROVE  Bl!ParseHostLine(a \o <<",">> \o Bl!Escaped(b) \o <<",">>) = <<a, b>>
<1>1. PICK none, comma, esc : none = <<>> /\ comma = <<",">> /\ esc = Bl!Escaped(b)
  OBVIOUS
<1>2. "," \in C /\ comma \in Seq(C) /\ none \in Seq(C) /\ none \in Seq(Seq(C)) /\ Len(none) = 0
  <2>1. "," \in C
    BY DEF Literals
  <2>2. <<>> \in Seq(C) /\ <<>> \in Seq(Seq(C)) /\ Len(<<>>) = 0
    OBVIOUS
  <2>3. PICK x \in C : x = ","
    BY <2>1
  <2>4. <<x>> \in Seq(C)
    BY <2>3, One
  <2>5. QED
    BY <1>1, <2>1, <2>2, <2>3, <2>4
<1>2a. none \in Seq(Seq(C)) /\ Len(none) = 0
  BY <1>2
<1>2b. comma \in Seq(C) /\ none \in Seq(C)
  BY <1>2
<1>3. esc \in Seq(C)
  BY <1>1, <1>2, EscapedOneMore
<1>4. PICK f, g : f = Append(none, a) /\ g = Append(f, b)
  OBVIOUS
<1>5. f \in Seq(Seq(C)) /\ g \in Seq(Seq(C)) /\ g = <<a, b>>
  <2>1. f \in Seq(Seq(C)) /\ Len(f) = 1 /\ f[1] = a
    BY <1>2a, <1>4
  <2>2. g \in Seq(Seq(C)) /\ Len(g) = 2 /\ g[1] = a /\ g[2] = b
    BY <1>4, <2>1
  <2>3. PICK h : h = <<a, b>>
    OBVIOUS
  <2>4. h \in Seq(Seq(C)) /\ Len(h) = 2 /\ h[1] = a /\ h[2] = b
    BY <2>3
  <2>5. \A k \in 1..2 : g[k] = h[k]
    BY <2>2, <2>4
  <2>6. g = h
    <3>1. g \in Seq(Seq(C)) /\ h \in Seq(Seq(C)) /\ Len(g) = 2 /\ Len(h) = 2
      BY <2>2, <2>4
    <3>2. QED
      BY <2>5, <3>1, SeqEqual, ZenonT(40)
  <2>7. QED
    BY <2>1, <2>2, <2>3, <2>6
<1>6. Bl!Start = At(none, none, none) /\ Bl!Start \in States(C)
  <2>1. Bl!Start = At(none, none, none)
    BY <1>1 DEF Bl!Start, At
  <2>2. QED
    BY <1>1, <1>2, <2>1, ReadingTyped
<1>7. Bl!After(Bl!Start, a) = At(none, a, none)
  BY <1>1, <1>2, <1>6, ReadsPlain
<1>8. Bl!After(At(none, a, none), comma) = At(f, none, none)
  <2>1. At(none, a, none) \in States(C)
    BY <1>1, <1>2, ReadingTyped
  <2>2. Bl!After(At(none, a, none), comma) = Bl!Take(At(none, a, none), ",")
    BY <1>1, <1>2, <2>1, AfterOne
  <2>3. QED
    BY <1>1, <1>4, <2>2, TakeHeld
<1>9. Bl!After(At(f, none, none), esc) = At(f, b, none)
  BY <1>1, <1>5, ReadsText
<1>10. Bl!After(At(f, b, none), comma) = At(g, none, none)
  <2>1. At(f, b, none) \in States(C)
    BY <1>1, <1>5, ReadingTyped
  <2>2. Bl!After(At(f, b, none), comma) = Bl!Take(At(f, b, none), ",")
    BY <1>1, <1>2, <2>1, AfterOne
  <2>3. QED
    BY <1>1, <1>4, <2>2, TakeHeld
<1>11. Bl!After(Bl!Start, a \o comma \o esc \o comma) = At(g, none, none)
  <2>1. PICK u : u = a \o comma
    OBVIOUS
  <2>2. u \in Seq(C)
    BY <1>2b, <2>1
  <2>3. PICK v : v = u \o esc
    OBVIOUS
  <2>4. v \in Seq(C)
    BY <1>3, <2>2, <2>3
  <2>5. Bl!After(Bl!Start, a \o comma) = Bl!After(Bl!After(Bl!Start, a), comma)
    BY <1>2b, <1>6, AfterTwo
  <2>6. Bl!After(Bl!Start, u \o esc) = Bl!After(Bl!After(Bl!Start, u), esc)
    BY <1>3, <1>6, <2>2, AfterTwo
  <2>7. Bl!After(Bl!Start, v \o comma) = Bl!After(Bl!After(Bl!Start, v), comma)
    BY <1>2b, <1>6, <2>4, AfterTwo
  <2>8. QED
    BY <1>7, <1>8, <1>9, <1>10, <2>1, <2>3, <2>5, <2>6, <2>7
<1>12. Bl!ParseHostLine(a \o comma \o esc \o comma) = g
  <2>1. PICK t : t = At(g, none, none)
    OBVIOUS
  <2>2. t.held = none /\ t.token = none /\ t.fields = g
    BY <2>1 DEF At
  <2>3. t.held # <<"$", ",">>
    <3>1. PICK h : h = <<"$", ",">>
      OBVIOUS
    <3>2. Len(h) = 2
      BY <3>1
    <3>3. none # h
      BY <1>2a, <3>2
    <3>4. QED
      BY <2>2, <3>1, <3>3
  <2>4. Bl!Put(t, none) = t
    <3>1. none \o none = none
      BY <1>1, None
    <3>2. [At(g, none, none) EXCEPT !.token = none] = At(g, none, none)
      BY AtToken
    <3>3. [t EXCEPT !.token = @ \o none] = t
      BY <2>1, <2>2, <3>1, <3>2
    <3>4. QED
      BY <3>3 DEF Bl!Put
  <2>5. QED
    BY <1>1, <1>11, <2>1, <2>2, <2>3, <2>4 DEF Bl!ParseHostLine
<1>13. QED
  BY <1>1, <1>5, <1>12

(* Any text of a bookmark is read back.                                    *)
LEMMA LineIsReadBack ==
    ASSUME Bl!BlInv
    PROVE  Bl!ReadsBack
<1> DEFINE C == Literals \cup UNION {{f[k] : k \in 1..Len(f)} : f \in BookFields}
<1>1. Literals \subseteq C
  OBVIOUS
<1>2. ASSUME NEW f \in BookFields PROVE f \in Seq(C)
  <2>1. Len(f) \in Nat /\ f = [k \in 1..Len(f) |-> f[k]]
    BY BookmarkLineAssumption DEF Bl!BlAssumption
  <2>2. \A k \in 1..Len(f) : f[k] \in C
    OBVIOUS
  <2>3. PICK n \in Nat : n = Len(f)
    BY <2>1
  <2>4. f \in [1..n -> C]
    BY <2>1, <2>2, <2>3
  <2>5. QED
    BY <2>3, <2>4
<1> HIDE DEF C
<1>3. v1 \in Seq(C) /\ v2 \in Seq(C)
  BY <1>2 DEF Bl!BlInv
<1>4. TokenSize \in Nat
  BY BookmarkLineAssumption DEF Bl!BlAssumption
<1>5. v3 = v1 \o <<",">> \o Bl!Escaped(v2) \o <<",">>
  BY DEF Bl!BlInv, Bl!WriteBmLine
<1>6. QED
  BY <1>1, <1>3, <1>4, <1>5, ReadsLine DEF Bl!ReadsBack
-----------------------------------------------------------------------------
(***************************************************************************)
(* The file of bookmarks.                                                  *)
(***************************************************************************)
LEMMA MinIs == ASSUME NEW I, I \subseteq Nat, I # {} PROVE Bk!Min(I) \in I /\ \A y \in I : Bk!Min(I) <= y
<1>1. \E x \in I : \A y \in I : x <= y
  BY LeastThere
<1>2. QED
  BY <1>1 DEF Bk!Min

LEMMA MaxOfTwo == ASSUME NEW a \in Int, NEW b \in Int PROVE Bk!Max({a, b}) = IF a >= b THEN a ELSE b
<1>1. \E x \in {a, b} : \A y \in {a, b} : x >= y
  BY DEF Bk!Max
<1>2. PICK m : m = Bk!Max({a, b})
  OBVIOUS
<1>3. m \in {a, b} /\ m >= a /\ m >= b
  BY <1>1, <1>2 DEF Bk!Max
<1>4. m = IF a >= b THEN a ELSE b
  BY <1>3
<1>5. QED
  BY <1>2, <1>4

LEMMA MinOfTwo == ASSUME NEW a \in Int, NEW b \in Int PROVE Bk!Min({a, b}) = IF a <= b THEN a ELSE b
<1>1. \E x \in {a, b} : \A y \in {a, b} : x <= y
  OBVIOUS
<1>2. PICK m : m = Bk!Min({a, b})
  OBVIOUS
<1>3. m \in {a, b} /\ m <= a /\ m <= b
  BY <1>1, <1>2 DEF Bk!Min
<1>4. m = IF a <= b THEN a ELSE b
  BY <1>3
<1>5. QED
  BY <1>2, <1>4

(* A file that is written with one bookmark in the place of another has    *)
(* the rest and finds the one.                                             *)
LEMMA EntryIs ==
    ASSUME v4 \in Nat, NEW n, NEW long
    PROVE  /\ Bk!Entry(n, long).name = n /\ Bk!Entry(n, long).by = v4
           /\ n \in Nat /\ long \in BOOLEAN => Bk!Entry(n, long) \in Bk!Entries
  BY DEF Bk!Entry, Bk!Entries

LEMMA CopiedIs ==
    ASSUME NEW e \in Bk!Entries
    PROVE  Bk!Copied(e) \in Bk!Entries /\ Bk!Copied(e).name = e.name /\ (~e.long => Bk!Copied(e) = e)
<1>1. e = [name |-> e.name, by |-> e.by, long |-> e.long, torn |-> e.torn]
      /\ e.name \in Nat /\ e.by \in Nat /\ e.long \in BOOLEAN /\ e.torn \in BOOLEAN
  BY DEF Bk!Entries
<1>2. Bk!Copied(e) \in Bk!Entries /\ Bk!Copied(e).name = e.name
  BY <1>1 DEF Bk!Copied, Bk!Entries
<1>3. ASSUME ~e.long PROVE Bk!Copied(e) = e
  <2>1. (e.torn \/ e.long) = e.torn /\ e.long = FALSE
    BY <1>1, <1>3
  <2>2. QED
    BY <1>1, <2>1 DEF Bk!Copied
<1>4. QED
  BY <1>2, <1>3

LEMMA CopyIs ==
    ASSUME NEW lines \in Seq(Bk!Entries), NEW m \in 0..Len(lines)
    PROVE  [j \in 1..m |-> Bk!Copied(lines[j])] \in Seq(Bk!Entries)
<1>1. \A j \in 1..m : Bk!Copied(lines[j]) \in Bk!Entries
  <2>1. \A j \in 1..m : j \in 1..Len(lines)
    OBVIOUS
  <2>2. \A j \in 1..m : lines[j] \in Bk!Entries
    BY <2>1, ElementOfSeq
  <2>3. QED
    BY <2>2, CopiedIs
<1>2. [j \in 1..m |-> Bk!Copied(lines[j])] \in [1..m -> Bk!Entries] /\ m \in Nat
  BY <1>1
<1>3. QED
  BY <1>2

LEMMA WithIs ==
    ASSUME NEW lines \in Seq(Bk!Entries), NEW e \in Bk!Entries
    PROVE  /\ Bk!With(lines, e) \in Seq(Bk!Entries)
           /\ \A k \in 1..Len(lines) : lines[k].name = e.name \/ lines[k].long
                \/ \E j \in 1..Len(Bk!With(lines, e)) : Bk!With(lines, e)[j] = lines[k]
           /\ \E j \in 1..Len(Bk!With(lines, e)) : Bk!With(lines, e)[j] = e
           /\ \A j \in 1..Len(Bk!With(lines, e)) : Bk!With(lines, e)[j].name = e.name => Bk!With(lines, e)[j] = e
<1>1. PICK n \in Nat : n = Len(lines)
  OBVIOUS
<1>2. \A k \in 1..n : lines[k] \in Bk!Entries
  BY <1>1, ElementOfSeq
<1>3. PICK copy : copy = [j \in 1..n |-> IF lines[j].name = e.name THEN e ELSE Bk!Copied(lines[j])]
  OBVIOUS
<1>4. \A k \in 1..n : /\ copy[k] \in Bk!Entries
                      /\ lines[k].name = e.name => copy[k] = e
                      /\ lines[k].name # e.name => copy[k].name # e.name /\ (~lines[k].long => copy[k] = lines[k])
  BY <1>2, <1>3, CopiedIs
<1>4a. \A k \in 1..n : copy[k] \in Bk!Entries
  BY <1>4
<1>4b. \A k \in 1..n : lines[k].name = e.name => copy[k] = e
  BY <1>4
<1>4c. \A k \in 1..n : lines[k].name # e.name => copy[k].name # e.name
  BY <1>4
<1>4d. \A k \in 1..n : lines[k].name = e.name \/ lines[k].long \/ copy[k] = lines[k]
  BY <1>4
<1>4e. \A k \in 1..n : copy[k].name = e.name => copy[k] = e
  BY <1>4b, <1>4c
<1>5. copy \in Seq(Bk!Entries) /\ Len(copy) = n
  <2>1. copy \in [1..n -> Bk!Entries]
    BY <1>3, <1>4a
  <2>2. QED
    BY <2>1
<1>5a. Len(copy) = n /\ Len(lines) = n
  BY <1>1, <1>5
<1>6. CASE e.name \in Bk!NamesIn(lines)
  <2>1. Bk!With(lines, e) = copy
    BY <1>1, <1>3, <1>6 DEF Bk!With
  <2>2. PICK k \in 1..n : lines[k].name = e.name
    BY <1>1, <1>6 DEF Bk!NamesIn
  <2>3. \A j \in 1..Len(lines) : lines[j].name = e.name \/ lines[j].long
           \/ \E i \in 1..Len(copy) : copy[i] = lines[j]
    BY <1>4d, <1>5a
  <2>4. \E j \in 1..Len(copy) : copy[j] = e
    BY <1>4b, <1>5a, <2>2
  <2>5. \A j \in 1..Len(copy) : copy[j].name = e.name => copy[j] = e
    BY <1>4e, <1>5a
  <2>6. QED
    BY <1>5, <2>1, <2>3, <2>4, <2>5
<1>7. CASE e.name \notin Bk!NamesIn(lines)
  <2>1. Bk!With(lines, e) = Append(copy, e)
    BY <1>1, <1>3, <1>7 DEF Bk!With
  <2>2. PICK w : w = Append(copy, e)
    OBVIOUS
  <2>3. w \in Seq(Bk!Entries) /\ Len(w) = n + 1 /\ w[n + 1] = e /\ \A k \in 1..n : w[k] = copy[k]
    BY <1>5, <2>2
  <2>4. n + 1 \in 1..Len(w) /\ \A k \in 1..n : k \in 1..Len(w)
    BY <2>3
  <2>5. \A k \in 1..n : lines[k].name = e.name \/ lines[k].long \/ \E j \in 1..Len(w) : w[j] = lines[k]
    <3>1. \A k \in 1..n : w[k] = copy[k] /\ k \in 1..Len(w)
      BY <2>3, <2>4
    <3>2. QED
      BY <1>4d, <3>1
  <2>6. \E j \in 1..Len(w) : w[j] = e
    BY <2>3, <2>4
  <2>7. \A j \in 1..Len(w) : j = n + 1 \/ j \in 1..n
    BY <2>3
  <2>8. \A k \in 1..n : lines[k].name # e.name
    BY <1>1, <1>7 DEF Bk!NamesIn
  <2>9. \A j \in 1..Len(w) : w[j].name = e.name => w[j] = e
    <3>1. ASSUME NEW j \in 1..Len(w), w[j].name = e.name PROVE w[j] = e
      <4>1. CASE j = n + 1
        BY <2>3, <4>1
      <4>2. CASE j \in 1..n
        <5>1. w[j] = copy[j] /\ lines[j].name # e.name
          BY <2>3, <2>8, <4>2
        <5>2. QED
          BY <1>4c, <3>1, <4>2, <5>1
      <4>3. QED
        BY <2>7, <4>1, <4>2
    <3>2. QED
      BY <3>1
  <2>10. QED
    <3>1. \A k \in 1..Len(lines) : k \in 1..n
      BY <1>1
    <3>2. Bk!With(lines, e) = w /\ w \in Seq(Bk!Entries)
      BY <2>1, <2>2, <2>3
    <3>3. QED
      BY <3>1, <3>2, <2>5, <2>6, <2>9
<1>8. QED
  BY <1>6, <1>7

LEMMA GetIs ==
    ASSUME NEW lines \in Seq(Bk!Entries), NEW e \in Bk!Entries,
           \E j \in 1..Len(lines) : lines[j] = e,
           \A j \in 1..Len(lines) : lines[j].name = e.name => lines[j] = e
    PROVE  Bk!GetBookmark(e.name, lines)[1] = e
<1> DEFINE I == {k \in 1..Len(lines) : lines[k].name = e.name}
<1>1. I \subseteq Nat /\ I # {}
  OBVIOUS
<1>2. Bk!Min(I) \in I
  BY <1>1, MinIs
<1>3. lines[Bk!Min(I)] = e
  BY <1>2
<1>4. Bk!GetBookmark(e.name, lines) = <<lines[Bk!Min(I)]>>
  BY <1>1 DEF Bk!GetBookmark
<1>5. QED
  BY <1>3, <1>4

(* What is not deleted is written.                                         *)
Tabled(t)     == Len(t) \in Nat /\ \A k \in 1..Len(t) : t[k].name = Bk!Dead \/ t[k] \in Bk!Entries
IsKept(f, t)  == f = [k \in 0..Len(t) |-> IF k = 0 THEN <<>>
                                          ELSE IF t[k].name = Bk!Dead THEN f[k - 1] ELSE Append(f[k - 1], t[k])]
Holds(s, e)   == \E i \in 1..Len(s) : s[i] = e

LEMMA HoldsMore ==
    ASSUME NEW s \in Seq(Bk!Entries), NEW e \in Bk!Entries
    PROVE  /\ Append(s, e) \in Seq(Bk!Entries) /\ Holds(Append(s, e), e)
           /\ \A d : Holds(s, d) => Holds(Append(s, e), d)
<1>1. PICK n \in Nat : n = Len(s)
  OBVIOUS
<1>2. PICK w : w = Append(s, e)
  OBVIOUS
<1>3. w \in Seq(Bk!Entries) /\ Len(w) = n + 1 /\ w[n + 1] = e /\ \A k \in 1..n : w[k] = s[k]
  BY <1>1, <1>2
<1>4. n + 1 \in 1..Len(w) /\ \A k \in 1..n : k \in 1..Len(w)
  BY <1>3
<1>5. \A d : Holds(s, d) => Holds(w, d)
  <2>1. SUFFICES ASSUME NEW d, NEW i \in 1..n, s[i] = d PROVE Holds(w, d)
    BY <1>1 DEF Holds
  <2>2. w[i] = d /\ i \in 1..Len(w)
    BY <1>3, <1>4, <2>1
  <2>3. QED
    BY <2>2 DEF Holds
<1>6. Holds(w, e)
  BY <1>3, <1>4 DEF Holds
<1>7. QED
  BY <1>2, <1>3, <1>5, <1>6

LEMMA UndeletedIs ==
    ASSUME NEW t, Tabled(t)
    PROVE  Bk!Undeleted(t) \in Seq(Bk!Entries) /\ \A k \in 1..Len(t) : t[k].name # Bk!Dead => Holds(Bk!Undeleted(t), t[k])
<1>1. PICK n \in Nat : n = Len(t)
  BY DEF Tabled
<1> DEFINE G == [k \in 1..n |-> [v \in Seq(Bk!Entries) |-> IF t[k].name = Bk!Dead THEN v ELSE Append(v, t[k])]]
<1>2. \A k \in 1..n : \A v \in Seq(Bk!Entries) : G[k][v] = IF t[k].name = Bk!Dead THEN v ELSE Append(v, t[k])
  OBVIOUS
<1>3. \A k \in 1..n : t[k].name = Bk!Dead \/ t[k] \in Bk!Entries
  BY <1>1 DEF Tabled
<1>4. \A k \in 1..n : \A v \in Seq(Bk!Entries) : G[k][v] \in Seq(Bk!Entries)
  BY <1>2, <1>3, HoldsMore
<1> HIDE DEF G
<1>5. \E f \in [0..n -> Seq(Bk!Entries)] : f = [k \in 0..n |-> IF k = 0 THEN <<>> ELSE G[k][f[k - 1]]]
  <2>1. StaysIn(Seq(Bk!Entries), n, G)
    BY <1>4 DEF StaysIn
  <2>2. <<>> \in Seq(Bk!Entries)
    OBVIOUS
  <2>3. \E f \in [0..n -> Seq(Bk!Entries)] : Traces(f, <<>>, n, G)
    BY <1>1, <2>1, <2>2, Stepwise
  <2>4. QED
    BY <2>3 DEF Traces
<1>6. \E f : IsKept(f, t)
  <2>1. PICK f \in [0..n -> Seq(Bk!Entries)] : f = [k \in 0..n |-> IF k = 0 THEN <<>> ELSE G[k][f[k - 1]]]
    BY <1>5
  <2>2. ASSUME NEW k \in 0..n
        PROVE  (IF k = 0 THEN <<>> ELSE G[k][f[k - 1]])
               = (IF k = 0 THEN <<>> ELSE IF t[k].name = Bk!Dead THEN f[k - 1] ELSE Append(f[k - 1], t[k]))
    <3>1. SUFFICES ASSUME k # 0 PROVE G[k][f[k - 1]] = IF t[k].name = Bk!Dead THEN f[k - 1] ELSE Append(f[k - 1], t[k])
      OBVIOUS
    <3>2. k \in 1..n /\ k - 1 \in 0..n
      BY <3>1
    <3>3. f[k - 1] \in Seq(Bk!Entries)
      BY <2>1, <3>2
    <3>4. QED
      BY <1>2, <3>2, <3>3
  <2>3. [k \in 0..n |-> IF k = 0 THEN <<>> ELSE G[k][f[k - 1]]]
        = [k \in 0..n |-> IF k = 0 THEN <<>> ELSE IF t[k].name = Bk!Dead THEN f[k - 1] ELSE Append(f[k - 1], t[k])]
    BY <2>2
  <2>4. IsKept(f, t)
    BY <1>1, <2>1, <2>3 DEF IsKept
  <2>5. QED
    BY <2>4
<1>7. PICK kept : kept = CHOOSE f : IsKept(f, t)
  OBVIOUS
<1>8. IsKept(kept, t)
  BY <1>6, <1>7
<1>9. Bk!Undeleted(t) = kept[n]
  BY <1>1, <1>7 DEF Bk!Undeleted, IsKept
<1> DEFINE Q == {m \in Nat : m <= n => /\ kept[m] \in Seq(Bk!Entries)
                                       /\ \A k \in 1..m : t[k].name # Bk!Dead => Holds(kept[m], t[k])}
<1>10. 0 \in Q
  <2>1. kept[0] = <<>>
    BY <1>1, <1>8 DEF IsKept
  <2>2. kept[0] \in Seq(Bk!Entries)
    BY <2>1
  <2>3. \A k \in 1..0 : FALSE
    OBVIOUS
  <2>4. QED
    BY <2>2, <2>3
<1>11. ASSUME NEW m \in Nat, m \in Q PROVE m + 1 \in Q
  <2>1. SUFFICES ASSUME m + 1 <= n
                 PROVE  /\ kept[m + 1] \in Seq(Bk!Entries)
                        /\ \A k \in 1..(m + 1) : t[k].name # Bk!Dead => Holds(kept[m + 1], t[k])
    OBVIOUS
  <2>2. m <= n /\ m + 1 \in 0..n /\ m + 1 # 0 /\ (m + 1) - 1 = m /\ m + 1 \in 1..n
    BY <2>1
  <2>3. kept[m] \in Seq(Bk!Entries) /\ \A k \in 1..m : t[k].name # Bk!Dead => Holds(kept[m], t[k])
    BY <1>11, <2>2
  <2>4. kept[m + 1] = IF t[m + 1].name = Bk!Dead THEN kept[m] ELSE Append(kept[m], t[m + 1])
    BY <1>1, <1>8, <2>2 DEF IsKept
  <2>5. CASE t[m + 1].name = Bk!Dead
    <3>1. \A k \in 1..(m + 1) : t[k].name # Bk!Dead => k \in 1..m
      BY <2>5
    <3>2. QED
      BY <2>3, <2>4, <2>5, <3>1
  <2>6. CASE t[m + 1].name # Bk!Dead
    <3>1. t[m + 1] \in Bk!Entries /\ kept[m + 1] = Append(kept[m], t[m + 1])
      BY <1>3, <2>2, <2>4, <2>6
    <3>2. /\ kept[m + 1] \in Seq(Bk!Entries) /\ Holds(kept[m + 1], t[m + 1])
          /\ \A d : Holds(kept[m], d) => Holds(kept[m + 1], d)
      BY <2>3, <3>1, HoldsMore
    <3>3. \A k \in 1..(m + 1) : k = m + 1 \/ k \in 1..m
      OBVIOUS
    <3>4. QED
      BY <2>3, <3>2, <3>3
  <2>7. QED
    BY <2>5, <2>6
<1> HIDE DEF Q
<1>12. n \in Q
  BY <1>10, <1>11, ByNat
<1>13. QED
  BY <1>1, <1>9, <1>12 DEF Q

(* Sorting puts every line somewhere, and nothing else.                    *)
Precedes(lines, j, k) == lines[j].name < lines[k].name \/ (lines[j].name = lines[k].name /\ j < k)

LEMMA BeforeIs ==
    ASSUME NEW lines \in Seq(Bk!Entries), NEW k \in 1..Len(lines)
    PROVE  /\ IsFiniteSet(Bk!Before(lines, k)) /\ Cardinality(Bk!Before(lines, k)) \in 0..(Len(lines) - 1)
           /\ \A j : j \in Bk!Before(lines, k) <=> j \in 1..Len(lines) /\ Precedes(lines, j, k)
<1>1. PICK n \in Nat : n = Len(lines)
  OBVIOUS
<1>2. \A j \in 1..n : lines[j].name \in Nat
  <2>1. \A j \in 1..n : lines[j] \in Bk!Entries
    BY <1>1, ElementOfSeq
  <2>2. QED
    BY <2>1 DEF Bk!Entries
<1>3. \A j : j \in Bk!Before(lines, k) <=> j \in 1..Len(lines) /\ Precedes(lines, j, k)
  BY DEF Bk!Before, Precedes
<1>4. k \notin Bk!Before(lines, k)
  BY <1>1, <1>2, <1>3 DEF Precedes
<1>5. Bk!Before(lines, k) \in SUBSET (1..n)
  BY <1>1, <1>3
<1>6. IsFiniteSet(1..n) /\ Cardinality(1..n) = n
  BY FS_Interval
<1>7. IsFiniteSet(Bk!Before(lines, k)) /\ Cardinality(Bk!Before(lines, k)) <= n /\ Cardinality(Bk!Before(lines, k)) # n
  BY <1>1, <1>4, <1>5, <1>6, FS_Subset
<1>8. Cardinality(Bk!Before(lines, k)) \in Nat
  BY <1>7, FS_CardinalityType
<1>9. QED
  BY <1>1, <1>3, <1>7, <1>8

LEMMA SameCount == \A S : Bk!Cardinality(S) = Cardinality(S)
  BY DEF Bk!Cardinality, Cardinality

LEMMA RankOnce ==
    ASSUME NEW lines \in Seq(Bk!Entries), NEW j \in 1..Len(lines), NEW k \in 1..Len(lines), j # k
    PROVE  Cardinality(Bk!Before(lines, j)) # Cardinality(Bk!Before(lines, k))
<1>1. PICK n \in Nat : n = Len(lines)
  OBVIOUS
<1>2. \A i \in 1..n : lines[i].name \in Nat
  <2>1. \A i \in 1..n : lines[i] \in Bk!Entries
    BY <1>1, ElementOfSeq
  <2>2. QED
    BY <2>1 DEF Bk!Entries
<1>3. ASSUME NEW a \in 1..n, NEW b \in 1..n, Precedes(lines, a, b)
      PROVE  Cardinality(Bk!Before(lines, a)) # Cardinality(Bk!Before(lines, b))
  <2>1. Bk!Before(lines, a) \in SUBSET Bk!Before(lines, b)
    <3>1. SUFFICES ASSUME NEW i \in 1..n, Precedes(lines, i, a) PROVE Precedes(lines, i, b)
      BY <1>1, BeforeIs
    <3>2. lines[i].name \in Nat /\ lines[a].name \in Nat /\ lines[b].name \in Nat
      BY <1>2
    <3>3. QED
      BY <1>3, <3>1, <3>2 DEF Precedes
  <2>2. a \in Bk!Before(lines, b) /\ a \notin Bk!Before(lines, a)
    <3>1. ~Precedes(lines, a, a)
      BY <1>2 DEF Precedes
    <3>2. QED
      BY <1>1, <1>3, <3>1, BeforeIs
  <2>3. IsFiniteSet(Bk!Before(lines, b))
    BY <1>1, BeforeIs
  <2>4. QED
    BY <2>1, <2>2, <2>3, FS_Subset
<1>4. Precedes(lines, j, k) \/ Precedes(lines, k, j)
  <2>1. lines[j].name \in Nat /\ lines[k].name \in Nat /\ j \in Nat /\ k \in Nat
    BY <1>1, <1>2
  <2>2. QED
    BY <2>1 DEF Precedes
<1>5. QED
  BY <1>1, <1>3, <1>4

LEMMA RankThere ==
    ASSUME NEW lines \in Seq(Bk!Entries), NEW i \in 1..Len(lines)
    PROVE  \E k \in 1..Len(lines) : Cardinality(Bk!Before(lines, k)) = i - 1
<1>1. PICK n \in Nat : n = Len(lines)
  OBVIOUS
<1>2. PICK f : f = [k \in 1..n |-> Cardinality(Bk!Before(lines, k))]
  OBVIOUS
<1>3. f \in [1..n -> 0..(n - 1)]
  BY <1>1, <1>2, BeforeIs
<1>4. \A j, k \in 1..n : f[j] = f[k] => j = k
  BY <1>1, <1>2, RankOnce
<1>5. f \in Injection(1..n, 0..(n - 1))
  BY <1>3, <1>4 DEF Injection, IsInjective
<1>6. IsFiniteSet(1..n) /\ Cardinality(1..n) = n
  BY FS_Interval
<1>7. IsFiniteSet(0..(n - 1)) /\ Cardinality(0..(n - 1)) = n
  <2>1. 0 \in Int /\ n - 1 \in Int /\ (0 > n - 1 => n = 0) /\ (n - 1) - 0 + 1 = n
    OBVIOUS
  <2>2. QED
    BY <2>1, FS_Interval
<1>8. f \in Surjection(1..n, 0..(n - 1))
  BY <1>5, <1>6, <1>7, FS_Injection
<1>9. i - 1 \in 0..(n - 1)
  BY <1>1
<1>10. PICK k \in 1..n : f[k] = i - 1
  BY <1>8, <1>9 DEF Surjection
<1>11. QED
  BY <1>1, <1>2, <1>10

LEMMA SortedIs ==
    ASSUME NEW lines \in Seq(Bk!Entries)
    PROVE  /\ Bk!SortBookmarks(lines) \in Seq(Bk!Entries)
           /\ \A k \in 1..Len(lines) : Holds(Bk!SortBookmarks(lines), lines[k])
<1>1. PICK n \in Nat : n = Len(lines)
  OBVIOUS
<1>2. PICK at0 : at0 = [i \in 1..n |-> CHOOSE k \in 1..n : Bk!Cardinality(Bk!Before(lines, k)) = i - 1]
  OBVIOUS
<1>3. \A i \in 1..n : at0[i] \in 1..n /\ Cardinality(Bk!Before(lines, at0[i])) = i - 1
  <2>1. ASSUME NEW i \in 1..n
        PROVE  at0[i] \in 1..n /\ Bk!Cardinality(Bk!Before(lines, at0[i])) = i - 1
    <3>1. PICK k \in 1..n : Cardinality(Bk!Before(lines, k)) = i - 1
      BY <1>1, RankThere
    <3>2. Bk!Cardinality(Bk!Before(lines, k)) = i - 1
      BY <3>1, SameCount
    <3>3. QED
      BY <1>2, <3>2
  <2>2. QED
    BY <2>1, SameCount
<1>4. Bk!SortBookmarks(lines) = [i \in 1..n |-> lines[at0[i]]]
  <2>1. Bk!SortBookmarks(lines) =
          [i \in 1..n |-> lines[CHOOSE k \in 1..n : Bk!Cardinality(Bk!Before(lines, k)) = i - 1]]
    BY <1>1 DEF Bk!SortBookmarks
  <2>2. QED
    BY <1>2, <2>1
<1>5. PICK s : s = Bk!SortBookmarks(lines)
  OBVIOUS
<1>6. s \in Seq(Bk!Entries) /\ Len(s) = n
  <2>1. \A k \in 1..n : lines[k] \in Bk!Entries
    BY <1>1, ElementOfSeq
  <2>2. s \in [1..n -> Bk!Entries]
    BY <1>3, <1>4, <1>5, <2>1
  <2>3. QED
    BY <2>2
<1>7. ASSUME NEW k \in 1..n PROVE Holds(s, lines[k])
  <2>1. PICK r : r = Cardinality(Bk!Before(lines, k)) /\ r \in 0..(n - 1)
    BY <1>1, BeforeIs
  <2>2. r + 1 \in 1..n /\ (r + 1) - 1 = r
    BY <2>1
  <2>3. at0[r + 1] = k
    BY <1>1, <1>3, <2>1, <2>2, RankOnce
  <2>4. s[r + 1] = lines[k]
    BY <1>4, <1>5, <2>2, <2>3
  <2>5. QED
    BY <1>6, <2>2, <2>4 DEF Holds
<1>8. QED
  BY <1>1, <1>5, <1>6, <1>7
-----------------------------------------------------------------------------
(* What BkInv says, part by part.                                          *)
Good(f)     == f \in Bk!Files /\ (f.there \/ f = Bk!NoFile)
FilesTyped  == Good(v1) /\ Good(v2) /\ Good(v6)
KeptAtTyped     == /\ v5 \in [Bk!Procs -> {"idle", "written", "removed", "count", "read", "gone"}]
               /\ \A p \in Writers : v5[p] \notin {"count", "read"}
ProcsTyped  == /\ v3 \in [Bk!Procs -> Seq(Bk!Entries)] /\ v4 \in Nat
               /\ v7 \in [Bk!Procs -> [names : SUBSET Int, by : Nat]]
               /\ v8 \in [Bk!Procs -> BOOLEAN] /\ DOMAIN v9 = Bk!Procs /\ v10 \in BOOLEAN
TableTyped  == /\ DOMAIN v11 = 1..Len(v11) /\ Len(v11) \in Nat
               /\ v5["ncftpbookmarks"] = "idle" => v11 \in Seq(Bk!Entries)
EditorTyped == /\ v13 \in Nat /\ v14 \in Nat /\ v12 \in Nat
               /\ v15 \in BOOLEAN /\ v16 \in BOOLEAN
               /\ v17 \in [op : {"start", "first", "search", "row"}, to : Int]
SavedBy(p)  == v5[p] \in {"written", "removed"} /\ v8[p] /\ v9[p] = {} =>
                 /\ Bk!Kept(p)
                 /\ p \in Writers => \A n \in v7[p].names : Bk!GetBookmark(n, v3[p])[1].by = v7[p].by

LEMMA Parted ==
    /\ Bk!BkTypes <=> FilesTyped /\ KeptAtTyped /\ ProcsTyped /\ TableTyped /\ EditorTyped
    /\ Bk!BkTypes' <=> FilesTyped' /\ KeptAtTyped' /\ ProcsTyped' /\ TableTyped' /\ EditorTyped'
    /\ Bk!Saving <=> \A p \in Bk!Procs : SavedBy(p)
    /\ Bk!Saving' <=> \A p \in Bk!Procs : SavedBy(p)'
<1>1. Bk!BkTypes <=> FilesTyped /\ KeptAtTyped /\ ProcsTyped /\ TableTyped /\ EditorTyped
  BY DEF Bk!BkTypes, FilesTyped, KeptAtTyped, ProcsTyped, TableTyped, EditorTyped, Good
<1>2. Bk!BkTypes' <=> FilesTyped' /\ KeptAtTyped' /\ ProcsTyped' /\ TableTyped' /\ EditorTyped'
  BY DEF Bk!BkTypes, FilesTyped, KeptAtTyped, ProcsTyped, TableTyped, EditorTyped, Good
<1>3. Bk!Saving <=> \A p \in Bk!Procs : SavedBy(p)
  BY DEF Bk!Saving, SavedBy
<1>4. Bk!Saving' <=> \A p \in Bk!Procs : SavedBy(p)'
  BY DEF Bk!Saving, SavedBy
<1>5. QED
  BY <1>1, <1>2, <1>3, <1>4

LEMMA ProcsAre == "ncftpbookmarks" \in Bk!Procs /\ Writers \subseteq Bk!Procs /\ "ncftpbookmarks" \notin Writers /\ BookNames \subseteq Nat
                  /\ \A p \in Bk!Procs : p \in Writers \/ p = "ncftpbookmarks"
  BY BookmarksAssumption DEF Bk!Procs, Bk!BkAssumption

LEMMA NoFileIs == Good(Bk!NoFile) /\ ~Bk!NoFile.there /\ Bk!NoFile.lines = <<>>
  BY DEF Good, Bk!NoFile, Bk!Files

LEMMA FileIs == ASSUME NEW l \in Seq(Bk!Entries) PROVE Good(Bk!File(l)) /\ Bk!File(l).there /\ Bk!File(l).lines = l
  BY DEF Good, Bk!File, Bk!Files

(* What a process is about to rename stays what it should be while nobody  *)
(* touches it.                                                             *)
LEMMA SavedStays ==
    ASSUME NEW p, SavedBy(p), v6' = v6, v3'[p] = v3[p], v7'[p] = v7[p], v9'[p] = v9[p],
           v8'[p] => v8[p], v5'[p] \in {"written", "removed"} => v5[p] \in {"written", "removed"}
    PROVE  SavedBy(p)'
  BY DEF SavedBy, Bk!Kept

LEMMA WindowStays ==
    ASSUME Bk!Window, UNCHANGED <<v11, v13, v14, v15, v16, v17>>,
           v5'["ncftpbookmarks"] = "idle" <=> v5["ncftpbookmarks"] = "idle"
    PROVE  Bk!Window'
  BY DEF Bk!Window, Bk!InWindow, Bk!Hangs, Bk!gNumBookmarks

LEMMA TableStays ==
    ASSUME Bk!TableHas, v6' = v6, v11' = v11,
           v5'["ncftpbookmarks"] = "idle" /\ v8'["ncftpbookmarks"] => v5["ncftpbookmarks"] = "idle" /\ v8["ncftpbookmarks"]
    PROVE  Bk!TableHas'
  BY DEF Bk!TableHas, Bk!gNumBookmarks

LEMMA OpenIs ==
    ASSUME FilesTyped, Bk!OpenBookmarkFile
    PROVE  /\ Good(v1') /\ Good(v2')
           /\ v1'.there \/ (v1' = v1 /\ v2' = v2)
           /\ ~Bk!Migrates => v1' = v1 /\ v2' = v2
<1>1. CASE Bk!Migrates
  BY <1>1, NoFileIs DEF Bk!Migrates, Bk!OpenBookmarkFile, FilesTyped
<1>2. CASE ~Bk!Migrates
  BY <1>2 DEF Bk!OpenBookmarkFile, FilesTyped
<1>3. QED
  BY <1>1, <1>2

LEMMA LinesTyped == ASSUME NEW f, Good(f) PROVE f.lines \in Seq(Bk!Entries)
  BY DEF Good, Bk!Files
-----------------------------------------------------------------------------
LEMMA BooksStart == ASSUME Bk!BkInit PROVE Bk!BkInv
<1>1. PICK s \in OldBooks : v1 = s.file /\ v2 = s.old
  BY DEF Bk!BkInit
<1>2. Good(v1) /\ Good(v2)
  <2>1. s.file \in {s.file, s.old} /\ s.old \in {s.file, s.old}
    OBVIOUS
  <2>2. QED
    BY <1>1, <2>1, BookmarksAssumption DEF Bk!BkAssumption, Good
<1>3. FilesTyped /\ Bk!NeverMissing
  <2>1. v6 = IF v1.there THEN v1 ELSE v2
    BY DEF Bk!BkInit
  <2>2. QED
    BY <1>2, <2>1 DEF FilesTyped, Bk!NeverMissing
<1>4. KeptAtTyped /\ v5["ncftpbookmarks"] = "count" /\ \A p \in Bk!Procs : v5[p] \in {"idle", "count"}
  <2>1. v5 = [p \in Bk!Procs |-> IF p = "ncftpbookmarks" THEN "count" ELSE "idle"]
    BY DEF Bk!BkInit
  <2>2. QED
    BY <2>1, ProcsAre DEF KeptAtTyped
<1>5. ProcsTyped
  <2>1. /\ v3 = [p \in Bk!Procs |-> <<>>] /\ v4 = 0 /\ v7 = [p \in Bk!Procs |-> Bk!NoJob]
        /\ v8 = [p \in Bk!Procs |-> FALSE] /\ v9 = [p \in Bk!Procs |-> {}] /\ v10 = FALSE
    BY DEF Bk!BkInit
  <2>2. Bk!NoJob \in [names : SUBSET Int, by : Nat] /\ <<>> \in Seq(Bk!Entries)
    BY DEF Bk!NoJob
  <2>3. QED
    BY <2>1, <2>2 DEF ProcsTyped
<1>6. TableTyped /\ EditorTyped
  <2>1. /\ v11 = <<>> /\ v12 = 0 /\ v13 = 0 /\ v14 = 0
        /\ v15 = FALSE /\ v16 = FALSE /\ v17 = Bk!NoGoal
    BY DEF Bk!BkInit
  <2>2. TableTyped
    BY <1>4, <2>1 DEF TableTyped
  <2>3. EditorTyped
    <3>1. Bk!NoGoal \in [op : {"start", "first", "search", "row"}, to : Int]
      BY DEF Bk!NoGoal
    <3>2. QED
      BY <2>1, <3>1 DEF EditorTyped
  <2>4. QED
    BY <2>2, <2>3
<1>7. Bk!Saving
  <2>1. \A p \in Bk!Procs : v5[p] \notin {"written", "removed"}
    BY <1>4
  <2>2. QED
    BY <2>1 DEF Bk!Saving
<1>8. Bk!TableHas
  BY <1>4 DEF Bk!TableHas
<1>9. Bk!Window
  <2>1. v17.op = "start"
    BY DEF Bk!BkInit, Bk!NoGoal
  <2>2. QED
    BY <1>4, <2>1 DEF Bk!Window
<1>10. QED
  BY <1>3, <1>4, <1>5, <1>6, <1>7, <1>8, <1>9, Parted DEF Bk!BkInv

LEMMA BooksStutter == ASSUME Bk!BkInv, UNCHANGED Bk!bkvars PROVE Bk!BkInv'
<1>1. UNCHANGED <<v1, v2, v3, v4, v5, v6, v7, v8, v9, v10>>
      /\ UNCHANGED <<v11, v12, v13, v14, v15, v16, v17>>
  BY DEF Bk!bkvars
<1>2. Bk!BkTypes'
  BY <1>1 DEF Bk!BkInv, Bk!BkTypes
<1>3. Bk!NeverMissing'
  BY <1>1 DEF Bk!BkInv, Bk!NeverMissing
<1>4. Bk!Saving'
  <2>1. SUFFICES ASSUME NEW p \in Bk!Procs PROVE SavedBy(p)'
    BY Parted
  <2>2. SavedBy(p)
    BY Parted DEF Bk!BkInv
  <2>3. QED
    BY <1>1, <2>2, SavedStays
<1>5. Bk!TableHas' /\ Bk!Window'
  BY <1>1, TableStays, WindowStays DEF Bk!BkInv
<1>6. QED
  BY <1>2, <1>3, <1>4, <1>5 DEF Bk!BkInv

LEMMA PutStep == ASSUME Bk!BkInv, NEW p \in Writers, Bk!PutBookmark(p) PROVE Bk!BkInv'
<1>0. /\ FilesTyped /\ KeptAtTyped /\ ProcsTyped /\ TableTyped /\ EditorTyped
      /\ Bk!NeverMissing /\ Bk!Saving /\ Bk!TableHas /\ Bk!Window /\ p \in Bk!Procs /\ p # "ncftpbookmarks"
  BY Parted, ProcsAre DEF Bk!BkInv
<1>1. /\ v5[p] = "idle" /\ Bk!OpenBookmarkFile /\ v5' = [v5 EXCEPT ![p] = "written"]
      /\ v6' = v6 /\ v10' = v10
      /\ UNCHANGED <<v11, v12, v13, v14, v15, v16, v17>>
  BY DEF Bk!PutBookmark, Bk!edvars
<1>2. v8' = [v8 EXCEPT ![p] = v1 = v6 \/ Bk!Migrates]
  BY DEF Bk!PutBookmark
<1>3. PICK n, L, S :
        /\ n \in BookNames
        /\ v3' = [v3 EXCEPT ![p] = L] /\ v7' = [v7 EXCEPT ![p] = [names |-> {n}, by |-> v4]]
        /\ v4' = v4 + 1 /\ v9' = [v9 EXCEPT ![p] = S] /\ L \in Seq(Bk!Entries)
        /\ S = {} => /\ ~Bk!Migrates /\ L = Bk!With(v1.lines, Bk!Entry(n, FALSE))
                     /\ ~\E k \in 1..Len(v1.lines) : v1.lines[k].long /\ v1.lines[k].name # n
  <2>1. PICK n \in BookNames :
          \/ /\ Bk!Writes(p, Bk!With(v1.lines, Bk!Entry(n, FALSE)), {n})
             /\ v9' = [v9 EXCEPT ![p] = (IF Bk!Migrates THEN {"migrated"} ELSE {})
                        \cup (IF \E k \in 1..Len(v1.lines) : v1.lines[k].long /\ v1.lines[k].name # n
                              THEN {"torn"} ELSE {})]
          \/ /\ \E k \in 1..Len(v1.lines) : /\ v1.lines[k].name = n
                                            /\ Bk!Writes(p, [j \in 1..k - 1 |-> Bk!Copied(v1.lines[j])], {n})
             /\ v9' = [v9 EXCEPT ![p] = {"halfway"}]
    BY DEF Bk!PutBookmark
  <2>2. v1.lines \in Seq(Bk!Entries)
    BY <1>0, LinesTyped DEF FilesTyped
  <2>3. Bk!Entry(n, FALSE) \in Bk!Entries
    BY <1>0, <2>1, EntryIs, ProcsAre DEF ProcsTyped
  <2>4. Bk!With(v1.lines, Bk!Entry(n, FALSE)) \in Seq(Bk!Entries)
    BY <2>2, <2>3, WithIs
  <2>5. ASSUME Bk!Writes(p, Bk!With(v1.lines, Bk!Entry(n, FALSE)), {n}),
               v9' = [v9 EXCEPT ![p] = (IF Bk!Migrates THEN {"migrated"} ELSE {})
                        \cup (IF \E k \in 1..Len(v1.lines) : v1.lines[k].long /\ v1.lines[k].name # n
                              THEN {"torn"} ELSE {})]
        PROVE  \E L, S :
                 /\ v3' = [v3 EXCEPT ![p] = L] /\ v7' = [v7 EXCEPT ![p] = [names |-> {n}, by |-> v4]]
                 /\ v4' = v4 + 1 /\ v9' = [v9 EXCEPT ![p] = S] /\ L \in Seq(Bk!Entries)
                 /\ S = {} => /\ ~Bk!Migrates /\ L = Bk!With(v1.lines, Bk!Entry(n, FALSE))
                              /\ ~\E k \in 1..Len(v1.lines) : v1.lines[k].long /\ v1.lines[k].name # n
    <3>1. PICK L, S : /\ L = Bk!With(v1.lines, Bk!Entry(n, FALSE))
                      /\ S = (IF Bk!Migrates THEN {"migrated"} ELSE {})
                             \cup (IF \E k \in 1..Len(v1.lines) : v1.lines[k].long /\ v1.lines[k].name # n
                                   THEN {"torn"} ELSE {})
      OBVIOUS
    <3>2. S = {} => ~Bk!Migrates /\ ~\E k \in 1..Len(v1.lines) : v1.lines[k].long /\ v1.lines[k].name # n
      BY <3>1
    <3>3. v9' = [v9 EXCEPT ![p] = S]
      BY <2>5, <3>1
    <3>4. v3' = [v3 EXCEPT ![p] = L] /\ v7' = [v7 EXCEPT ![p] = [names |-> {n}, by |-> v4]] /\ v4' = v4 + 1
      BY <2>5, <3>1 DEF Bk!Writes
    <3>5. QED
      BY <2>4, <3>1, <3>2, <3>3, <3>4
  <2>6. ASSUME NEW k \in 1..Len(v1.lines), Bk!Writes(p, [j \in 1..k - 1 |-> Bk!Copied(v1.lines[j])], {n}),
               v9' = [v9 EXCEPT ![p] = {"halfway"}]
        PROVE  \E L, S :
                 /\ v3' = [v3 EXCEPT ![p] = L] /\ v7' = [v7 EXCEPT ![p] = [names |-> {n}, by |-> v4]]
                 /\ v4' = v4 + 1 /\ v9' = [v9 EXCEPT ![p] = S] /\ L \in Seq(Bk!Entries) /\ S # {}
    <3>1. PICK L, S : L = [j \in 1..k - 1 |-> Bk!Copied(v1.lines[j])] /\ S = {"halfway"}
      OBVIOUS
    <3>2. L \in Seq(Bk!Entries)
      <4>1. k - 1 \in 0..Len(v1.lines)
        BY <2>2
      <4>2. QED
        BY <2>2, <3>1, <4>1, CopyIs
    <3>3. v9' = [v9 EXCEPT ![p] = S] /\ S # {}
      BY <2>6, <3>1
    <3>4. v3' = [v3 EXCEPT ![p] = L] /\ v7' = [v7 EXCEPT ![p] = [names |-> {n}, by |-> v4]] /\ v4' = v4 + 1
      BY <2>6, <3>1 DEF Bk!Writes
    <3>5. QED
      BY <3>2, <3>3, <3>4
  <2>7. QED
    BY <2>1, <2>5, <2>6
<1>4. FilesTyped' /\ Bk!NeverMissing'
  <2>1. FilesTyped'
    BY <1>0, <1>1, OpenIs DEF FilesTyped
  <2>2. \A q \in Bk!Procs : v5[q] = "removed" => v5'[q] = "removed"
    BY <1>0, <1>1 DEF KeptAtTyped
  <2>3. QED
    BY <1>0, <1>1, <2>1, <2>2, OpenIs DEF Bk!NeverMissing
<1>5. KeptAtTyped' /\ v5'["ncftpbookmarks"] = v5["ncftpbookmarks"] /\ v8'["ncftpbookmarks"] = v8["ncftpbookmarks"]
  BY <1>0, <1>1, <1>2, ProcsAre DEF KeptAtTyped, ProcsTyped
<1>6. ProcsTyped'
  <2>1. [names |-> {n}, by |-> v4] \in [names : SUBSET Int, by : Nat]
    BY <1>0, <1>3, ProcsAre DEF ProcsTyped
  <2>2. v7' \in [Bk!Procs -> [names : SUBSET Int, by : Nat]]
    BY <1>0, <1>3, <2>1 DEF ProcsTyped
  <2>3. v3' \in [Bk!Procs -> Seq(Bk!Entries)] /\ v4' \in Nat
    BY <1>0, <1>3 DEF ProcsTyped
  <2>4. v8' \in [Bk!Procs -> BOOLEAN]
    BY <1>0, <1>2 DEF ProcsTyped
  <2>5. DOMAIN v9' = Bk!Procs /\ v10' \in BOOLEAN
    BY <1>0, <1>1, <1>3 DEF ProcsTyped
  <2>6. QED
    BY <2>2, <2>3, <2>4, <2>5 DEF ProcsTyped
<1>7. TableTyped' /\ EditorTyped'
  BY <1>0, <1>1, <1>5 DEF TableTyped, EditorTyped
<1>8. Bk!Saving'
  <2>1. SUFFICES ASSUME NEW q \in Bk!Procs PROVE SavedBy(q)'
    BY Parted
  <2>2. SavedBy(q)
    BY <1>0, Parted
  <2>3. CASE q # p
    <3>1. /\ v3'[q] = v3[q] /\ v7'[q] = v7[q] /\ v9'[q] = v9[q] /\ v8'[q] = v8[q]
          /\ v5'[q] = v5[q]
      BY <1>0, <1>1, <1>2, <1>3, <2>3 DEF ProcsTyped, KeptAtTyped
    <3>2. QED
      BY <1>1, <2>2, <3>1, SavedStays
  <2>4. CASE q = p
    <3>1. SUFFICES ASSUME v8'[p], v9'[p] = {}
                   PROVE  Bk!Kept(p)' /\ \A m \in v7'[p].names : Bk!GetBookmark(m, v3'[p])[1].by = v7'[p].by
      BY <2>4 DEF SavedBy
    <3>2. /\ v3'[p] = L /\ v9'[p] = S /\ v7'[p].names = {n} /\ v7'[p].by = v4
          /\ v8'[p] = (v1 = v6 \/ Bk!Migrates)
      BY <1>0, <1>2, <1>3 DEF ProcsTyped
    <3>3. PICK e \in Bk!Entries : e = Bk!Entry(n, FALSE) /\ e.name = n /\ e.by = v4
      BY <1>0, <1>3, EntryIs, ProcsAre DEF ProcsTyped
    <3>4. /\ v1 = v6 /\ L = Bk!With(v6.lines, e)
          /\ \A k \in 1..Len(v6.lines) : v6.lines[k].long => v6.lines[k].name = n
      BY <1>3, <3>1, <3>2, <3>3
    <3>5. v6.lines \in Seq(Bk!Entries)
      BY <1>0, LinesTyped DEF FilesTyped
    <3>5a. /\ \A k \in 1..Len(v6.lines) : v6.lines[k].name = n \/ v6.lines[k].long
                \/ \E j \in 1..Len(L) : L[j] = v6.lines[k]
           /\ \E j \in 1..Len(L) : L[j] = e
           /\ \A j \in 1..Len(L) : L[j].name = e.name => L[j] = e
      <4>1. PICK bl \in Seq(Bk!Entries) : bl = v6.lines
        BY <3>5
      <4>2. L = Bk!With(bl, e)
        BY <3>4, <4>1
      <4>3. /\ \A k \in 1..Len(bl) : bl[k].name = e.name \/ bl[k].long
                \/ \E j \in 1..Len(Bk!With(bl, e)) : Bk!With(bl, e)[j] = bl[k]
            /\ \E j \in 1..Len(Bk!With(bl, e)) : Bk!With(bl, e)[j] = e
            /\ \A j \in 1..Len(Bk!With(bl, e)) : Bk!With(bl, e)[j].name = e.name => Bk!With(bl, e)[j] = e
        BY <4>1, WithIs
      <4>4. QED
        BY <3>3, <4>1, <4>2, <4>3
    <3>6. \A k \in 1..Len(v6.lines) : v6.lines[k].name = n \/ \E j \in 1..Len(L) : L[j] = v6.lines[k]
      BY <3>4, <3>5a
    <3>7. Bk!Kept(p)'
      BY <1>1, <3>2, <3>6 DEF Bk!Kept
    <3>8. /\ L \in Seq(Bk!Entries) /\ \E j \in 1..Len(L) : L[j] = e
          /\ \A j \in 1..Len(L) : L[j].name = e.name => L[j] = e
      BY <1>3, <3>5a
    <3>9. Bk!GetBookmark(n, L)[1] = e
      BY <3>3, <3>8, GetIs
    <3>10. QED
      BY <3>2, <3>3, <3>7, <3>9
  <2>5. QED
    BY <2>3, <2>4
<1>9. Bk!TableHas' /\ Bk!Window'
  BY <1>0, <1>1, <1>5, TableStays, WindowStays
<1>10. QED
  BY <1>4, <1>5, <1>6, <1>7, <1>8, <1>9, Parted DEF Bk!BkInv

LEMMA RemovesStep == ASSUME Bk!BkInv, NEW p \in Bk!Procs, Bk!Removes(p) PROVE Bk!BkInv'
<1>0. /\ FilesTyped /\ KeptAtTyped /\ ProcsTyped /\ TableTyped /\ EditorTyped
      /\ Bk!NeverMissing /\ Bk!Saving /\ Bk!TableHas /\ Bk!Window
  BY Parted DEF Bk!BkInv
<1>1. /\ v5[p] = "written" /\ v1' = Bk!NoFile /\ v5' = [v5 EXCEPT ![p] = "removed"]
      /\ UNCHANGED <<v2, v3, v4, v6, v7, v9, v10>>
      /\ UNCHANGED <<v11, v12, v13, v14, v15, v16, v17>>
      /\ v8' = Bk!Others(p)
  BY DEF Bk!Removes, Bk!edvars
<1>2. FilesTyped'
  BY <1>0, <1>1, NoFileIs DEF FilesTyped
<1>3. KeptAtTyped' /\ v5'[p] = "removed" /\ \A q \in Bk!Procs : q # p => v5'[q] = v5[q]
  BY <1>0, <1>1 DEF KeptAtTyped
<1>4. v8' \in [Bk!Procs -> BOOLEAN] /\ \A q \in Bk!Procs : v8'[q] => q = p /\ v8[q]
  BY <1>0, <1>1 DEF Bk!Others, ProcsTyped
<1>5. Bk!NeverMissing'
  BY <1>3 DEF Bk!NeverMissing
<1>6. ProcsTyped'
  BY <1>0, <1>1, <1>4 DEF ProcsTyped
<1>7. v5'["ncftpbookmarks"] = "idle" <=> v5["ncftpbookmarks"] = "idle"
  BY <1>1, <1>3, ProcsAre
<1>8. TableTyped' /\ EditorTyped'
  BY <1>0, <1>1, <1>7 DEF TableTyped, EditorTyped
<1>9. Bk!Saving'
  <2>1. SUFFICES ASSUME NEW q \in Bk!Procs PROVE SavedBy(q)'
    BY Parted
  <2>2. SavedBy(q)
    BY <1>0, Parted
  <2>3. /\ v3'[q] = v3[q] /\ v7'[q] = v7[q] /\ v9'[q] = v9[q] /\ (v8'[q] => v8[q])
        /\ v5'[q] \in {"written", "removed"} => v5[q] \in {"written", "removed"}
    BY <1>1, <1>3, <1>4
  <2>4. QED
    BY <1>1, <2>2, <2>3, SavedStays
<1>10. Bk!TableHas' /\ Bk!Window'
  BY <1>0, <1>1, <1>4, <1>7, TableStays, WindowStays, ProcsAre
<1>11. QED
  BY <1>2, <1>3, <1>5, <1>6, <1>8, <1>9, <1>10, Parted DEF Bk!BkInv

LEMMA RenamesStep == ASSUME Bk!BkInv, NEW p \in Bk!Procs, Bk!Renames(p) PROVE Bk!BkInv'
<1>0. /\ FilesTyped /\ KeptAtTyped /\ ProcsTyped /\ TableTyped /\ EditorTyped
      /\ Bk!NeverMissing /\ Bk!Saving /\ Bk!TableHas /\ Bk!Window
  BY Parted DEF Bk!BkInv
<1>1. /\ v5[p] = "removed" /\ v1' = Bk!File(v3[p]) /\ v6' = v1' /\ v10' = FALSE
      /\ v5' = [v5 EXCEPT ![p] = IF p = "ncftpbookmarks" THEN "count" ELSE "idle"]
      /\ v3' = [v3 EXCEPT ![p] = <<>>] /\ v7' = [v7 EXCEPT ![p] = Bk!NoJob] /\ v9' = [v9 EXCEPT ![p] = {}]
      /\ v2' = v2 /\ v4' = v4
      /\ UNCHANGED <<v11, v12, v13, v14, v15, v16, v17>>
      /\ v8' = [Bk!Others(p) EXCEPT ![p] = p = "ncftpbookmarks"]
  BY DEF Bk!Renames, Bk!edvars
<1>2. Good(v1') /\ v1'.there
  <2>1. v3[p] \in Seq(Bk!Entries)
    BY <1>0 DEF ProcsTyped
  <2>2. QED
    BY <1>1, <2>1, FileIs
<1>3. FilesTyped' /\ Bk!NeverMissing'
  BY <1>0, <1>1, <1>2 DEF FilesTyped, Bk!NeverMissing
<1>4. KeptAtTyped' /\ v5'[p] \in {"idle", "count"} /\ (p = "ncftpbookmarks" => v5'[p] = "count")
      /\ \A q \in Bk!Procs : q # p => v5'[q] = v5[q]
  BY <1>0, <1>1, ProcsAre DEF KeptAtTyped
<1>5. v8' \in [Bk!Procs -> BOOLEAN] /\ \A q \in Bk!Procs : v8'[q] => q = p /\ q = "ncftpbookmarks"
  BY <1>0, <1>1 DEF Bk!Others, ProcsTyped
<1>6. ProcsTyped'
  <2>1. Bk!NoJob \in [names : SUBSET Int, by : Nat] /\ <<>> \in Seq(Bk!Entries)
    BY DEF Bk!NoJob
  <2>2. QED
    BY <1>0, <1>1, <1>5, <2>1 DEF ProcsTyped
<1>7. v5'["ncftpbookmarks"] = "idle" <=> v5["ncftpbookmarks"] = "idle"
  BY <1>1, <1>4, ProcsAre
<1>8. TableTyped' /\ EditorTyped'
  BY <1>0, <1>1, <1>7 DEF TableTyped, EditorTyped
<1>9. Bk!Saving'
  <2>1. SUFFICES ASSUME NEW q \in Bk!Procs PROVE SavedBy(q)'
    BY Parted
  <2>2. ~(v5'[q] \in {"written", "removed"} /\ v8'[q])
    BY <1>4, <1>5
  <2>3. QED
    BY <2>2 DEF SavedBy
<1>10. Bk!TableHas'
  <2>1. ~(v5'["ncftpbookmarks"] = "idle" /\ v8'["ncftpbookmarks"])
    BY <1>4, <1>5, ProcsAre
  <2>2. QED
    BY <2>1 DEF Bk!TableHas
<1>11. Bk!Window'
  BY <1>0, <1>1, <1>7, WindowStays
<1>12. QED
  BY <1>3, <1>4, <1>6, <1>8, <1>9, <1>10, <1>11, Parted DEF Bk!BkInv

LEMMA DiesStep == ASSUME Bk!BkInv, NEW p \in Bk!Procs, Bk!Dies(p) PROVE Bk!BkInv'
<1>0. /\ FilesTyped /\ KeptAtTyped /\ ProcsTyped /\ TableTyped /\ EditorTyped
      /\ Bk!NeverMissing /\ Bk!Saving /\ Bk!TableHas /\ Bk!Window
  BY Parted DEF Bk!BkInv
<1>1. /\ v5[p] \in {"written", "removed"} /\ v5' = [v5 EXCEPT ![p] = "gone"]
      /\ v10' = (v10 \/ v5[p] = "removed")
      /\ v3' = [v3 EXCEPT ![p] = <<>>] /\ v7' = [v7 EXCEPT ![p] = Bk!NoJob] /\ v9' = [v9 EXCEPT ![p] = {}]
      /\ UNCHANGED <<v1, v2, v4, v6, v8>>
      /\ UNCHANGED <<v11, v12, v13, v14, v15, v16, v17>>
  BY DEF Bk!Dies, Bk!edvars
<1>2. FilesTyped'
  BY <1>0, <1>1 DEF FilesTyped
<1>3. KeptAtTyped' /\ v5'[p] = "gone" /\ \A q \in Bk!Procs : q # p => v5'[q] = v5[q]
  BY <1>0, <1>1 DEF KeptAtTyped
<1>4. Bk!NeverMissing'
  BY <1>0, <1>1, <1>3 DEF Bk!NeverMissing
<1>5. ProcsTyped'
  <2>1. Bk!NoJob \in [names : SUBSET Int, by : Nat] /\ <<>> \in Seq(Bk!Entries)
    BY DEF Bk!NoJob
  <2>2. v7' \in [Bk!Procs -> [names : SUBSET Int, by : Nat]] /\ v3' \in [Bk!Procs -> Seq(Bk!Entries)]
    BY <1>0, <1>1, <2>1 DEF ProcsTyped
  <2>3. v10' \in BOOLEAN
    BY <1>0, <1>1 DEF ProcsTyped
  <2>4. QED
    BY <1>0, <1>1, <2>2, <2>3 DEF ProcsTyped
<1>6. v5'["ncftpbookmarks"] = "idle" <=> v5["ncftpbookmarks"] = "idle"
  BY <1>1, <1>3, ProcsAre
<1>7. TableTyped' /\ EditorTyped'
  BY <1>0, <1>1, <1>6 DEF TableTyped, EditorTyped
<1>8. Bk!Saving'
  <2>1. SUFFICES ASSUME NEW q \in Bk!Procs PROVE SavedBy(q)'
    BY Parted
  <2>2. SavedBy(q)
    BY <1>0, Parted
  <2>3. CASE q = p
    BY <1>3, <2>3 DEF SavedBy
  <2>4. CASE q # p
    <3>1. /\ v3'[q] = v3[q] /\ v7'[q] = v7[q] /\ v9'[q] = v9[q] /\ v8'[q] = v8[q]
          /\ v5'[q] = v5[q]
      BY <1>0, <1>1, <1>3, <2>4 DEF ProcsTyped
    <3>2. QED
      BY <1>1, <2>2, <3>1, SavedStays
  <2>5. QED
    BY <2>3, <2>4
<1>9. Bk!TableHas' /\ Bk!Window'
  BY <1>0, <1>1, <1>6, TableStays, WindowStays
<1>10. QED
  BY <1>2, <1>3, <1>4, <1>5, <1>7, <1>8, <1>9, Parted DEF Bk!BkInv
-----------------------------------------------------------------------------
(* The editor's changes: the table that is saved has every bookmark of the *)
(* file but those that are to change.                                      *)
LEMMA CurrentIs ==
    ASSUME v11 \in Seq(Bk!Entries), v13 \in Nat
    PROVE  Bk!Current \in Bk!Entries /\ (Bk!Row \in 1..Bk!gNumBookmarks => Bk!Current = v11[Bk!Row])
<1>1. PICK n \in Nat : n = Bk!gNumBookmarks /\ n = Len(v11)
  BY DEF Bk!gNumBookmarks
<1>2. PICK r \in Nat : r = Bk!Row /\ r >= 1
  BY DEF Bk!Row
<1>3. CASE r <= n
  <2>1. r \in 1..n
    BY <1>2, <1>3
  <2>2. Bk!Current = v11[r]
    BY <1>1, <1>2, <1>3 DEF Bk!Current
  <2>3. QED
    BY <1>1, <1>2, <2>1, <2>2, ElementOfSeq
<1>4. CASE ~(r <= n)
  <2>1. Bk!Zero \in Bk!Entries
    BY DEF Bk!Zero, Bk!Entries, Bk!Blank
  <2>2. QED
    BY <1>1, <1>2, <1>4, <2>1 DEF Bk!Current
<1>5. QED
  BY <1>3, <1>4

LEMMA SaveStep ==
    ASSUME Bk!BkInv, NEW table, NEW names \in SUBSET Int, NEW g \in [op : {"start", "first", "search", "row"}, to : Int],
           Bk!SaveAndReload(table, names, g),
           DOMAIN table = 1..Len(table), Tabled(table),
           \A k \in 1..Bk!gNumBookmarks :
              v11[k].name \in names \/ \E j \in 1..Len(table) : table[j] = v11[k],
           ~v16 /\ g.op = "row" /\ g.to >= 0 => Bk!InWindow(g.to)
    PROVE  Bk!BkInv'
<1>0. /\ FilesTyped /\ KeptAtTyped /\ ProcsTyped /\ TableTyped /\ EditorTyped
      /\ Bk!NeverMissing /\ Bk!Saving /\ Bk!TableHas /\ Bk!Window /\ "ncftpbookmarks" \in Bk!Procs
  BY Parted, ProcsAre DEF Bk!BkInv
<1>1. /\ v5["ncftpbookmarks"] = "idle" /\ v11' = table /\ v17' = g
      /\ UNCHANGED <<v1, v2, v6, v8, v9, v10, v12, v13, v14, v15, v16>>
      /\ v11 \in Seq(Bk!Entries)
  BY <1>0 DEF Bk!SaveAndReload, TableTyped
<1>2. \/ v5' = [v5 EXCEPT !["ncftpbookmarks"] = "count"] /\ v3' = v3 /\ v7' = v7 /\ v4' = v4
      \/ /\ v5' = [v5 EXCEPT !["ncftpbookmarks"] = "written"]
         /\ v3' = [v3 EXCEPT !["ncftpbookmarks"] = Bk!Undeleted(table)]
         /\ v7' = [v7 EXCEPT !["ncftpbookmarks"] = [names |-> names, by |-> v4]] /\ v4' = v4 + 1
  BY DEF Bk!SaveAndReload, Bk!Writes
<1>3. /\ Bk!Undeleted(table) \in Seq(Bk!Entries)
      /\ \A k \in 1..Len(table) : table[k].name # Bk!Dead => Holds(Bk!Undeleted(table), table[k])
  BY UndeletedIs
<1>4. KeptAtTyped' /\ v5'["ncftpbookmarks"] \in {"count", "written"} /\ \A q \in Bk!Procs : q # "ncftpbookmarks" => v5'[q] = v5[q]
  BY <1>0, <1>2, ProcsAre DEF KeptAtTyped
<1>5. FilesTyped'
  BY <1>0, <1>1 DEF FilesTyped
<1>6. Bk!NeverMissing'
  BY <1>0, <1>1, <1>4 DEF Bk!NeverMissing
<1>7. ProcsTyped'
  <2>1. PICK r : r = [names |-> names, by |-> v4]
    OBVIOUS
  <2>2. r \in [names : SUBSET Int, by : Nat]
    BY <1>0, <2>1 DEF ProcsTyped
  <2>3. v7' \in [Bk!Procs -> [names : SUBSET Int, by : Nat]]
    BY <1>0, <1>2, <2>1, <2>2 DEF ProcsTyped
  <2>4. v3' \in [Bk!Procs -> Seq(Bk!Entries)] /\ v4' \in Nat
    <3>1. PICK u : u = Bk!Undeleted(table)
      OBVIOUS
    <3>2. u \in Seq(Bk!Entries) /\ v3 \in [Bk!Procs -> Seq(Bk!Entries)] /\ v4 \in Nat
      BY <1>0, <1>3, <3>1 DEF ProcsTyped
    <3>3. v3' = v3 \/ v3' = [v3 EXCEPT !["ncftpbookmarks"] = u]
      BY <1>2, <3>1
    <3>4. v4' = v4 \/ v4' = v4 + 1
      BY <1>2
    <3>5. v3' \in [Bk!Procs -> Seq(Bk!Entries)]
      BY <3>2, <3>3
    <3>6. v4' \in Nat
      BY <3>2, <3>4
    <3>7. QED
      BY <3>5, <3>6
  <2>5. QED
    BY <1>0, <1>1, <2>3, <2>4 DEF ProcsTyped
<1>8. TableTyped' /\ EditorTyped'
  <2>1. TableTyped'
    BY <1>1, <1>4 DEF TableTyped, Tabled
  <2>2. EditorTyped'
    BY <1>0, <1>1 DEF EditorTyped
  <2>3. QED
    BY <2>1, <2>2
<1>9. Bk!Saving'
  <2>1. SUFFICES ASSUME NEW q \in Bk!Procs PROVE SavedBy(q)'
    BY Parted
  <2>2. SavedBy(q)
    BY <1>0, Parted
  <2>3. CASE q # "ncftpbookmarks"
    <3>1. /\ v3'[q] = v3[q] /\ v7'[q] = v7[q] /\ v9'[q] = v9[q] /\ v8'[q] = v8[q]
          /\ v5'[q] = v5[q]
      BY <1>0, <1>1, <1>2, <1>4, <2>3 DEF ProcsTyped
    <3>2. QED
      BY <1>1, <2>2, <3>1, SavedStays
  <2>4. CASE q = "ncftpbookmarks"
    <3>1. SUFFICES ASSUME v5'["ncftpbookmarks"] = "written", v8'["ncftpbookmarks"] PROVE Bk!Kept("ncftpbookmarks")'
      BY <1>4, <2>4, ProcsAre DEF SavedBy
    <3>2. v5' = [v5 EXCEPT !["ncftpbookmarks"] = "written"] /\ v3'["ncftpbookmarks"] = Bk!Undeleted(table) /\ v7'["ncftpbookmarks"].names = names
      BY <1>0, <1>2, <3>1 DEF KeptAtTyped, ProcsTyped
    <3>3. \A k \in 1..Len(v6.lines) : \E j \in 1..Bk!gNumBookmarks : v11[j] = v6.lines[k]
      BY <1>0, <1>1, <3>1 DEF Bk!TableHas
    <3>4. v6.lines \in Seq(Bk!Entries)
      BY <1>0, LinesTyped DEF FilesTyped
    <3>5. ASSUME NEW k \in 1..Len(v6.lines), v6.lines[k].name \notin names
          PROVE  Holds(Bk!Undeleted(table), v6.lines[k])
      <4>1. PICK j \in 1..Bk!gNumBookmarks : v11[j] = v6.lines[k]
        BY <3>3
      <4>2. PICK i \in 1..Len(table) : table[i] = v6.lines[k]
        BY <3>5, <4>1
      <4>3. v6.lines[k] \in Bk!Entries
        BY <3>4, ElementOfSeq
      <4>4. table[i].name # Bk!Dead
        <5>1. v6.lines[k].name \in Nat
          BY <4>3 DEF Bk!Entries
        <5>2. QED
          BY <4>2, <5>1 DEF Bk!Dead
      <4>5. QED
        BY <1>3, <4>2, <4>4
    <3>6. QED
      BY <1>1, <3>2, <3>5 DEF Bk!Kept, Holds
  <2>5. QED
    BY <2>3, <2>4
<1>10. Bk!TableHas'
  BY <1>4 DEF Bk!TableHas
<1>11. Bk!Window'
  BY <1>1, <1>4 DEF Bk!Window, Bk!InWindow
<1>12. QED
  BY <1>4, <1>5, <1>6, <1>7, <1>8, <1>9, <1>10, <1>11, Parted DEF Bk!BkInv

LEMMA AppendedIs ==
    ASSUME v11 \in Seq(Bk!Entries), NEW e \in Bk!Entries, NEW table, table = Append(v11, e)
    PROVE  /\ DOMAIN table = 1..Len(table) /\ Tabled(table)
           /\ \A k \in 1..Bk!gNumBookmarks : \E j \in 1..Len(table) : table[j] = v11[k]
<1>1. PICK n \in Nat : n = Len(v11)
  OBVIOUS
<1>2. table \in Seq(Bk!Entries) /\ Len(table) = n + 1 /\ \A k \in 1..n : table[k] = v11[k]
  BY <1>1
<1>3. \A k \in 1..n : k \in 1..Len(table)
  BY <1>2
<1>4. \A k \in 1..Len(table) : table[k] \in Bk!Entries
  BY <1>2, ElementOfSeq
<1>5. Tabled(table)
  BY <1>2, <1>4 DEF Tabled
<1>6. \A k \in 1..Bk!gNumBookmarks : \E j \in 1..Len(table) : table[j] = v11[k]
  BY <1>1, <1>2, <1>3 DEF Bk!gNumBookmarks
<1>7. DOMAIN table = 1..Len(table)
  BY <1>2
<1>8. QED
  BY <1>5, <1>6, <1>7

LEMMA NowIs ==
    ASSUME v11 \in Seq(Bk!Entries), v13 \in Nat, NEW e, e \in Bk!Entries \/ e.name = Bk!Dead
    PROVE  /\ DOMAIN Bk!Now(e) = 1..Len(Bk!Now(e)) /\ Tabled(Bk!Now(e))
           /\ \A k \in 1..Bk!gNumBookmarks : \/ v11[k].name = Bk!Current.name
                                             \/ \E j \in 1..Len(Bk!Now(e)) : Bk!Now(e)[j] = v11[k]
<1>1. PICK n \in Nat : n = Bk!gNumBookmarks /\ n = Len(v11)
  BY DEF Bk!gNumBookmarks
<1>2. PICK table : table = Bk!Now(e)
  OBVIOUS
<1>3. table = [k \in 1..n |-> IF k = Bk!Row THEN e ELSE v11[k]]
  BY <1>1, <1>2 DEF Bk!Now
<1>4. DOMAIN table = 1..n /\ Len(table) = n
  BY <1>3
<1>5. \A k \in 1..n : v11[k] \in Bk!Entries
  BY <1>1, ElementOfSeq
<1>6. \A k \in 1..n : table[k].name = Bk!Dead \/ table[k] \in Bk!Entries
  <2>1. \A k \in 1..n : table[k] = e \/ table[k] = v11[k]
    BY <1>3
  <2>2. QED
    BY <1>5, <2>1
<1>7. Tabled(table)
  BY <1>4, <1>6 DEF Tabled
<1>8. ASSUME NEW k \in 1..n
      PROVE  v11[k].name = Bk!Current.name \/ \E j \in 1..n : table[j] = v11[k]
  <2>1. CASE k = Bk!Row
    <3>1. Bk!Row \in 1..Bk!gNumBookmarks
      BY <1>1, <2>1
    <3>2. Bk!Current = v11[k]
      BY <2>1, <3>1, CurrentIs
    <3>3. QED
      BY <3>2
  <2>2. CASE k # Bk!Row
    BY <1>3, <2>2
  <2>3. QED
    BY <2>1, <2>2
<1>9. QED
  BY <1>1, <1>2, <1>4, <1>7, <1>8

LEMMA EditStep ==
    ASSUME Bk!BkInv, Bk!HostWinNew \/ Bk!HostWinDup \/ Bk!HostWinEdit \/ Bk!HostWinDelete
    PROVE  Bk!BkInv'
<1>0. v5["ncftpbookmarks"] = "idle" /\ v11 \in Seq(Bk!Entries) /\ v13 \in Nat /\ v4 \in Nat
  <2>1. v5["ncftpbookmarks"] = "idle"
    BY DEF Bk!HostWinNew, Bk!HostWinDup, Bk!HostWinEdit, Bk!HostWinDelete, Bk!SaveAndReload
  <2>2. QED
    BY <2>1, Parted DEF Bk!BkInv, TableTyped, EditorTyped, ProcsTyped
<1>1. Bk!Current \in Bk!Entries /\ Bk!Current.name \in Nat
  <2>1. Bk!Current \in Bk!Entries
    BY <1>0, CurrentIs
  <2>2. QED
    BY <2>1 DEF Bk!Entries
<1>2. CASE Bk!HostWinNew
  <2>1. PICK e \in Bk!Entries : e = Bk!Entry(Bk!Untitled, FALSE)
    BY <1>0, EntryIs DEF Bk!Untitled
  <2>2. PICK table : table = Append(v11, e)
    OBVIOUS
  <2>3. PICK g : g = [op |-> "first", to |-> 0]
    OBVIOUS
  <2>4. Bk!SaveAndReload(table, {Bk!Untitled}, g)
    BY <1>2, <2>1, <2>2, <2>3 DEF Bk!HostWinNew
  <2>5. g \in [op : {"start", "first", "search", "row"}, to : Int] /\ g.op # "row" /\ {Bk!Untitled} \in SUBSET Int
    BY <2>3 DEF Bk!Untitled
  <2>6. DOMAIN table = 1..Len(table) /\ Tabled(table)
        /\ \A k \in 1..Bk!gNumBookmarks : \E j \in 1..Len(table) : table[j] = v11[k]
    BY <1>0, <2>2, AppendedIs
  <2>7. QED
    BY <2>4, <2>5, <2>6, SaveStep
<1>3. CASE Bk!HostWinDup
  <2>1. PICK m \in Nat : m = Bk!CopyOf(Bk!Current.name)
    BY <1>1 DEF Bk!CopyOf
  <2>2. PICK e \in Bk!Entries : e = [Bk!Current EXCEPT !.name = m]
    BY <1>1, <2>1 DEF Bk!Entries
  <2>3. PICK table : table = Append(v11, e)
    OBVIOUS
  <2>4. PICK g : g = [op |-> "search", to |-> m]
    OBVIOUS
  <2>5. Bk!SaveAndReload(table, {m}, g)
    BY <1>3, <2>1, <2>2, <2>3, <2>4 DEF Bk!HostWinDup
  <2>6. g \in [op : {"start", "first", "search", "row"}, to : Int] /\ g.op # "row" /\ {m} \in SUBSET Int
    BY <2>1, <2>4
  <2>7. DOMAIN table = 1..Len(table) /\ Tabled(table)
        /\ \A k \in 1..Bk!gNumBookmarks : \E j \in 1..Len(table) : table[j] = v11[k]
    BY <1>0, <2>2, <2>3, AppendedIs
  <2>8. QED
    BY <2>5, <2>6, <2>7, SaveStep
<1>4. CASE Bk!HostWinEdit
  <2>1. PICK n \in BookNames \cup {Bk!Current.name}, long \in BOOLEAN :
          Bk!SaveAndReload(Bk!Now(Bk!Entry(n, long)), {n, Bk!Current.name}, [op |-> "search", to |-> Bk!Current.name])
    BY <1>4 DEF Bk!HostWinEdit
  <2>2. n \in Nat
    BY <1>1, <2>1, ProcsAre
  <2>3. PICK e \in Bk!Entries : e = Bk!Entry(n, long)
    BY <1>0, <2>1, <2>2, EntryIs
  <2>4. PICK names, g : names = {n, Bk!Current.name} /\ g = [op |-> "search", to |-> Bk!Current.name]
    OBVIOUS
  <2>5. Bk!SaveAndReload(Bk!Now(e), names, g)
    BY <2>1, <2>3, <2>4
  <2>6. g \in [op : {"start", "first", "search", "row"}, to : Int] /\ g.op # "row" /\ names \in SUBSET Int
        /\ Bk!Current.name \in names
    BY <1>1, <2>2, <2>4
  <2>7. DOMAIN Bk!Now(e) = 1..Len(Bk!Now(e)) /\ Tabled(Bk!Now(e))
        /\ \A k \in 1..Bk!gNumBookmarks : \/ v11[k].name = Bk!Current.name
                                          \/ \E j \in 1..Len(Bk!Now(e)) : Bk!Now(e)[j] = v11[k]
    BY <1>0, <2>3, NowIs
  <2>8. \A k \in 1..Bk!gNumBookmarks : \/ v11[k].name \in names
                                       \/ \E j \in 1..Len(Bk!Now(e)) : Bk!Now(e)[j] = v11[k]
    BY <2>6, <2>7
  <2>9. QED
    BY <2>5, <2>6, <2>7, <2>8, SaveStep
<1>5. CASE Bk!HostWinDelete
  <2>1. PICK newi : newi = IF v13 = Bk!gNumBookmarks - 1 THEN v13 - 1 ELSE v13
    OBVIOUS
  <2>2. PICK e, names, g : e = [Bk!Current EXCEPT !.name = Bk!Dead] /\ names = {Bk!Current.name} /\ g = [op |-> "row", to |-> newi]
    OBVIOUS
  <2>3. v15 /\ Bk!SaveAndReload(Bk!Now(e), names, g)
    BY <1>5, <2>1, <2>2 DEF Bk!HostWinDelete
  <2>4. e.name = Bk!Dead
    BY <1>1, <2>2 DEF Bk!Entries
  <2>5. newi \in Int
    BY <1>0, <2>1
  <2>6. g \in [op : {"start", "first", "search", "row"}, to : Int] /\ g.to = newi
    BY <2>2, <2>5
  <2>6a. names \in SUBSET Int /\ Bk!Current.name \in names
    BY <1>1, <2>2
  <2>7. DOMAIN Bk!Now(e) = 1..Len(Bk!Now(e)) /\ Tabled(Bk!Now(e))
        /\ \A k \in 1..Bk!gNumBookmarks : \/ v11[k].name = Bk!Current.name
                                          \/ \E j \in 1..Len(Bk!Now(e)) : Bk!Now(e)[j] = v11[k]
    BY <1>0, <2>4, NowIs
  <2>8. \A k \in 1..Bk!gNumBookmarks : \/ v11[k].name \in names
                                       \/ \E j \in 1..Len(Bk!Now(e)) : Bk!Now(e)[j] = v11[k]
    BY <2>6a, <2>7
  <2>9. ASSUME ~v16, newi >= 0 PROVE Bk!InWindow(newi)
    <3>1. v14 \in Nat /\ Rows \in Nat /\ Rows >= 2
      BY Parted, BookmarksAssumption DEF Bk!BkInv, EditorTyped, Bk!BkAssumption
    <3>2. PICK n \in Nat : n = Bk!gNumBookmarks
      BY <1>0 DEF Bk!gNumBookmarks
    <3>3. Bk!InWindow(v13) /\ ~Bk!Hangs(v14, n)
      BY <1>0, <2>3, <2>9, <3>2 DEF Bk!BkInv, Bk!Window
    <3>4. v13 >= v14 /\ v13 <= v14 + Rows - 1
      BY <1>0, <3>1, <3>3 DEF Bk!InWindow
    <3>5. v14 = 0 \/ v14 + Rows <= n
      BY <3>1, <3>2, <3>3 DEF Bk!Hangs
    <3>6. newi >= v14 /\ newi <= v14 + Rows - 1
      BY <1>0, <2>1, <2>9, <3>1, <3>2, <3>4, <3>5
    <3>7. QED
      BY <2>5, <3>1, <3>6 DEF Bk!InWindow
  <2>10. QED
    BY <2>3, <2>6, <2>6a, <2>7, <2>8, <2>9, SaveStep
<1>6. QED
  BY <1>2, <1>3, <1>4, <1>5
-----------------------------------------------------------------------------
(* The editor reads the table again.                                       *)
LEMMA CountsStep == ASSUME Bk!BkInv, Bk!Counts PROVE Bk!BkInv'
<1>0. /\ FilesTyped /\ KeptAtTyped /\ ProcsTyped /\ TableTyped /\ EditorTyped
      /\ Bk!NeverMissing /\ Bk!Saving /\ Bk!TableHas /\ Bk!Window /\ "ncftpbookmarks" \in Bk!Procs
  BY Parted, ProcsAre DEF Bk!BkInv
<1>1. /\ v5["ncftpbookmarks"] = "count" /\ Bk!OpenBookmarkFile
      /\ v12' = Len(v1.lines) /\ v5' = [v5 EXCEPT !["ncftpbookmarks"] = "read"]
      /\ UNCHANGED <<v3, v4, v6, v7, v8, v9, v10>>
      /\ UNCHANGED <<v11, v13, v14, v15, v16, v17>>
  BY DEF Bk!Counts
<1>2. KeptAtTyped' /\ v5'["ncftpbookmarks"] = "read" /\ \A q \in Bk!Procs : q # "ncftpbookmarks" => v5'[q] = v5[q]
  BY <1>0, <1>1, ProcsAre DEF KeptAtTyped
<1>3. FilesTyped' /\ Bk!NeverMissing'
  <2>1. FilesTyped'
    BY <1>0, <1>1, OpenIs DEF FilesTyped
  <2>2. \A q \in Bk!Procs : v5[q] = "removed" => v5'[q] = "removed"
    BY <1>1, <1>2
  <2>3. QED
    BY <1>0, <1>1, <2>1, <2>2, OpenIs DEF Bk!NeverMissing
<1>4. ProcsTyped' /\ TableTyped' /\ EditorTyped'
  <2>1. ProcsTyped'
    BY <1>0, <1>1 DEF ProcsTyped
  <2>2. TableTyped'
    BY <1>0, <1>1, <1>2 DEF TableTyped
  <2>3. v12' \in Nat
    <3>1. v1.lines \in Seq(Bk!Entries)
      BY <1>0, LinesTyped DEF FilesTyped
    <3>2. QED
      BY <1>1, <3>1
  <2>4. EditorTyped'
    BY <1>0, <1>1, <2>3 DEF EditorTyped
  <2>5. QED
    BY <2>1, <2>2, <2>4
<1>5. Bk!Saving'
  <2>1. SUFFICES ASSUME NEW q \in Bk!Procs PROVE SavedBy(q)'
    BY Parted
  <2>2. SavedBy(q)
    BY <1>0, Parted
  <2>3. v5'[q] \in {"written", "removed"} => v5[q] \in {"written", "removed"}
    BY <1>2
  <2>4. QED
    BY <1>1, <2>2, <2>3, SavedStays
<1>6. Bk!TableHas'
  BY <1>2 DEF Bk!TableHas
<1>7. Bk!Window'
  <2>1. v5'["ncftpbookmarks"] = "idle" <=> v5["ncftpbookmarks"] = "idle"
    BY <1>1, <1>2
  <2>2. QED
    BY <1>0, <1>1, <2>1, WindowStays
<1>8. QED
  BY <1>2, <1>3, <1>4, <1>5, <1>6, <1>7, Parted DEF Bk!BkInv

LEMMA FirstOf ==
    ASSUME NEW s \in Seq(Bk!Entries), NEW m \in 0..Len(s)
    PROVE  SubSeq(s, 1, m) \in Seq(Bk!Entries) /\ (m = Len(s) => SubSeq(s, 1, m) = s)
<1>1. PICK n \in Nat : n = Len(s)
  OBVIOUS
<1>2. s \in [1..n -> Bk!Entries]
  BY <1>1
<1>3. SubSeq(s, 1, m) = [k \in 1..m |-> s[k]]
  BY <1>1
<1>4. [k \in 1..m |-> s[k]] \in [1..m -> Bk!Entries] /\ m \in Nat
  BY <1>1, <1>2
<1>5. [k \in 1..m |-> s[k]] \in Seq(Bk!Entries)
  BY <1>4
<1>6. ASSUME m = n PROVE [k \in 1..m |-> s[k]] = s
  BY <1>2, <1>6
<1>7. QED
  BY <1>1, <1>3, <1>5, <1>6

LEMMA PageIs ==
    Rows \in Nat /\ Rows >= 2
    /\ \A i \in Int : Bk!PageWith(i) = IF i - Rows + 1 > 0 THEN i - Rows + 1 ELSE 0
<1>1. Rows \in Nat /\ Rows >= 2
  BY BookmarksAssumption DEF Bk!BkAssumption
<1>2. ASSUME NEW i \in Int PROVE Bk!PageWith(i) = IF i - Rows + 1 > 0 THEN i - Rows + 1 ELSE 0
  <2>1. PICK b \in Int : b = i - Rows + 1
    BY <1>1
  <2>2. Bk!Max({0, b}) = IF 0 >= b THEN 0 ELSE b
    BY MaxOfTwo
  <2>3. QED
    BY <2>1, <2>2 DEF Bk!PageWith
<1>3. QED
  BY <1>1, <1>2

LEMMA Whole == ASSUME NEW S \in Nat, NEW n \in Nat, S = 0 \/ S + Rows <= n PROVE ~Bk!Hangs(S, n)
  BY PageIs DEF Bk!Hangs

LEMMA Within ==
    ASSUME NEW H \in Nat, NEW S \in Nat, H >= S, H <= S + Rows - 1
    PROVE  H \in S..S + Rows - 1
  BY PageIs

(* The entry that is marked when the table was read again is in the window. *)
LEMMA MarkedIs ==
    ASSUME EditorTyped, Bk!Window, v5["ncftpbookmarks"] # "idle", NEW table \in Seq(Bk!Entries), Bk!Marked(table),
           v11' = table, v5'["ncftpbookmarks"] = "idle"
    PROVE  /\ v13' \in Nat /\ v14' \in Nat /\ v15' \in BOOLEAN /\ v16' \in BOOLEAN
           /\ Bk!Window'
<1>0. /\ v13 \in Nat /\ v14 \in Nat /\ v15 \in BOOLEAN /\ v16 \in BOOLEAN
      /\ v17.op \in {"start", "first", "search", "row"} /\ v17.to \in Int
      /\ Rows \in Nat /\ Rows >= 2
  BY PageIs DEF EditorTyped
<1>1. PICK n \in Nat : n = Len(table)
  OBVIOUS
<1>2. Bk!gNumBookmarks' = n /\ (table # <<>> => n > 0)
  <2>1. table # <<>> => n > 0
    BY <1>1
  <2>2. QED
    BY <1>1, <2>1 DEF Bk!gNumBookmarks
<1>3. SUFFICES /\ v13' \in Nat /\ v14' \in Nat /\ v15' \in BOOLEAN /\ v16' \in BOOLEAN
               /\ ~v16' => /\ v14' = 0 \/ v14' + Rows <= n
                           /\ v15' => /\ v13' >= v14'
                                      /\ v13' <= v14' + Rows - 1
                                      /\ v13' < n
                                         \/ (n = 0 /\ v13' = 0 /\ v14' = 0)
  <2>1. /\ v13' \in Nat /\ v14' \in Nat /\ v15' \in BOOLEAN /\ v16' \in BOOLEAN
    BY <1>3
  <2>2. SUFFICES ASSUME ~v16' PROVE Bk!Window'
    BY <2>1 DEF Bk!Window
  <2>3. ~Bk!Hangs(v14', Bk!gNumBookmarks')
    <3>1. v14' = 0 \/ v14' + Rows <= n
      BY <1>3, <2>2
    <3>2. PICK S \in Nat : S = v14'
      BY <2>1
    <3>3. ~Bk!Hangs(S, n)
      BY <3>1, <3>2, Whole
    <3>4. QED
      BY <1>2, <3>2, <3>3
  <2>4. ASSUME v15'
        PROVE  Bk!InWindow(v13)' /\ (v13' < Bk!gNumBookmarks'
                 \/ (Bk!gNumBookmarks' = 0 /\ v13' = 0 /\ v14' = 0))
    <3>1. /\ v13' >= v14' /\ v13' <= v14' + Rows - 1
          /\ v13' < n \/ (n = 0 /\ v13' = 0 /\ v14' = 0)
      BY <1>3, <2>2, <2>4
    <3>2. v13' \in v14'..v14' + Rows - 1
      <4>1. PICK H \in Nat, S \in Nat : H = v13' /\ S = v14'
        BY <2>1
      <4>2. H \in S..S + Rows - 1
        BY <3>1, <4>1, Within
      <4>3. QED
        BY <4>1, <4>2
    <3>3. Bk!InWindow(v13)'
      BY <3>2 DEF Bk!InWindow
    <3>4. QED
      BY <1>2, <3>1, <3>3
  <2>5. QED
    BY <2>2, <2>3, <2>4 DEF Bk!Window
<1>4. CASE v17.op = "start"
  <2>1. v13' = 0 /\ v14' = 0 /\ v15' = (table # <<>>) /\ v16' = FALSE
    BY <1>4 DEF Bk!Marked
  <2>2. v15' \in BOOLEAN /\ v16' \in BOOLEAN /\ (v15' => n > 0)
    BY <1>2, <2>1
  <2>3. v13' = 0 /\ v14' = 0
    BY <2>1
  <2>4. QED
    BY <1>0, <2>2, <2>3
<1>5. CASE v17.op = "first"
  <2>1. Bk!Marks(0)
    BY <1>5 DEF Bk!Marked
  <2>2. v13' = 0 /\ v14' = 0 /\ v15' = TRUE /\ v16' = FALSE
    <3>1. Bk!PageWith(0) = 0
      BY PageIs
    <3>2. QED
      BY <2>1, <3>1 DEF Bk!Marks
  <2>3. v15' \in BOOLEAN /\ v16' \in BOOLEAN
    BY <2>2
  <2>4. v13' = 0 /\ v14' = 0
    BY <2>2
  <2>5. QED
    BY <1>0, <2>3, <2>4
<1>6. CASE v17.op = "search"
  <2>1. PICK k : Bk!Marks(k - 1) /\ (k = 1 \/ k \in 1..n)
    <3>1. PICK found : found = {k \in 1..Len(table) : table[k].name = v17.to}
      OBVIOUS
    <3>2. \E k \in IF found = {} THEN {1} ELSE found : Bk!Marks(k - 1)
      BY <1>6, <3>1 DEF Bk!Marked
    <3>3. QED
      BY <1>1, <3>1, <3>2
  <2>2. k \in Nat /\ k >= 1 /\ (k = 1 \/ k <= n)
    BY <2>1
  <2>3. v13' = k - 1 /\ v15' = TRUE /\ v16' = FALSE
        /\ v14' = Bk!PageWith(k - 1)
    BY <2>1 DEF Bk!Marks
  <2>4. Bk!PageWith(k - 1) = IF k - 1 - Rows + 1 > 0 THEN k - 1 - Rows + 1 ELSE 0
    BY <2>2, PageIs
  <2>5. v15' \in BOOLEAN /\ v16' \in BOOLEAN
    BY <2>3
  <2>6. PICK h \in Nat : h = v13' /\ h = k - 1
    BY <2>2, <2>3
  <2>7. v14' = IF h - Rows + 1 > 0 THEN h - Rows + 1 ELSE 0
    BY <2>3, <2>4, <2>6
  <2>8. h = 0 \/ h < n
    BY <2>2, <2>6
  <2>9. n = 0 => h = 0 /\ v14' = 0
    BY <1>0, <2>7, <2>8
  <2>10. QED
    BY <1>0, <2>5, <2>6, <2>7, <2>8, <2>9
<1>7. CASE v17.op = "row"
  <2>1. /\ v15' = (v17.to >= 0)
        /\ v13' = CASE v17.to < 0 -> v13
                    [] v17.to >= 0 /\ v17.to < Len(table) -> v17.to
                    [] OTHER -> 0
        /\ v16' = (v16 \/ v17.to >= Len(table) \/ Bk!Hangs(v14, Len(table)))
        /\ v14' = v14
    BY <1>7 DEF Bk!Marked
  <2>2. v13' \in Nat /\ (v17.to >= 0 /\ v17.to < n => v13' = v17.to)
    BY <1>0, <1>1, <2>1
  <2>3. ASSUME ~v16'
        PROVE  /\ v14 = 0 \/ v14 + Rows <= n
               /\ v17.to < n
               /\ v17.to >= 0 => v17.to >= v14 /\ v17.to <= v14 + Rows - 1
    <3>1. ~v16 /\ ~(v17.to >= n) /\ ~Bk!Hangs(v14, n)
      BY <1>1, <2>1, <2>3
    <3>2. v17.to >= 0 => Bk!InWindow(v17.to)
      BY <1>7, <3>1 DEF Bk!Window
    <3>3. QED
      BY <1>0, <3>1, <3>2 DEF Bk!Hangs, Bk!InWindow
  <2>4. v15' \in BOOLEAN /\ v16' \in BOOLEAN
    BY <2>1
  <2>5. QED
    BY <1>0, <2>1, <2>2, <2>3, <2>4
<1>8. QED
  BY <1>0, <1>4, <1>5, <1>6, <1>7

LEMMA LoadStep == ASSUME Bk!BkInv, Bk!LoadBookmarkTable PROVE Bk!BkInv'
<1>0. /\ FilesTyped /\ KeptAtTyped /\ ProcsTyped /\ TableTyped /\ EditorTyped
      /\ Bk!NeverMissing /\ Bk!Saving /\ Bk!TableHas /\ Bk!Window /\ "ncftpbookmarks" \in Bk!Procs
  BY Parted, ProcsAre DEF Bk!BkInv
<1>1. /\ v5["ncftpbookmarks"] = "read" /\ Bk!OpenBookmarkFile
      /\ v8' = [v8 EXCEPT !["ncftpbookmarks"] = v1 = v6 /\ Len(v1.lines) = v12]
      /\ v5' = [v5 EXCEPT !["ncftpbookmarks"] = "idle"] /\ v12' = 0 /\ v17' = Bk!NoGoal
      /\ UNCHANGED <<v3, v4, v6, v7, v9, v10>>
  BY DEF Bk!LoadBookmarkTable
<1>2. PICK some, table : /\ some = SubSeq(v1.lines, 1, Bk!Min({v12, Len(v1.lines)}))
                         /\ table = Bk!SortBookmarks(some)
                         /\ v11' = table /\ Bk!Marked(table)
  BY DEF Bk!LoadBookmarkTable
<1>3. v1.lines \in Seq(Bk!Entries) /\ v12 \in Nat /\ Len(v1.lines) \in Nat
  <2>1. v1.lines \in Seq(Bk!Entries)
    BY <1>0, LinesTyped DEF FilesTyped
  <2>2. QED
    BY <1>0, <2>1 DEF EditorTyped
<1>4. some \in Seq(Bk!Entries) /\ (v12 = Len(v1.lines) => some = v1.lines)
  <2>1. PICK m : m = Bk!Min({v12, Len(v1.lines)})
    OBVIOUS
  <2>2. m = IF v12 <= Len(v1.lines) THEN v12 ELSE Len(v1.lines)
    BY <1>3, <2>1, MinOfTwo
  <2>3. m \in 0..Len(v1.lines) /\ (v12 = Len(v1.lines) => m = Len(v1.lines))
    BY <1>3, <2>2
  <2>4. QED
    BY <1>2, <1>3, <2>1, <2>3, FirstOf
<1>5. table \in Seq(Bk!Entries) /\ \A k \in 1..Len(some) : Holds(table, some[k])
  BY <1>2, <1>4, SortedIs
<1>6. KeptAtTyped' /\ v5'["ncftpbookmarks"] = "idle" /\ \A q \in Bk!Procs : q # "ncftpbookmarks" => v5'[q] = v5[q]
  BY <1>0, <1>1, ProcsAre DEF KeptAtTyped
<1>7. FilesTyped' /\ Bk!NeverMissing'
  <2>1. FilesTyped'
    BY <1>0, <1>1, OpenIs DEF FilesTyped
  <2>2. \A q \in Bk!Procs : v5[q] = "removed" => v5'[q] = "removed"
    BY <1>1, <1>6
  <2>3. QED
    BY <1>0, <1>1, <2>1, <2>2, OpenIs DEF Bk!NeverMissing
<1>8. ProcsTyped'
  <2>1. v8' \in [Bk!Procs -> BOOLEAN]
    BY <1>0, <1>1 DEF ProcsTyped
  <2>2. QED
    BY <1>0, <1>1, <2>1 DEF ProcsTyped
<1>9. TableTyped'
  <2>1. DOMAIN table = 1..Len(table) /\ Len(table) \in Nat
    BY <1>5
  <2>2. QED
    BY <1>2, <1>5, <2>1 DEF TableTyped
<1>10. EditorTyped' /\ Bk!Window'
  <2>1. /\ v13' \in Nat /\ v14' \in Nat /\ v15' \in BOOLEAN /\ v16' \in BOOLEAN
        /\ Bk!Window'
    <3>1. v5["ncftpbookmarks"] # "idle"
      BY <1>1
    <3>2. QED
      BY <1>0, <1>2, <1>5, <1>6, <3>1, MarkedIs
  <2>2. Bk!NoGoal \in [op : {"start", "first", "search", "row"}, to : Int]
    BY DEF Bk!NoGoal
  <2>3. QED
    BY <1>1, <2>1, <2>2 DEF EditorTyped
<1>11. Bk!Saving'
  <2>1. SUFFICES ASSUME NEW q \in Bk!Procs PROVE SavedBy(q)'
    BY Parted
  <2>2. SavedBy(q)
    BY <1>0, Parted
  <2>3. CASE q = "ncftpbookmarks"
    BY <1>6, <2>3 DEF SavedBy
  <2>4. CASE q # "ncftpbookmarks"
    <3>1. v8'[q] = v8[q] /\ v5'[q] = v5[q]
      BY <1>0, <1>1, <1>6, <2>4 DEF ProcsTyped
    <3>2. QED
      BY <1>1, <2>2, <3>1, SavedStays
  <2>5. QED
    BY <2>3, <2>4
<1>12. Bk!TableHas'
  <2>1. SUFFICES ASSUME v8'["ncftpbookmarks"], NEW k \in 1..Len(v6.lines)
                 PROVE  \E j \in 1..Len(table) : table[j] = v6.lines[k]
    BY <1>1, <1>2 DEF Bk!TableHas, Bk!gNumBookmarks
  <2>2. v1 = v6 /\ Len(v1.lines) = v12
    BY <1>0, <1>1, <2>1 DEF ProcsTyped
  <2>3. some = v6.lines
    BY <1>4, <2>2
  <2>4. QED
    BY <1>5, <2>1, <2>3 DEF Holds
<1>13. QED
  BY <1>6, <1>7, <1>8, <1>9, <1>10, <1>11, <1>12, Parted DEF Bk!BkInv
-----------------------------------------------------------------------------
(* The row that is marked when a key was typed is in the window.           *)
Hilited(i, start, last, n, size, H, S) ==
  \/ i < start /\ H = (IF i > 0 THEN i ELSE 0) /\ S = H
  \/ /\ i >= start /\ i > last /\ H = (IF i <= n - 1 THEN i ELSE n - 1)
     /\ S = IF H - (size - 1) > 0 THEN H - (size - 1) ELSE 0
  \/ i >= start /\ i <= last /\ H = i /\ S = start

LEMMA HilitedIs ==
    ASSUME NEW i \in Int, NEW start \in Nat, NEW last \in Int, NEW n \in Nat, n > 0, NEW H \in Nat, NEW S \in Nat,
           last < start + n, last < start + Rows,
           Hilited(i, start, last, n, Rows, H, S), ~Bk!Hangs(start, n) \/ ~Bk!Hangs(S, n)
    PROVE  ~Bk!Hangs(S, n) /\ H >= S /\ H <= S + Rows - 1 /\ H < n
<1>1. PICK size \in Nat : size = Rows /\ size >= 2
  BY PageIs
<1>2. (start = 0 \/ start + size <= n) \/ (S = 0 \/ S + size <= n)
  BY <1>1 DEF Bk!Hangs
<1>3. last < start + n /\ last < start + size
  BY <1>1
<1>4. SUFFICES (S = 0 \/ S + size <= n) /\ H >= S /\ H <= S + size - 1 /\ H < n
  BY <1>1 DEF Bk!Hangs
<1>5. Hilited(i, start, last, n, size, H, S)
  BY <1>1
<1>6. CASE i < start /\ H = (IF i > 0 THEN i ELSE 0) /\ S = H
  BY <1>1, <1>2, <1>6
<1>7. CASE /\ i >= start /\ i > last /\ H = (IF i <= n - 1 THEN i ELSE n - 1)
           /\ S = IF H - (size - 1) > 0 THEN H - (size - 1) ELSE 0
  BY <1>1, <1>7
<1>8. CASE i >= start /\ i <= last /\ H = i /\ S = start
  BY <1>1, <1>2, <1>3, <1>8
<1>9. QED
  BY <1>5, <1>6, <1>7, <1>8 DEF Hilited

LEMMA HilitedStep == ASSUME Bk!BkInv, NEW i \in Int, Bk!NewHilitedHostIndex(i) PROVE Bk!BkInv'
<1>0. /\ FilesTyped /\ KeptAtTyped /\ ProcsTyped /\ TableTyped /\ EditorTyped
      /\ Bk!NeverMissing /\ Bk!Saving /\ Bk!TableHas /\ Bk!Window
  BY Parted DEF Bk!BkInv
<1>1. /\ v5["ncftpbookmarks"] = "idle" /\ Bk!gNumBookmarks > 0 /\ v15' = TRUE
      /\ v16' = (v16 /\ Bk!Hangs(v14', Bk!gNumBookmarks))
      /\ UNCHANGED <<v1, v2, v3, v4, v5, v6, v7, v8, v9, v10>>
      /\ UNCHANGED <<v11, v12, v17>>
  BY DEF Bk!NewHilitedHostIndex
<1>2. PICK n \in Nat : n = Bk!gNumBookmarks /\ n > 0
  BY <1>0, <1>1 DEF TableTyped, Bk!gNumBookmarks
<1>3. /\ v13 \in Nat /\ v14 \in Nat /\ Rows \in Nat /\ Rows >= 2
  BY <1>0, PageIs DEF EditorTyped
<1>4. PICK last : last = v14 + Bk!Min({n, Rows}) - 1
  OBVIOUS
<1>5. last \in Int /\ last < v14 + n /\ last < v14 + Rows
  <2>1. PICK m : m = Bk!Min({n, Rows})
    OBVIOUS
  <2>2. m \in Nat /\ m <= n /\ m <= Rows
    BY <1>3, <2>1, MinOfTwo
  <2>3. last = v14 + m - 1
    BY <1>4, <2>1
  <2>4. QED
    BY <1>3, <2>2, <2>3
<1>6. \/ /\ i < v14
         /\ v13' = Bk!Max({0, i}) /\ v14' = Bk!Max({0, i})
      \/ /\ i >= v14 /\ i > last
         /\ v13' = Bk!Min({i, n - 1})
         /\ v14' = Bk!Max({0, v13' - (Rows - 1)})
      \/ /\ i >= v14 /\ i <= last
         /\ v13' = i /\ v14' = v14
  BY <1>2, <1>4 DEF Bk!NewHilitedHostIndex
<1>7. \/ /\ i < v14
         /\ v13' = (IF i > 0 THEN i ELSE 0) /\ v14' = v13'
      \/ /\ i >= v14 /\ i > last
         /\ v13' = (IF i <= n - 1 THEN i ELSE n - 1)
         /\ v14' = IF v13' - (Rows - 1) > 0 THEN v13' - (Rows - 1) ELSE 0
      \/ /\ i >= v14 /\ i <= last
         /\ v13' = i /\ v14' = v14
  <2>1. Bk!Max({0, i}) = IF i > 0 THEN i ELSE 0
    <3>1. Bk!Max({0, i}) = IF 0 >= i THEN 0 ELSE i
      BY MaxOfTwo
    <3>2. QED
      BY <3>1
  <2>2. Bk!Min({i, n - 1}) = IF i <= n - 1 THEN i ELSE n - 1
    BY MinOfTwo
  <2>3. ASSUME NEW h \in Int PROVE Bk!Max({0, h - (Rows - 1)}) = IF h - (Rows - 1) > 0 THEN h - (Rows - 1) ELSE 0
    <3>1. PICK d \in Int : d = h - (Rows - 1)
      BY <1>3
    <3>2. Bk!Max({0, d}) = IF 0 >= d THEN 0 ELSE d
      BY MaxOfTwo
    <3>3. QED
      BY <3>1, <3>2
  <2>4. CASE i < v14
    BY <1>3, <1>6, <2>1, <2>4
  <2>5. CASE i >= v14 /\ i > last
    <3>1. v13' = (IF i <= n - 1 THEN i ELSE n - 1) /\ v14' = Bk!Max({0, v13' - (Rows - 1)})
      BY <1>3, <1>5, <1>6, <2>2, <2>5
    <3>2. v13' \in Int
      BY <3>1
    <3>3. QED
      BY <2>3, <2>5, <3>1, <3>2
  <2>6. CASE i >= v14 /\ i <= last
    BY <1>3, <1>5, <1>6, <2>6
  <2>7. QED
    BY <1>3, <1>5, <2>4, <2>5, <2>6
<1>8. v13' \in Nat /\ v14' \in Nat
  BY <1>2, <1>3, <1>7
<1>9. EditorTyped'
  <2>1. v15' \in BOOLEAN /\ v16' \in BOOLEAN
    BY <1>1
  <2>2. QED
    BY <1>0, <1>1, <1>8, <2>1 DEF EditorTyped
<1>10. Bk!Window'
  <2>1. SUFFICES ASSUME ~v16'
                 PROVE  ~Bk!Hangs(v14', n) /\ Bk!InWindow(v13)' /\ v13' < n
    BY <1>1, <1>2 DEF Bk!Window, Bk!gNumBookmarks
  <2>2. PICK H, S : H = v13' /\ S = v14'
    OBVIOUS
  <2>3. H \in Nat /\ S \in Nat
    BY <1>8, <2>2
  <2>4. Hilited(i, v14, last, n, Rows, H, S)
    BY <1>7, <2>2 DEF Hilited
  <2>5. ~Bk!Hangs(v14, n) \/ ~Bk!Hangs(S, n)
    <3>1. ~v16 \/ ~Bk!Hangs(S, n)
      BY <1>1, <1>2, <2>1, <2>2
    <3>2. ~v16 => ~Bk!Hangs(v14, n)
      BY <1>0, <1>1, <1>2 DEF Bk!Window
    <3>3. QED
      BY <3>1, <3>2
  <2>6. ~Bk!Hangs(S, n) /\ H >= S /\ H <= S + Rows - 1 /\ H < n
    BY <1>2, <1>3, <1>5, <2>3, <2>4, <2>5, HilitedIs
  <2>7. H \in S..S + Rows - 1
    BY <1>3, <2>3, <2>6
  <2>8. QED
    BY <2>2, <2>6, <2>7 DEF Bk!InWindow
<1>11. FilesTyped' /\ KeptAtTyped' /\ ProcsTyped' /\ TableTyped' /\ Bk!NeverMissing'
  <2>1. FilesTyped' /\ KeptAtTyped'
    BY <1>0, <1>1 DEF FilesTyped, KeptAtTyped
  <2>2. ProcsTyped'
    BY <1>0, <1>1 DEF ProcsTyped
  <2>3. TableTyped' /\ Bk!NeverMissing'
    BY <1>0, <1>1 DEF TableTyped, Bk!NeverMissing
  <2>4. QED
    BY <2>1, <2>2, <2>3
<1>12. Bk!Saving'
  <2>1. SUFFICES ASSUME NEW q \in Bk!Procs PROVE SavedBy(q)'
    BY Parted
  <2>2. SavedBy(q)
    BY <1>0, Parted
  <2>3. QED
    BY <1>1, <2>2, SavedStays
<1>13. Bk!TableHas'
  BY <1>0, <1>1, TableStays
<1>14. QED
  BY <1>9, <1>10, <1>11, <1>12, <1>13, Parted DEF Bk!BkInv

LEMMA BooksStep == ASSUME Bk!BkInv, Bk!BkNext PROVE Bk!BkInv'
<1>1. ASSUME Bk!Moves PROVE Bk!BkInv'
  <2>1. PICK by \in {-1, 1, -Rows, Rows} : Bk!NewHilitedHostIndex(v13 + by)
    BY <1>1 DEF Bk!Moves
  <2>2. v13 + by \in Int
    BY PageIs, Parted, <2>1 DEF Bk!BkInv, EditorTyped
  <2>3. QED
    BY <2>1, <2>2, HilitedStep
<1>2. ASSUME Bk!HostWinZoomTo PROVE Bk!BkInv'
  <2>1. PICK i \in 0..Bk!gNumBookmarks - 1 : Bk!NewHilitedHostIndex(i)
    BY <1>2 DEF Bk!HostWinZoomTo
  <2>2. i \in Int
    BY <2>1
  <2>3. QED
    BY <2>1, <2>2, HilitedStep
<1>3. QED
  BY <1>1, <1>2, PutStep, RemovesStep, RenamesStep, DiesStep, EditStep, CountsStep, LoadStep DEF Bk!BkNext

LEMMA BooksSafe == ASSUME Bk!BkInv PROVE Bk!BkTypeOK /\ Bk!NeverMissing /\ Bk!Shows
<1>1. /\ FilesTyped /\ KeptAtTyped /\ EditorTyped /\ Bk!Window /\ Bk!NeverMissing
  BY Parted DEF Bk!BkInv
<1>2. Bk!BkTypeOK
  <2>1. v1.lines # <<>> => v1.there
    BY <1>1, NoFileIs DEF FilesTyped, Good
  <2>2. DOMAIN v5 = Bk!Procs
    BY <1>1 DEF KeptAtTyped
  <2>3. v13 >= 0 /\ v14 >= 0
    BY <1>1 DEF EditorTyped
  <2>4. QED
    BY <2>1, <2>2, <2>3 DEF Bk!BkTypeOK
<1>3. Bk!Shows
  <2>1. SUFFICES ASSUME v5["ncftpbookmarks"] = "idle", v15, ~v16, Bk!gNumBookmarks > 0
                 PROVE  Bk!InWindow(v13) /\ v13 < Bk!gNumBookmarks
    BY DEF Bk!Shows, Bk!InWindow
  <2>2. Bk!InWindow(v13) /\ (v13 < Bk!gNumBookmarks \/ Bk!gNumBookmarks = 0)
    BY <1>1, <2>1 DEF Bk!Window
  <2>3. QED
    BY <2>1, <2>2
<1>4. QED
  BY <1>1, <1>2, <1>3

(* A process saves what it was to save when it renames its file.           *)
LEMMA BooksSaveOne == ASSUME Bk!BkInv, Bk!BkNext \/ UNCHANGED Bk!bkvars PROVE Bk!SavesOne
<1>0. /\ FilesTyped /\ KeptAtTyped /\ ProcsTyped /\ Bk!Saving
  BY Parted DEF Bk!BkInv
<1>1. SUFFICES ASSUME NEW p \in Bk!Procs, v5[p] = "removed", v5'[p] \in {"idle", "count"}, v8[p], v9[p] = {}
               PROVE  /\ Bk!Kept(p) /\ v1'.there
                      /\ p \in Writers => \A n \in v7[p].names : Bk!GetBookmark(n, v1'.lines)[1].by = v7[p].by
  BY DEF Bk!SavesOne, Bk!SaveOf
<1>2. Bk!Renames(p)
  <2>1. ASSUME NEW q \in Bk!Procs, v5[q] # "removed", NEW v, v5' = [v5 EXCEPT ![q] = v] PROVE FALSE
    BY <1>0, <1>1, <2>1 DEF KeptAtTyped
  <2>2. v5' # v5
    BY <1>1
  <2>3. Bk!BkNext
    BY <2>2 DEF Bk!bkvars
  <2>4. CASE \E q \in Writers : Bk!PutBookmark(q)
    <3>1. PICK q \in Writers : v5[q] = "idle" /\ v5' = [v5 EXCEPT ![q] = "written"]
      BY <2>4 DEF Bk!PutBookmark
    <3>2. QED
      BY <2>1, <3>1, ProcsAre
  <2>5. CASE \E q \in Bk!Procs : Bk!Removes(q)
    <3>1. PICK q \in Bk!Procs : v5[q] = "written" /\ v5' = [v5 EXCEPT ![q] = "removed"]
      BY <2>5 DEF Bk!Removes
    <3>2. QED
      BY <2>1, <3>1
  <2>6. CASE \E q \in Bk!Procs : Bk!Dies(q)
    <3>1. PICK q \in Bk!Procs : v5' = [v5 EXCEPT ![q] = "gone"]
      BY <2>6 DEF Bk!Dies
    <3>2. v5'[p] \in {v5[p], "gone"}
      BY <1>0, <3>1 DEF KeptAtTyped
    <3>3. QED
      BY <1>1, <3>2
  <2>7. CASE \E q \in Bk!Procs : Bk!Renames(q)
    <3>1. PICK q \in Bk!Procs : Bk!Renames(q)
      BY <2>7
    <3>2. PICK w : v5' = [v5 EXCEPT ![q] = w]
      BY <3>1 DEF Bk!Renames
    <3>3. q = p
      BY <1>0, <1>1, <3>2 DEF KeptAtTyped
    <3>4. QED
      BY <3>1, <3>3
  <2>8. CASE Bk!HostWinNew \/ Bk!HostWinDup \/ Bk!HostWinEdit \/ Bk!HostWinDelete
    <3>1. PICK v : v5["ncftpbookmarks"] = "idle" /\ v5' = [v5 EXCEPT !["ncftpbookmarks"] = v]
      BY <2>8 DEF Bk!HostWinNew, Bk!HostWinDup, Bk!HostWinEdit, Bk!HostWinDelete, Bk!SaveAndReload
    <3>2. QED
      BY <2>1, <3>1, ProcsAre
  <2>9. CASE Bk!Counts \/ Bk!LoadBookmarkTable
    <3>1. PICK v : v5["ncftpbookmarks"] # "removed" /\ v5' = [v5 EXCEPT !["ncftpbookmarks"] = v]
      BY <2>9 DEF Bk!Counts, Bk!LoadBookmarkTable
    <3>2. QED
      BY <2>1, <3>1, ProcsAre
  <2>10. CASE Bk!Moves \/ Bk!HostWinZoomTo
    BY <2>2, <2>10 DEF Bk!Moves, Bk!HostWinZoomTo, Bk!NewHilitedHostIndex
  <2>11. QED
    BY <2>3, <2>4, <2>5, <2>6, <2>7, <2>8, <2>9, <2>10 DEF Bk!BkNext
<1>3. SavedBy(p)
  BY <1>0, Parted
<1>4. v1'.there /\ v1'.lines = v3[p]
  <2>1. v3[p] \in Seq(Bk!Entries)
    BY <1>0 DEF ProcsTyped
  <2>2. v1' = Bk!File(v3[p])
    BY <1>2 DEF Bk!Renames
  <2>3. QED
    BY <2>1, <2>2, FileIs
<1>5. QED
  BY <1>1, <1>3, <1>4 DEF SavedBy
-----------------------------------------------------------------------------
(***************************************************************************)
(* All of them.                                                            *)
(***************************************************************************)
FilesInv == /\ part = "prefs" => Pf!PfInv
            /\ part = "log" => Lg!LgInv
            /\ part = "book" => Bk!BkInv
            /\ part = "bookline" => Bl!BlInv

LEMMA FilesStart == MCInit => FilesInv
<1>1. MCInit /\ part = "prefs" => Pf!PfInv
  BY SettingsStart DEF MCInit
<1>2. MCInit /\ part = "log" => Lg!LgInv
  BY LogStarts DEF MCInit
<1>3. MCInit /\ part = "book" => Bk!BkInv
  BY BooksStart DEF MCInit
<1>4. MCInit /\ part = "bookline" => Bl!BlInv
  BY DEF MCInit, Bl!BlInit, Bl!BlInv
<1>5. QED
  BY <1>1, <1>2, <1>3, <1>4 DEF FilesInv

LEMMA LineStays == ASSUME Bl!BlInv, UNCHANGED <<v1, v2, v3>> PROVE Bl!BlInv'
<1>1. v1' = v1 /\ v2' = v2 /\ v3' = v3
  OBVIOUS
<1>2. Bl!WriteBmLine' = Bl!WriteBmLine
  BY <1>1 DEF Bl!WriteBmLine
<1>3. QED
  BY <1>1, <1>2 DEF Bl!BlInv

LEMMA FilesStep == ASSUME FilesInv, [MCNext]_all PROVE FilesInv'
<1>0. part' = part
  BY DEF MCNext, all
<1>1. ASSUME part = "prefs" PROVE Pf!PfInv'
  <2>1. Pf!PfNext \/ UNCHANGED Pf!pfvars
    BY <1>1 DEF MCNext, all, Pf!pfvars
  <2>2. QED
    BY <1>1, <2>1, SettingsStep, SettingsStutter DEF FilesInv
<1>2. ASSUME part = "log" PROVE Lg!LgInv'
  <2>1. Lg!LgNext \/ UNCHANGED <<v1, v2, v3, v4, v5, v6, v7>>
    BY <1>2 DEF MCNext, all
  <2>2. QED
    BY <1>2, <2>1, LogStep, LogStutter DEF FilesInv
<1>3. ASSUME part = "book" PROVE Bk!BkInv'
  <2>1. Bk!BkNext \/ UNCHANGED Bk!bkvars
    BY <1>3 DEF MCNext, all, Bk!bkvars
  <2>2. QED
    BY <1>3, <2>1, BooksStep, BooksStutter DEF FilesInv
<1>4. ASSUME part = "bookline" PROVE Bl!BlInv'
  <2>1. UNCHANGED <<v1, v2, v3>>
    BY <1>4 DEF MCNext, all, Bl!BlNext, Bl!bmvars
  <2>2. QED
    BY <1>4, <2>1, LineStays DEF FilesInv
<1>5. QED
  BY <1>0, <1>1, <1>2, <1>3, <1>4 DEF FilesInv

(* A connection runs with the settings in force, what was set and saved is *)
(* there for the next session, and a log cut to its size is still true:    *)
(* for any number of sessions, whatever files they find, any settings and  *)
(* any log (pref.c, preffw.c, main.c, log.c).                              *)
THEOREM SettingsAreKept == MCSpec => SettingsKept
<1>1. FilesInv /\ [MCNext]_all => FilesInv'
  BY FilesStep
<1>2. FilesInv => (part = "prefs" => Pf!PfTypeOK /\ Pf!InForce /\ Pf!PrefsThere)
  BY SettingsSafe DEF FilesInv
<1>3. FilesInv => (part = "log" => Lg!Attributed)
  BY DEF FilesInv, Lg!LgInv
<1>4. FilesInv /\ [MCNext]_all => [part = "prefs" => Pf!Remembered]_all
  <2>1. SUFFICES ASSUME FilesInv, MCNext, part = "prefs" PROVE Pf!Remembered
    OBVIOUS
  <2>2. Pf!PfInv /\ Pf!PfNext
    BY <2>1 DEF FilesInv, MCNext
  <2>3. QED
    BY <2>2, SettingsRemembered
<1>5. FilesInv /\ [MCNext]_all => [part = "log" => Lg!CutsWell]_all
  <2>1. SUFFICES ASSUME FilesInv, MCNext, part = "log" PROVE Lg!CutsWell
    OBVIOUS
  <2>2. Lg!LgInv /\ Lg!LgNext
    BY <2>1 DEF FilesInv, MCNext
  <2>3. QED
    BY <2>2, LogCutsWell
<1>6. QED
  BY FilesStart, <1>1, <1>2, <1>3, <1>4, <1>5, PTL DEF MCSpec, SettingsKept

(* The file of bookmarks is missing only while a process is about to       *)
(* rename its own, each process changes in it the one bookmark it was to   *)
(* change, any text of a bookmark is read back, and ncftpbookmarks shows   *)
(* the row it marks: for any number of shells, any file they find, any     *)
(* names, any window of two rows or more, any text and room for it         *)
(* (bookmark.c, bmed.c).                                                   *)
THEOREM BookmarksAreKept == MCSpec => BookmarksKept
<1>1. FilesInv /\ [MCNext]_all => FilesInv'
  BY FilesStep
<1>2. FilesInv => (part = "book" => Bk!BkTypeOK /\ Bk!NeverMissing /\ Bk!Shows)
  BY BooksSafe DEF FilesInv
<1>3. FilesInv => (part = "bookline" => Bl!ReadsBack)
  BY LineIsReadBack DEF FilesInv
<1>4. FilesInv /\ [MCNext]_all => [part = "book" => Bk!SavesOne]_all
  <2>1. SUFFICES ASSUME FilesInv, MCNext, part = "book" PROVE Bk!SavesOne
    OBVIOUS
  <2>2. Bk!BkInv /\ Bk!BkNext
    BY <2>1 DEF FilesInv, MCNext
  <2>3. QED
    BY <2>2, BooksSaveOne
<1>5. QED
  BY FilesStart, <1>1, <1>2, <1>3, <1>4, PTL DEF MCSpec, BookmarksKept

-----------------------------------------------------------------------------
(***************************************************************************)
(* The programs.  A behaviour is of one of them.                           *)
(***************************************************************************)
ToolsInv == /\ part = "getput" => Ut!UtInv
            /\ part = "ls" => Ls!LsInv

(* ncftpget and ncftpput open and spool with what the command line says,   *)
(* whatever the bookmarks and files are, and tell by the exit status how   *)
(* it went, whatever comes of each file; ncftpls lists what each URL names *)
(* on its own host as its own user, over one connection, with -R the whole *)
(* tree: for every command line, every list of URLs and every tree of      *)
(* directories (ncftpget.c, ncftpput.c, gpshare.c, ncftpls.c).             *)
THEOREM ToolsAreRight == MCSpec => []ToolsRight
<1>1. MCInit => ToolsInv
  BY UtStarts, LsStarts DEF MCInit, ToolsInv
<1>2. ToolsInv /\ [MCNext]_all => ToolsInv'
  <2>1. SUFFICES ASSUME ToolsInv, [MCNext]_all PROVE ToolsInv'
    OBVIOUS
  <2>2. CASE UNCHANGED all
    <3>1. part' = part
      BY <2>2 DEF all
    <3>2. QED
      BY <2>1, <2>2, <3>1, UtStutter, LsStutter DEF ToolsInv
  <2>3. CASE MCNext
    <3>1. part' = part
      BY <2>3 DEF MCNext
    <3>2. ASSUME part = "getput" PROVE Ut!UtInv'
      <4>1. Ut!UtNext
        BY <2>3, <3>2 DEF MCNext
      <4>2. QED
        BY <2>1, <3>2, <4>1, UtStep DEF ToolsInv
    <3>3. ASSUME part = "ls" PROVE Ls!LsInv'
      <4>1. Ls!LsNext
        BY <2>3, <3>3 DEF MCNext
      <4>2. QED
        BY <2>1, <3>3, <4>1, LsStep DEF ToolsInv
    <3>4. QED
      BY <3>1, <3>2, <3>3 DEF ToolsInv
  <2>4. QED
    BY <2>1, <2>2, <2>3
<1>3. ToolsInv => ToolsRight
  BY UtSafe, LsSafe DEF ToolsInv, ToolsRight
<1>4. QED
  BY <1>1, <1>2, <1>3, PTL DEF MCSpec

JobsInv == /\ part = "spooler" => Bi!BiInv
           /\ part = "sleep" => Sl!SlInv

LEMMA JobsStart == MCInit => JobsInv
  BY BiStarts, SlStarts DEF MCInit, JobsInv

LEMMA JobsStep == ASSUME JobsInv, [MCNext]_all PROVE JobsInv'
<1>1. CASE UNCHANGED all
  <2>1. part' = part
    BY <1>1 DEF all
  <2>2. QED
    BY <1>1, <2>1, BiStutter, SlStutter DEF JobsInv
<1>2. CASE MCNext
  <2>1. part' = part
    BY <1>2 DEF MCNext
  <2>2. ASSUME part = "spooler" PROVE Bi!BiInv'
    <3>1. Bi!BiNext
      BY <1>2, <2>2 DEF MCNext
    <3>2. QED
      BY <2>2, <3>1, BiStep DEF JobsInv
  <2>3. ASSUME part = "sleep" PROVE Sl!SlInv'
    <3>1. Sl!SleepAndPass
      BY <1>2, <2>3 DEF MCNext
    <3>2. QED
      BY <2>3, <3>1, SlStep DEF JobsInv
  <2>4. QED
    BY <2>1, <2>2, <2>3 DEF JobsInv
<1>3. QED
  BY <1>1, <1>2

(* The spooler moves each job's files as its own user between its own      *)
(* directories, on whatever connection; does not wait twice for a host     *)
(* that is down; keeps a job whose connection broke; and sleeps between    *)
(* the passes for a time within its limits: for any jobs, any connection   *)
(* that ncftp leaves it, any delays and any number of passes               *)
(* (ncftpbatch.c).                                                         *)
THEOREM JobsAreCarried == MCSpec => JobsCarried
<1>1. JobsInv /\ [MCNext]_all => JobsInv'
  BY JobsStep
<1>2. JobsInv => (part = "spooler" => Bi!BiTypeOK /\ Bi!RightPlace)
  BY BiSafe DEF JobsInv
<1>3. JobsInv => (part = "sleep" => Sl!SleepsSoundly)
  BY DEF JobsInv, Sl!SlInv
<1>4. JobsInv /\ [MCNext]_all => [part = "spooler" => Bi!SkipsFailed /\ Bi!KeepsJob]_all
  <2>1. SUFFICES ASSUME JobsInv, MCNext, part = "spooler" PROVE Bi!SkipsFailed /\ Bi!KeepsJob
    OBVIOUS
  <2>2. Bi!BiInv /\ Bi!BiNext
    BY <2>1 DEF JobsInv, MCNext
  <2>3. QED
    BY <2>2, BiStepSafe
<1>5. QED
  BY JobsStart, <1>1, <1>2, <1>3, <1>4, PTL DEF MCSpec, JobsCarried

TreesInv == part = "tree" => Tr!TrInv

(* A recursive get or put and a background one that say they went well     *)
(* have made the whole tree, each directory, file and link at its place    *)
(* and nothing else, and they say so whenever nothing was refused; and     *)
(* however they end, no file is put where another belongs: for every tree, *)
(* every argument, every order of the entries in a directory and every     *)
(* point at which something fails (ftw.c, rftw.c, lglobr.c, rglobr.c,      *)
(* io_getfiles.c, io_putfiles.c, cmds.c).                                  *)
THEOREM TreesAreCopied == MCSpec => []TreesCopied
<1>1. MCInit => TreesInv
  BY TreeStarts DEF MCInit, TreesInv
<1>2. TreesInv /\ [MCNext]_all => TreesInv'
  <2>1. SUFFICES ASSUME TreesInv, [MCNext]_all PROVE TreesInv'
    OBVIOUS
  <2>2. CASE UNCHANGED all
    <3>1. part' = part
      BY <2>2 DEF all
    <3>2. QED
      BY <2>1, <2>2, <3>1, TreeLeft DEF TreesInv
  <2>3. CASE MCNext
    <3>1. part' = part
      BY <2>3 DEF MCNext
    <3>2. ASSUME part = "tree" PROVE Tr!TrInv'
      <4>1. Tr!TrNext
        BY <2>3, <3>2 DEF MCNext
      <4>2. QED
        BY <2>1, <3>2, <4>1, TreeStep DEF TreesInv
    <3>3. QED
      BY <3>1, <3>2 DEF TreesInv
  <2>4. QED
    BY <2>1, <2>2, <2>3
<1>3. TreesInv => TreesCopied
  BY TreeSafe DEF TreesInv, TreesCopied
<1>4. QED
  BY <1>1, <1>2, <1>3, PTL DEF MCSpec
=============================================================================
