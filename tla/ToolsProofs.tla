----------------------------- MODULE ToolsProofs -----------------------------
(***************************************************************************)
(* What TLAPS proves of ncftpget, ncftpput, ncftpls and ncftpspooler and   *)
(* of the tree walk, for every value of their constants: the inductive     *)
(* invariant of each, that every step preserves it, and what follows from  *)
(* it.  ProgramsProofs states the theorems.                                *)
(***************************************************************************)
EXTENDS ToolsMC, FiniteSetTheorems, SequenceTheorems, WellFoundedInduction, TLAPS

-----------------------------------------------------------------------------
(***************************************************************************)
(* ncftpget and ncftpput.                                                  *)
(***************************************************************************)
LEMMA CommandTyped ==
    ASSUME Ut!UtTypes
    PROVE  /\ v1 \in Ut!Commands /\ v1.files # <<>>
           /\ v1.files \in Seq(Ut!Path) /\ v1.dst \in Ut!Path /\ v1.batch \in Nat
           /\ v1.given \subseteq Ut!Settings
           /\ LoginDir \in Ut!Dirs /\ BookmarkDir \in Ut!Dirs
<1>1. v1 \in Ut!Commands /\ v1.files # <<>> /\ LoginDir \in Ut!Dirs /\ BookmarkDir \in Ut!Dirs
  BY UtilitiesAssumption DEF Ut!UtAssumption, Ut!UtTypes
<1>2. QED
  BY <1>1 DEF Ut!Commands

LEMMA PathTyped == ASSUME NEW p \in Ut!Path PROVE p.abs \in BOOLEAN /\ p.dirs \in Ut!Dirs
  BY DEF Ut!Path

LEMMA Joined == ASSUME NEW c \in Ut!Dirs, NEW d \in Ut!Dirs PROVE c \o d \in Ut!Dirs
  BY DEF Ut!Dirs

LEMMA AtTyped == ASSUME v6 \in Ut!Dirs, NEW p \in Ut!Path PROVE Ut!At(p) \in Ut!Dirs
  BY PathTyped, Joined DEF Ut!At

LEMMA FromLoginTyped ==
    ASSUME LoginDir \in Ut!Dirs, NEW p \in Ut!Path PROVE Ut!FromLogin(p) \in Ut!Dirs
  BY PathTyped, Joined DEF Ut!FromLogin

LEMMA RestOf ==
    ASSUME NEW S, NEW s \in Seq(S), s # <<>>
    PROVE  /\ Head(s) \in S /\ Tail(s) \in Seq(S) /\ Len(Tail(s)) = Len(s) - 1 /\ Head(s) = s[1]
           /\ \A k \in DOMAIN Tail(s) : k + 1 \in DOMAIN s /\ Tail(s)[k] = s[k + 1]
  OBVIOUS

LEMMA RestOfLast ==
    ASSUME NEW S, NEW s \in Seq(S), s # <<>>, NEW t \in Seq(S), Len(s) <= Len(t),
           \A k \in DOMAIN s : s[k] = t[Len(t) - Len(s) + k]
    PROVE  \A k \in DOMAIN Tail(s) : Tail(s)[k] = t[Len(t) - Len(Tail(s)) + k]
<1>1. TAKE k \in DOMAIN Tail(s)
<1>2. k + 1 \in DOMAIN s /\ Tail(s)[k] = s[k + 1] /\ Len(Tail(s)) = Len(s) - 1
  BY RestOf
<1>3. k \in Int /\ Len(t) \in Int /\ Len(s) \in Int
  BY <1>1
<1>4. Len(t) - Len(s) + (k + 1) = Len(t) - Len(Tail(s)) + k
  BY <1>2, <1>3
<1>5. QED
  BY <1>2, <1>4

LEMMA ReadTyped ==
    ASSUME v3 \in [Ut!Settings -> Ut!Sources], NEW what
    PROVE  Ut!ReadConfigFile(what) \in [Ut!Settings -> Ut!Sources]
  BY DEF Ut!ReadConfigFile, Ut!Settings, Ut!Sources

LEMMA UtKeepsTypes == ASSUME Ut!UtTypes, Ut!FilesLeft, Ut!UtNext PROVE Ut!UtTypes'
<1>. USE DEF Ut!UtTypes, Ut!Exit, Ut!signals
<1>1. CASE Ut!Options
  BY <1>1, ReadTyped DEF Ut!Options
<1>2. CASE Ut!HostArgument
  <2>1. UNCHANGED <<v1, v6, v8, v9, v11, v12, v14>> /\ v2 = "host" /\ v2' = "override"
    BY <1>2 DEF Ut!HostArgument
  <2>2. v4' \in {"none", "config", "bookmark"}
    BY <1>2 DEF Ut!HostArgument
  <2>3. \A f \in [Ut!Settings -> Ut!Sources], x \in Ut!Sources : [f EXCEPT !.host = x] \in [Ut!Settings -> Ut!Sources]
    OBVIOUS
  <2>4. "argument" \in Ut!Sources
    BY DEF Ut!Sources
  <2>5. \A f \in [Ut!Settings -> Ut!Sources] : f.host \in Ut!Sources
    BY DEF Ut!Settings
  <2>6. v3' \in [Ut!Settings -> Ut!Sources]
    <3>. DEFINE looked == Ut!ReadConfigFile(v1.hostArg)
    <3>1. looked \in [Ut!Settings -> Ut!Sources]
      BY ReadTyped
    <3>2. \/ v3' = v3 \/ v3' = [v3 EXCEPT !.host = "argument"]
          \/ v3' = [looked EXCEPT !.host = IF @ = "" THEN "argument" ELSE @]
      BY <1>2 DEF Ut!HostArgument
    <3>. HIDE DEF looked
    <3>3. (IF looked.host = "" THEN "argument" ELSE looked.host) \in Ut!Sources
      BY <3>1, <2>4, <2>5
    <3>4. QED
      BY <3>1, <3>2, <3>3, <2>3, <2>4
  <2>7. QED
    BY <2>1, <2>2, <2>6
<1>3. CASE Ut!Ready
  BY <1>3 DEF Ut!Ready, Ut!Override, Ut!Sources
<1>4. CASE Ut!SpoolNext
  BY <1>4, RestOf, CommandTyped, FromLoginTyped DEF Ut!SpoolNext
<1>5. CASE Ut!SpoolEnds
  BY <1>5 DEF Ut!SpoolEnds
<1>6. CASE Ut!Open
  BY <1>6 DEF Ut!Open
<1>7. CASE Ut!ToBookmark
  BY <1>7, CommandTyped, Joined DEF Ut!ToBookmark
<1>8. CASE Ut!Change
  BY <1>8, CommandTyped, AtTyped DEF Ut!Change
<1>9. CASE Ut!CopyNext
  BY <1>9 DEF Ut!CopyNext
<1>10. CASE Ut!CopyEnds
  <2>1. /\ UNCHANGED <<v1, v3, v4, v6, v11, v12, v14>> /\ v2 = "transfer" /\ v2' = "copy" /\ v8' = Tail(v8)
    BY <1>10 DEF Ut!CopyEnds
  <2>2. Head(v8) \in Ut!Path /\ v8' \in Seq(Ut!Path)
    BY <2>1, RestOf DEF Ut!FilesLeft
  <2>3. PICK o \in Ut!Outcome :
          v9' = Append(v9, [out |-> o, at |-> IF Ut!Cat \/ v1.prog = "get" THEN Ut!At(Head(v8)) ELSE v6])
    BY <1>10 DEF Ut!CopyEnds
  <2>4. o \in Ut!Outcomes /\ Ut!At(Head(v8)) \in Ut!Dirs
    BY <2>2, AtTyped DEF Ut!Outcome, Ut!Outcomes
  <2>5. v9' \in Seq([out : Ut!Outcomes, at : Ut!Dirs])
    BY <2>3, <2>4
  <2>6. QED
    BY <2>1, <2>2, <2>5
<1>11. CASE Ut!Abort
  BY <1>11 DEF Ut!Abort
<1>12. CASE Ut!Finish
  BY <1>12 DEF Ut!Finish
<1>13. QED
  BY <1>1, <1>2, <1>3, <1>4, <1>5, <1>6, <1>7, <1>8, <1>9, <1>10, <1>11, <1>12 DEF Ut!UtNext

(* Where each setting was read.                                            *)
LEMMA UtKeepsRead == ASSUME Ut!UtTypes, Ut!ReadSoFar, Ut!UtNext PROVE Ut!ReadSoFar'
<1>. USE DEF Ut!UtTypes, Ut!ReadSoFar, Ut!Exit, Ut!signals, Ut!SaidBy
<1>1. CASE Ut!Options
  BY <1>1 DEF Ut!Options, Ut!ReadConfigFile, Ut!FromArgs, Ut!Settings
<1>2. CASE Ut!HostArgument
  BY <1>2, CommandTyped DEF Ut!HostArgument, Ut!ReadConfigFile, Ut!Settings, Ut!HostWanted
<1>3. CASE Ut!Ready
  BY <1>3, CommandTyped DEF Ut!Ready, Ut!Override, Ut!Settings
<1>4. CASE Ut!SpoolNext
  BY <1>4 DEF Ut!SpoolNext
<1>5. CASE Ut!SpoolEnds
  BY <1>5 DEF Ut!SpoolEnds
<1>6. CASE Ut!Open
  BY <1>6 DEF Ut!Open
<1>7. CASE Ut!ToBookmark
  BY <1>7 DEF Ut!ToBookmark
<1>8. CASE Ut!Change
  BY <1>8 DEF Ut!Change
<1>9. CASE Ut!CopyNext
  BY <1>9 DEF Ut!CopyNext
<1>10. CASE Ut!CopyEnds
  BY <1>10 DEF Ut!CopyEnds
<1>11. CASE Ut!Abort
  BY <1>11 DEF Ut!Abort
<1>12. CASE Ut!Finish
  BY <1>12 DEF Ut!Finish
<1>13. QED
  BY <1>1, <1>2, <1>3, <1>4, <1>5, <1>6, <1>7, <1>8, <1>9, <1>10, <1>11, <1>12 DEF Ut!UtNext

(* The files still to do, those done, and the jobs spooled.                *)
LEMMA UtKeepsFiles == ASSUME Ut!UtTypes, Ut!ReadSoFar, Ut!FilesLeft, Ut!UtNext PROVE Ut!FilesLeft'
<1>. USE DEF Ut!FilesLeft, Ut!Exit, Ut!signals, Ut!Moved
<1>0. v8 \in Seq(Ut!Path) /\ v9 \in Seq([out : Ut!Outcomes, at : Ut!Dirs])
      /\ v14 \in Seq([done : BOOLEAN, at : Ut!Dirs])
  BY DEF Ut!UtTypes
<1>. DEFINE Last(t) == \A k \in DOMAIN t : t[k] = v1.files[Len(v1.files) - Len(t) + k]
<1>a. ASSUME v8 # <<>> PROVE Last(Tail(v8))
  <2>1. v1.files \in Seq(Ut!Path) /\ Len(v8) <= Len(v1.files)
    <3>1. v1.files \in Seq(Ut!Path)
      BY CommandTyped
    <3>2. Len(v9) \in Nat /\ Len(v14) \in Nat /\ Len(v8) \in Nat
      BY <1>0
    <3>3. QED
      BY <3>1, <3>2
  <2>2. Last(v8)
    OBVIOUS
  <2>3. QED
    BY <1>0, <1>a, <2>1, <2>2, RestOfLast
<1>1. CASE Ut!Options
  BY <1>1 DEF Ut!Options
<1>2. CASE Ut!HostArgument
  BY <1>2 DEF Ut!HostArgument
<1>3. CASE Ut!Ready
  BY <1>3 DEF Ut!Ready
<1>4. CASE Ut!SpoolNext
  <2>1. /\ UNCHANGED <<v1, v2, v9>> /\ v2 = "spool" /\ v8 # <<>> /\ v8' = Tail(v8)
        /\ v9 = <<>>
    BY <1>4 DEF Ut!SpoolNext
  <2>. DEFINE F == IF v1.prog = "get" THEN Head(v8) ELSE v1.dst
  <2>2. PICK done \in BOOLEAN : v14' = Append(v14, [done |-> done, at |-> Ut!FromLogin(F)])
    BY <1>4 DEF Ut!SpoolNext
  <2>3. /\ Len(v8') = Len(v8) - 1 /\ Head(v8) = v8[1] /\ v8' \in Seq(Ut!Path)
        /\ \A k \in DOMAIN v8' : k + 1 \in DOMAIN v8 /\ v8'[k] = v8[k + 1]
    BY <1>0, <2>1, RestOf
  <2>4. /\ Len(v14') = Len(v14) + 1 /\ v14'[Len(v14) + 1].at = Ut!FromLogin(F)
        /\ \A k \in 1..Len(v14) : v14'[k] = v14[k]
    BY <1>0, <2>2
  <2>5. Len(v14) + Len(v8) = Len(v1.files) /\ Len(v14) \in Nat /\ Len(v8) \in Nat
    BY <1>0, <2>1
  <2>6. Head(v8) = v1.files[Len(v14) + 1]
    <3>1. 1 \in DOMAIN v8 /\ Len(v1.files) - Len(v8) + 1 = Len(v14) + 1
      BY <1>0, <2>1, <2>5
    <3>2. v8[1] = v1.files[Len(v1.files) - Len(v8) + 1]
      BY <3>1, <2>1, <1>a
    <3>3. QED
      BY <2>3, <3>1, <3>2
  <2>7. \A k \in DOMAIN v8' : v8'[k] = v1.files[Len(v1.files) - Len(v8') + k]
    BY <2>1, <1>a
  <2>8. \A k \in DOMAIN v14' : v14'[k].at = Ut!FromLogin(IF v1.prog = "get" THEN v1.files[k] ELSE v1.dst)
    <3>. HIDE DEF F, Ut!FromLogin
    <3>1. DOMAIN v14' = 1..(Len(v14) + 1)
      BY <1>0, <2>2
    <3>2. F = IF v1.prog = "get" THEN v1.files[Len(v14) + 1] ELSE v1.dst
      BY <2>6 DEF F
    <3>3. ASSUME NEW k \in 1..Len(v14)
          PROVE  v14'[k].at = Ut!FromLogin(IF v1.prog = "get" THEN v1.files[k] ELSE v1.dst)
      <4>1. k \in DOMAIN v14 /\ v14'[k] = v14[k]
        BY <1>0, <2>4
      <4>2. \A m \in DOMAIN v14 : v14[m].at = Ut!FromLogin(Ut!Moved(m))
        OBVIOUS
      <4>3. QED
        BY <4>1, <4>2
    <3>4. \A k \in DOMAIN v14' : k \in 1..Len(v14) \/ k = Len(v14) + 1
      BY <2>5, <3>1
    <3>5. QED
      BY <2>4, <3>2, <3>3, <3>4
  <2>9. QED
    <3>1. Len(v9') + Len(v14') + Len(v8') = Len(v1'.files)
      BY <1>0, <2>1, <2>3, <2>4, <2>5
    <3>2. \A k \in DOMAIN v14' : v14'[k].at = Ut!FromLogin(Ut!Moved(k)')
      BY <2>1, <2>8
    <3>. HIDE DEF Ut!Moved
    <3>3. QED
      BY <2>1, <2>7, <3>1, <3>2
<1>5. CASE Ut!SpoolEnds
  BY <1>5 DEF Ut!SpoolEnds
<1>6. CASE Ut!Open
  BY <1>6 DEF Ut!Open
<1>7. CASE Ut!ToBookmark
  BY <1>7 DEF Ut!ToBookmark
<1>8. CASE Ut!Change
  BY <1>8 DEF Ut!Change
<1>9. CASE Ut!CopyNext
  BY <1>9 DEF Ut!CopyNext
<1>10. CASE Ut!CopyEnds
  <2>1. /\ UNCHANGED <<v1, v14>> /\ v2' = "copy" /\ v8 # <<>> /\ v8' = Tail(v8) /\ v14 = <<>>
    BY <1>10 DEF Ut!CopyEnds
  <2>2. Len(v9') = Len(v9) + 1
    BY <1>0, <1>10 DEF Ut!CopyEnds
  <2>3. /\ Len(v8') = Len(v8) - 1 /\ v8' \in Seq(Ut!Path)
        /\ \A k \in DOMAIN v8' : k + 1 \in DOMAIN v8 /\ v8'[k] = v8[k + 1]
    BY <1>0, <2>1, RestOf
  <2>4. Len(v9) + Len(v8) = Len(v1.files) /\ Len(v9) \in Nat /\ Len(v8) \in Nat
    BY <1>0, <2>1
  <2>5. \A k \in DOMAIN v8' : v8'[k] = v1.files[Len(v1.files) - Len(v8') + k]
    BY <2>1, <1>a
  <2>6. QED
    <3>1. Len(v9') + Len(v14') + Len(v8') = Len(v1'.files)
      <4>1. Len(v14') = 0 /\ v1' = v1
        BY <2>1
      <4>. HIDE DEF Ut!FilesLeft
      <4>2. QED
        BY <2>2, <2>3, <2>4, <4>1, SMTT(30)
    <3>2. \A k \in DOMAIN v14' : v14'[k].at = Ut!FromLogin(Ut!Moved(k)')
      BY <2>1
    <3>. HIDE DEF Ut!Moved
    <3>3. QED
      BY <2>1, <2>5, <3>1, <3>2
<1>11. CASE Ut!Abort
  BY <1>11 DEF Ut!Abort
<1>12. CASE Ut!Finish
  BY <1>12 DEF Ut!Finish
<1>13. QED
  BY <1>1, <1>2, <1>3, <1>4, <1>5, <1>6, <1>7, <1>8, <1>9, <1>10, <1>11, <1>12 DEF Ut!UtNext

(* The exit status.                                                        *)
LEMMA UtKeepsExit == ASSUME Ut!UtTypes, Ut!FilesLeft, Ut!ExitTells, Ut!UtNext PROVE Ut!ExitTells'
<1>. USE DEF Ut!UtTypes, Ut!FilesLeft, Ut!ExitTells, Ut!Exit, Ut!signals, Ut!Fails, Ut!Cat
<1>1. CASE Ut!Options
  BY <1>1 DEF Ut!Options
<1>2. CASE Ut!HostArgument
  BY <1>2 DEF Ut!HostArgument
<1>3. CASE Ut!Ready
  BY <1>3 DEF Ut!Ready
<1>4. CASE Ut!SpoolNext
  BY <1>4 DEF Ut!SpoolNext
<1>5. CASE Ut!SpoolEnds
  BY <1>5, CommandTyped DEF Ut!SpoolEnds
<1>6. CASE Ut!Open
  BY <1>6 DEF Ut!Open
<1>7. CASE Ut!ToBookmark
  BY <1>7 DEF Ut!ToBookmark
<1>8. CASE Ut!Change
  BY <1>8 DEF Ut!Change
<1>9. CASE Ut!CopyNext
  BY <1>9 DEF Ut!CopyNext
<1>10. CASE Ut!CopyEnds
  BY <1>10 DEF Ut!CopyEnds
<1>11. CASE Ut!Abort
  BY <1>11 DEF Ut!Abort
<1>12. CASE Ut!Finish
  BY <1>12 DEF Ut!Finish, Ut!Copied
<1>13. QED
  BY <1>1, <1>2, <1>3, <1>4, <1>5, <1>6, <1>7, <1>8, <1>9, <1>10, <1>11, <1>12 DEF Ut!UtNext

LEMMA UtStarts == Ut!UtInit => Ut!UtInv
<1>. SUFFICES ASSUME Ut!UtInit PROVE Ut!UtInv
  OBVIOUS
<1>1. v1 \in Ut!Commands /\ v1.files # <<>> /\ v1.files \in Seq(Ut!Path) /\ LoginDir \in Ut!Dirs
  BY UtilitiesAssumption DEF Ut!UtAssumption, Ut!UtInit, Ut!Commands
<1>2. Ut!UtTypes
  <2>1. v3 \in [Ut!Settings -> Ut!Sources]
    <3>1. DOMAIN v3 = Ut!Settings
      BY DEF Ut!UtInit, Ut!FromArgs, Ut!Settings
    <3>2. v3.host \in Ut!Sources /\ v3.user \in Ut!Sources /\ v3.pass \in Ut!Sources /\ v3.port \in Ut!Sources
      BY DEF Ut!UtInit, Ut!FromArgs, Ut!Sources
    <3>3. v3 = [s \in Ut!Settings |-> v3[s]]
      BY <3>1 DEF Ut!UtInit, Ut!FromArgs
    <3>4. QED
      BY <3>2, <3>3 DEF Ut!Settings
  <2>2. QED
    BY <1>1, <2>1 DEF Ut!UtInit, Ut!UtTypes
<1>3. Ut!ReadSoFar
  <2>1. v3.host # "option" /\ v3.user # "option" /\ v3.pass # "option" /\ v3.port # "option"
    BY DEF Ut!UtInit, Ut!FromArgs
  <2>2. QED
    BY <2>1 DEF Ut!UtInit, Ut!ReadSoFar, Ut!Settings
<1>4. Ut!FilesLeft
  BY <1>1 DEF Ut!UtInit, Ut!FilesLeft
<1>5. QED
  BY <1>2, <1>3, <1>4 DEF Ut!UtInv, Ut!ExitTells, Ut!UtInit

LEMMA UtStep == ASSUME Ut!UtInv, Ut!UtNext PROVE Ut!UtInv'
  BY UtKeepsTypes, UtKeepsRead, UtKeepsFiles, UtKeepsExit DEF Ut!UtInv

LEMMA UtSafe == ASSUME Ut!UtInv PROVE Ut!UtTypeOK /\ Ut!Precedence /\ Ut!ExitTells /\ Ut!SpoolsSame
<1>1. Ut!UtTypeOK
  BY DEF Ut!UtInv, Ut!UtTypes, Ut!FilesLeft, Ut!UtTypeOK
<1>2. Ut!Precedence
  BY DEF Ut!UtInv, Ut!ReadSoFar, Ut!Precedence
<1>3. Ut!SpoolsSame
  BY DEF Ut!UtInv, Ut!FilesLeft, Ut!SpoolsSame, Ut!Foreground, Ut!FromLogin
<1>4. QED
  BY <1>1, <1>2, <1>3 DEF Ut!UtInv
-----------------------------------------------------------------------------
(***************************************************************************)
(* ncftpls.                                                                *)
(***************************************************************************)
LEMMA URLTyped ==
    ASSUME Ls!LsTypes
    PROVE  /\ v1 \in Seq(Ls!URL) /\ v4 \in Nat /\ Root \in Ls!Dirs
           /\ v4 <= Len(v1) => /\ Ls!U \in Ls!URL /\ Ls!U.host \in STRING /\ Ls!U.port \in Nat
                              /\ Ls!U.user \in STRING /\ Ls!U.dirs \in Ls!Dirs /\ Ls!U.file \in Ls!Dirs
<1>1. v1 \in Seq(Ls!URL) /\ v4 \in 1..(Len(v1) + 1) /\ Root \in Ls!Dirs
  BY NcftpLsAssumption DEF Ls!LsAssumption, Ls!LsTypes
<1>2. v4 <= Len(v1) => Ls!U \in Ls!URL
  BY <1>1 DEF Ls!U
<1>3. QED
  BY <1>1, <1>2 DEF Ls!URL

LEMMA OptsTyped == ASSUME Ls!LsTypes PROVE v2.mlsd \in BOOLEAN /\ v2.df \in Nat
  BY NcftpLsAssumption DEF Ls!LsAssumption, Ls!LsTypes

LEMMA CwdTyped == ASSUME NEW c \in Ls!ConnType PROVE c.cwd \in Ls!Dirs
  BY DEF Ls!ConnType

LEMMA StateFields ==
    ASSUME NEW c \in Ls!ConnType, NEW x \in {"quit", "lost"}, NEW d, d = [c EXCEPT !.state = x]
    PROVE  d \in Ls!ConnType /\ d.state = x /\ d.host = c.host /\ d.user = c.user /\ d.cwd = c.cwd
  BY DEF Ls!ConnType

LEMMA CwdFields ==
    ASSUME NEW c \in Ls!ConnType, NEW x \in Ls!Dirs, NEW d, d = [c EXCEPT !.cwd = x]
    PROVE  d \in Ls!ConnType /\ d.cwd = x /\ d.host = c.host /\ d.user = c.user /\ d.state = c.state
  BY DEF Ls!ConnType

LEMMA ReplaceOne ==
    ASSUME NEW S, NEW s \in Seq(S), NEW k \in DOMAIN s, NEW x \in S
    PROVE  /\ [s EXCEPT ![k] = x] \in Seq(S) /\ Len([s EXCEPT ![k] = x]) = Len(s)
           /\ DOMAIN [s EXCEPT ![k] = x] = DOMAIN s
           /\ [s EXCEPT ![k] = x][k] = x /\ \A m \in DOMAIN s \ {k} : [s EXCEPT ![k] = x][m] = s[m]
  OBVIOUS

(* What a change of the connection k leaves of it and of the others.       *)
Others(k) == /\ v9' \in Seq(Ls!ConnType) /\ Len(v9') = Len(v9) /\ DOMAIN v9' = DOMAIN v9
             /\ \A m \in DOMAIN v9 : v9'[m].host = v9[m].host /\ v9'[m].user = v9[m].user
             /\ \A m \in DOMAIN v9 \ {k} : v9'[m] = v9[m]

LEMMA StateSet ==
    ASSUME v9 \in Seq(Ls!ConnType), NEW k \in DOMAIN v9, NEW x \in {"quit", "lost"},
           v9' = [v9 EXCEPT ![k].state = x]
    PROVE  Others(k) /\ v9'[k].state = x /\ v9'[k].cwd = v9[k].cwd /\ Ls!OpenConns' = Ls!OpenConns \ {k}
<1>1. PICK e \in Ls!ConnType : e = v9[k]
  OBVIOUS
<1>2. PICK c : c = [e EXCEPT !.state = x]
  OBVIOUS
<1>3. /\ c \in Ls!ConnType /\ c.state = x /\ c.host = v9[k].host /\ c.user = v9[k].user /\ c.cwd = v9[k].cwd
  BY <1>1, <1>2, StateFields
<1>4. v9' = [v9 EXCEPT ![k] = c]
  BY <1>1, <1>2
<1>5. Others(k) /\ v9'[k] = c
  BY <1>1, <1>3, <1>4, ReplaceOne DEF Others
<1>6. QED
  BY <1>1, <1>3, <1>5 DEF Others, Ls!OpenConns

LEMMA CwdSet ==
    ASSUME v9 \in Seq(Ls!ConnType), NEW k \in DOMAIN v9, NEW d \in Ls!Dirs,
           v9' = [v9 EXCEPT ![k].cwd = d]
    PROVE  Others(k) /\ v9'[k].state = v9[k].state /\ v9'[k].cwd = d /\ Ls!OpenConns' = Ls!OpenConns
<1>1. PICK e \in Ls!ConnType : e = v9[k]
  OBVIOUS
<1>2. PICK c : c = [e EXCEPT !.cwd = d]
  OBVIOUS
<1>3. /\ c \in Ls!ConnType /\ c.state = v9[k].state /\ c.host = v9[k].host /\ c.user = v9[k].user /\ c.cwd = d
  BY <1>1, <1>2, CwdFields
<1>4. v9' = [v9 EXCEPT ![k] = c]
  BY <1>1, <1>2
<1>5. Others(k) /\ v9'[k] = c
  BY <1>1, <1>3, <1>4, ReplaceOne DEF Others
<1>6. QED
  BY <1>1, <1>3, <1>5 DEF Others, Ls!OpenConns

LEMMA ConnOf == ASSUME Ls!LsTypes PROVE /\ Ls!Lives(v5.id) => v5.id \in DOMAIN v9
                                        /\ Ls!Lives(v6.id) => v6.id \in DOMAIN v9
<1>1. v5.id \in Nat /\ v6.id \in Nat /\ v9 \in Seq(Ls!ConnType) /\ v5.id <= Len(v9) /\ v6.id <= Len(v9)
  BY DEF Ls!LsTypes, Ls!ConnInfo
<1>2. QED
  BY <1>1 DEF Ls!Lives

LEMMA IdSet ==
    ASSUME NEW c \in Ls!ConnInfo, NEW n \in Nat
    PROVE  /\ c.id \in Nat /\ [c EXCEPT !.id = n] \in Ls!ConnInfo /\ [c EXCEPT !.id = n].id = n
           /\ [c EXCEPT !.id = n].host = c.host /\ [c EXCEPT !.id = n].user = c.user
  BY DEF Ls!ConnInfo

(* What each action does to the connections and the records.               *)
LEMMA NextURLSteps ==
    ASSUME Ls!LsTypes, Ls!OnURL, Ls!NextURL
    PROVE  /\ v9' \in Seq(Ls!ConnType) /\ Len(v9') = Len(v9) /\ DOMAIN v9' = DOMAIN v9
           /\ \A m \in DOMAIN v9 : v9'[m].host = v9[m].host /\ v9'[m].user = v9[m].user
           /\ v4 <= Len(v1) /\ v3 = "url" /\ UNCHANGED <<v1, v2, v4, v7, v8, v10>>
           /\ \/ Ls!SameHost /\ v5' = v6 /\ v3' = "root" /\ UNCHANGED <<v6, v9>>
              \/ /\ v5' = [id |-> 0, host |-> Ls!U.host, user |-> Ls!U.user] /\ v3' = "open"
                 /\ v6' = Ls!NoConn
                 /\ Ls!OpenConns' = Ls!OpenConns \ {v6.id}
<1>1. CASE Ls!SameHost
  BY <1>1 DEF Ls!NextURL, Ls!LsTypes
<1>2. CASE ~Ls!SameHost /\ Ls!Lives(v6.id)
  <2>1. v6.id \in DOMAIN v9 /\ v9 \in Seq(Ls!ConnType) /\ v9' = [v9 EXCEPT ![v6.id].state = "quit"]
    BY <1>2, ConnOf DEF Ls!NextURL, Ls!LsTypes
  <2>2. QED
    BY <1>2, <2>1, StateSet DEF Ls!NextURL, Others
<1>3. CASE ~Ls!SameHost /\ ~Ls!Lives(v6.id)
  <2>1. v9' = v9 /\ v9 \in Seq(Ls!ConnType)
    BY <1>3 DEF Ls!NextURL, Ls!LsTypes
  <2>2. v6.id \notin Ls!OpenConns
    BY <1>3, <2>1 DEF Ls!Lives, Ls!OpenConns
  <2>3. Ls!OpenConns' = Ls!OpenConns \ {v6.id}
    BY <2>1, <2>2 DEF Ls!OpenConns
  <2>4. QED
    BY <1>3, <2>1, <2>3 DEF Ls!NextURL
<1>4. QED
  BY <1>1, <1>2, <1>3

LEMMA BackToRootSteps ==
    ASSUME Ls!LsTypes, Ls!BackToRoot
    PROVE  /\ v3 = "root" /\ UNCHANGED <<v1, v2, v4, v5, v6, v7, v10>>
           /\ \/ /\ Ls!Lives(v5.id) /\ v3' = "chdir" /\ v8' = v8 /\ v5.id \in DOMAIN v9 /\ Others(v5.id)
                 /\ v9'[v5.id].state = v9[v5.id].state /\ v9'[v5.id].cwd = Root
                 /\ Ls!OpenConns' = Ls!OpenConns
              \/ v3' = "exit" /\ v8' = "chdirfailed" /\ v9' = v9
<1>1. CASE Ls!Lives(v5.id) /\ v3' = "chdir" /\ v9' = [v9 EXCEPT ![v5.id].cwd = Root] /\ v8' = v8
  <2>1. v5.id \in DOMAIN v9 /\ Root \in Ls!Dirs /\ v9 \in Seq(Ls!ConnType)
    BY <1>1, ConnOf, URLTyped DEF Ls!LsTypes
  <2>2. QED
    BY <1>1, <2>1, CwdSet DEF Ls!BackToRoot
<1>2. CASE v3' = "exit" /\ v8' = "chdirfailed" /\ v9' = v9
  BY <1>2 DEF Ls!BackToRoot
<1>3. QED
  BY <1>1, <1>2 DEF Ls!BackToRoot, Ls!LsExit

LEMMA OpenURLSteps ==
    ASSUME Ls!LsTypes, Ls!OnURL, Ls!OpenURL
    PROVE  /\ v3 = "open" /\ UNCHANGED <<v1, v2, v4, v6, v7, v10>> /\ v9' \in Seq(Ls!ConnType)
           /\ \/ v3' = "exit" /\ v8' = "openfailed" /\ UNCHANGED <<v5, v9>>
              \/ /\ v5' = [v5 EXCEPT !.id = Len(v9) + 1] /\ Len(v9') = Len(v9) + 1
                 /\ DOMAIN v9' = DOMAIN v9 \cup {Len(v9) + 1} /\ \A m \in DOMAIN v9 : v9'[m] = v9[m]
                 /\ v9'[Len(v9) + 1].host = Ls!U.host /\ v9'[Len(v9) + 1].user = Ls!U.user
                 /\ v9'[Len(v9) + 1].cwd = Root /\ v9'[Len(v9) + 1].state = "open"
                 /\ Ls!OpenConns' = Ls!OpenConns \cup {Len(v9) + 1}
                 /\ (v3' = "chdir" /\ v8' = v8) \/ (v3' = "exit" /\ v8' = "chdirfailed")
<1>0. v3 = "open" /\ UNCHANGED <<v1, v2, v4, v6, v7, v10>>
  BY DEF Ls!OpenURL
<1>1. CASE v3' = "exit" /\ v8' = "openfailed" /\ UNCHANGED <<v5, v9>>
  BY <1>0, <1>1 DEF Ls!LsTypes
<1>. DEFINE c == [host |-> Ls!U.host, port |-> Ls!U.port, user |-> Ls!U.user, cwd |-> Root, state |-> "open"]
<1>2. CASE /\ v5' = [v5 EXCEPT !.id = Len(v9) + 1] /\ v9' = Append(v9, c)
           /\ (v3' = "chdir" /\ v8' = v8) \/ (v3' = "exit" /\ v8' = "chdirfailed")
  <2>1. v4 <= Len(v1)
    BY <1>0 DEF Ls!OnURL
  <2>2. /\ c \in Ls!ConnType /\ c.host = Ls!U.host /\ c.user = Ls!U.user /\ c.cwd = Root
        /\ c.state = "open"
    BY <2>1, URLTyped DEF Ls!ConnType
  <2>. HIDE DEF c
  <2>3. v9 \in Seq(Ls!ConnType)
    BY DEF Ls!LsTypes
  <2>4. /\ v9' \in Seq(Ls!ConnType) /\ Len(v9') = Len(v9) + 1 /\ DOMAIN v9' = DOMAIN v9 \cup {Len(v9) + 1}
        /\ v9'[Len(v9) + 1] = c /\ \A m \in DOMAIN v9 : v9'[m] = v9[m]
    BY <1>2, <2>2, <2>3
  <2>5. Ls!OpenConns' = Ls!OpenConns \cup {Len(v9) + 1}
    BY <2>2, <2>4 DEF Ls!OpenConns
  <2>6. QED
    BY <1>0, <1>2, <2>2, <2>4, <2>5
<1>3. QED
  BY <1>1, <1>2 DEF Ls!OpenURL, Ls!LsExit

LEMMA ToDirectorySteps ==
    ASSUME Ls!LsTypes, Ls!OnURL, Ls!ToDirectory
    PROVE  /\ v3 = "chdir" /\ UNCHANGED <<v1, v2, v4, v5, v6, v7, v10>>
           /\ \/ /\ v3' \in {"df", "list"} /\ v8' = "chdirtimedout" /\ v5.id \in DOMAIN v9 /\ Others(v5.id)
                 /\ v9'[v5.id].state = v9[v5.id].state /\ v9'[v5.id].cwd = Root \o Ls!U.dirs
                 /\ Root \o Ls!U.dirs \in HostDirs /\ Ls!OpenConns' = Ls!OpenConns
              \/ v3' = "exit" /\ v8' = "chdirfailed" /\ v9' = v9
<1>1. v3 = "chdir" /\ UNCHANGED <<v1, v2, v4, v5, v6, v7, v10>>
  BY DEF Ls!ToDirectory
<1>2. CASE v3' = "exit" /\ v8' = "chdirfailed" /\ v9' = v9
  BY <1>1, <1>2
<1>3. CASE /\ v9[v5.id].cwd \o Ls!U.dirs \in HostDirs /\ v9' = Ls!ChangeDir
           /\ v8' = "chdirtimedout" /\ v3' \in {"df", "list"}
  <2>1. v5.id \in DOMAIN v9 /\ v9 \in Seq(Ls!ConnType) /\ v9[v5.id].cwd = Root /\ v4 <= Len(v1)
    BY <1>1, ConnOf DEF Ls!LsTypes, Ls!OnURL
  <2>2. Root \o Ls!U.dirs \in Ls!Dirs
    BY <2>1, URLTyped DEF Ls!Dirs
  <2>3. v9' = [v9 EXCEPT ![v5.id].cwd = Root \o Ls!U.dirs]
    BY <1>3, <2>1 DEF Ls!ChangeDir
  <2>4. QED
    BY <1>1, <1>3, <2>1, <2>2, <2>3, CwdSet
<1>4. QED
  BY <1>2, <1>3 DEF Ls!ToDirectory, Ls!LsExit

LEMMA QuitSteps ==
    ASSUME Ls!LsTypes, Ls!QuitLs
    PROVE  /\ v3 = "url" /\ v4 > Len(v1) /\ v3' = "exit" /\ UNCHANGED <<v1, v2, v4, v5, v6, v7, v8, v10>>
           /\ v9' \in Seq(Ls!ConnType) /\ Len(v9') = Len(v9) /\ DOMAIN v9' = DOMAIN v9
           /\ \A m \in DOMAIN v9 : v9'[m].host = v9[m].host /\ v9'[m].user = v9[m].user
           /\ Ls!OpenConns' \subseteq Ls!OpenConns
<1>1. CASE Ls!Lives(v5.id)
  <2>1. v5.id \in DOMAIN v9 /\ v9 \in Seq(Ls!ConnType) /\ v9' = [v9 EXCEPT ![v5.id].state = "quit"]
    BY <1>1, ConnOf DEF Ls!QuitLs, Ls!LsTypes
  <2>2. QED
    BY <2>1, StateSet DEF Ls!QuitLs, Ls!LsExit, Others
<1>2. CASE ~Ls!Lives(v5.id)
  BY <1>2 DEF Ls!QuitLs, Ls!LsExit, Ls!LsTypes, Ls!OpenConns
<1>3. QED
  BY <1>1, <1>2

(* What a listing may be.                                                  *)
LEMMA ListedTyped ==
    ASSUME Ls!LsTypes, Ls!OnURL, v3 = "list"
    PROVE  /\ Ls!Listed \in Ls!SeenType /\ Ls!Machine \in BOOLEAN
           /\ Ls!Listed.done /\ Ls!Listed.mlsd = Ls!Machine
<1>1. v4 <= Len(v1) /\ Ls!U.file \in Ls!Dirs /\ v5.id \in DOMAIN v9
  BY URLTyped, ConnOf DEF Ls!OnURL
<1>2. v9[v5.id].cwd \in Ls!Dirs /\ v7 \in BOOLEAN /\ HostDirs \subseteq Ls!Dirs
  <2>1. v9[v5.id] \in Ls!ConnType
    BY <1>1 DEF Ls!LsTypes
  <2>2. QED
    BY <2>1, CwdTyped, NcftpLsAssumption DEF Ls!LsTypes, Ls!LsAssumption
<1>3. v9[v5.id].cwd \o Ls!U.file \in Ls!Dirs
  BY <1>1, <1>2 DEF Ls!Dirs
<1>4. \A now, file : now \o file \in Ls!Dirs => Ls!RecursiveMList(now, file) \subseteq Ls!Dirs
  BY <1>2 DEF Ls!RecursiveMList, Ls!SubdirsDeep, Ls!Tree
<1>5. Ls!Machine \in BOOLEAN
  BY <1>2 DEF Ls!Machine
<1>6. QED
  BY <1>3, <1>4, <1>5 DEF Ls!Listed, Ls!SeenType

LEMMA ListSteps ==
    ASSUME Ls!LsTypes, Ls!OnURL, Ls!List
    PROVE  /\ v3 = "list" /\ v3' = "url" /\ v4' = v4 + 1 /\ UNCHANGED <<v1, v2>> /\ v4 <= Len(v1)
           /\ v4 \in DOMAIN v1 /\ v7' \in BOOLEAN
           /\ v8' \in {"success", "xfertimedout", "xferfailed"}
           /\ v9' \in Seq(Ls!ConnType) /\ Len(v9') = Len(v9) /\ DOMAIN v9' = DOMAIN v9
           /\ \A m \in DOMAIN v9 : v9'[m].host = v9[m].host /\ v9'[m].user = v9[m].user
           /\ \/ UNCHANGED <<v5, v6, v9, v10>>
              \/ UNCHANGED <<v5, v9>> /\ v6' = v5 /\ v10' = [v10 EXCEPT ![v4] = Ls!Listed]
              \/ /\ v6' = v6 /\ v10' = [v10 EXCEPT ![v4].failed = TRUE]
                 /\ v5' = v5 \/ v5' = [v5 EXCEPT !.id = 0]
<1>1. v3 = "list" /\ v3' = "url" /\ v4' = v4 + 1 /\ UNCHANGED <<v1, v2>>
  BY DEF Ls!List
<1>2. v4 <= Len(v1) /\ v4 \in DOMAIN v1 /\ v5.id \in DOMAIN v9 /\ v9 \in Seq(Ls!ConnType)
  BY <1>1, ConnOf, URLTyped DEF Ls!OnURL, Ls!LsTypes
<1>3. v7' \in BOOLEAN
  BY <1>1, ListedTyped DEF Ls!List, Ls!LsTypes
<1>4. v9' = v9 \/ v9' = [v9 EXCEPT ![v5.id].state = "lost"]
  BY DEF Ls!List
<1>5. /\ v9' \in Seq(Ls!ConnType) /\ Len(v9') = Len(v9) /\ DOMAIN v9' = DOMAIN v9
      /\ \A m \in DOMAIN v9 : v9'[m].host = v9[m].host /\ v9'[m].user = v9[m].user
  BY <1>2, <1>4, StateSet DEF Others
<1>6. QED
  BY <1>1, <1>2, <1>3, <1>5 DEF Ls!List

LEMMA DiskFreeSteps ==
    ASSUME Ls!LsTypes, Ls!OnURL, Ls!DiskFree
    PROVE  /\ v3 = "df" /\ UNCHANGED <<v1, v2, v5, v6, v7, v9, v10>> /\ v4 <= Len(v1)
           /\ \/ v3' = "exit" /\ v8' = "chdirfailed" /\ v4' = v4
              \/ v3' = "url" /\ v4' = v4 + 1 /\ v8' = v8
              \/ v3' = "list" /\ v4' = v4 /\ v8' = v8
  BY DEF Ls!DiskFree, Ls!LsExit, Ls!OnURL

LEMMA SeenAfter ==
    ASSUME Ls!LsTypes, Ls!OnURL, Ls!List
    PROVE  /\ v10' \in [DOMAIN v1 -> Ls!SeenType]
           /\ \A k \in DOMAIN v1 \ {v4} : v10'[k] = v10[k]
           /\ \/ v10' = v10
              \/ v10'[v4] = Ls!Listed
              \/ /\ v10'[v4].done = v10[v4].done /\ v10'[v4].mlsd = v10[v4].mlsd
                 /\ v10'[v4].seen = v10[v4].seen
<1>1. v10 \in [DOMAIN v1 -> Ls!SeenType] /\ v4 \in DOMAIN v1
  BY ListSteps DEF Ls!LsTypes
<1>2. CASE v10' = v10
  BY <1>1, <1>2
<1>3. CASE v10' = [v10 EXCEPT ![v4] = Ls!Listed]
  BY <1>1, <1>3, ListedTyped, ListSteps
<1>4. CASE v10' = [v10 EXCEPT ![v4].failed = TRUE]
  <2>1. PICK e \in Ls!SeenType : e = v10[v4]
    BY <1>1
  <2>2. PICK c : c = [e EXCEPT !.failed = TRUE]
    OBVIOUS
  <2>3. c \in Ls!SeenType /\ c.done = e.done /\ c.mlsd = e.mlsd /\ c.seen = e.seen
    BY <2>1, <2>2 DEF Ls!SeenType
  <2>4. v10' = [v10 EXCEPT ![v4] = c]
    BY <1>4, <2>1, <2>2
  <2>5. QED
    BY <1>1, <2>1, <2>3, <2>4
<1>5. QED
  BY <1>2, <1>3, <1>4, ListSteps

(* What was not listed before is listed now only on the connection that is *)
(* then kept.                                                              *)
LEMMA ListUndone ==
    ASSUME Ls!LsTypes, Ls!OnURL, Ls!List, ~v10[v4].done, v10'[v4].done
    PROVE  v5' = v5 /\ v9' = v9 /\ v6' = v5
<1>1. v10'[v4] # v10[v4] /\ v4 \in DOMAIN v10 /\ v10[v4] \in Ls!SeenType
  BY ListSteps DEF Ls!LsTypes
<1>2. ASSUME v10' = [v10 EXCEPT ![v4].failed = TRUE] PROVE FALSE
  <2>1. PICK e \in Ls!SeenType : e = v10[v4]
    BY <1>1
  <2>2. PICK c : c = [e EXCEPT !.failed = TRUE]
    OBVIOUS
  <2>3. c.done = e.done
    BY <2>1, <2>2 DEF Ls!SeenType
  <2>4. v10' = [v10 EXCEPT ![v4] = c]
    BY <1>2, <2>1, <2>2
  <2>5. v10'[v4] = c
    BY <1>1, <2>4
  <2>6. QED
    BY <2>1, <2>3, <2>5
<1>3. QED
  BY <1>1, <1>2, ListSteps

LEMMA LsKeepsTypes == ASSUME Ls!LsTypes, Ls!OnURL, Ls!LsNext PROVE Ls!LsTypes'
<1>0. /\ v1 \in Arguments /\ v2 \in LsOptions /\ v4 \in 1..(Len(v1) + 1) /\ v7 \in BOOLEAN
      /\ v5 \in Ls!ConnInfo /\ v6 \in Ls!ConnInfo /\ v9 \in Seq(Ls!ConnType)
      /\ v5.id <= Len(v9) /\ v6.id <= Len(v9) /\ v10 \in [DOMAIN v1 -> Ls!SeenType]
      /\ Len(v9) \in Nat /\ v5.id \in Nat /\ v6.id \in Nat
  BY DEF Ls!LsTypes, Ls!ConnInfo
<1>1. CASE Ls!NextURL
  <2>1. [id |-> 0, host |-> Ls!U.host, user |-> Ls!U.user] \in Ls!ConnInfo
    BY <1>1, URLTyped, NextURLSteps DEF Ls!ConnInfo, Ls!OrNone
  <2>2. Ls!NoConn \in Ls!ConnInfo /\ Ls!NoConn.id = 0
    BY DEF Ls!NoConn, Ls!ConnInfo, Ls!OrNone
  <2>3. QED
    BY <1>0, <1>1, <2>1, <2>2, NextURLSteps DEF Ls!LsTypes
<1>2. CASE Ls!BackToRoot
  BY <1>0, <1>2, BackToRootSteps DEF Ls!LsTypes, Others
<1>3. CASE Ls!OpenURL
  <2>1. [v5 EXCEPT !.id = Len(v9) + 1] \in Ls!ConnInfo /\ [v5 EXCEPT !.id = Len(v9) + 1].id = Len(v9) + 1
    <3>1. v5 \in Ls!ConnInfo /\ Len(v9) + 1 \in Nat
      BY <1>0
    <3>2. QED
      BY <3>1, IdSet
  <2>2. v6' = v6 /\ v5' \in Ls!ConnInfo /\ v5'.id <= Len(v9') /\ v6.id <= Len(v9')
    <3>1. \/ v5' = v5 /\ v9' = v9
          \/ v5' = [v5 EXCEPT !.id = Len(v9) + 1] /\ Len(v9') = Len(v9) + 1
      BY <1>3, OpenURLSteps
    <3>2. v6' = v6
      BY <1>3, OpenURLSteps
    <3>3. CASE v5' = v5 /\ v9' = v9
      BY <1>0, <3>2, <3>3
    <3>4. CASE v5' = [v5 EXCEPT !.id = Len(v9) + 1] /\ Len(v9') = Len(v9) + 1
      <4>1. v5' \in Ls!ConnInfo /\ v5'.id = Len(v9')
        BY <2>1, <3>4
      <4>2. v6.id <= Len(v9') /\ Len(v9') \in Nat
        BY <1>0, <3>4
      <4>3. QED
        BY <3>2, <4>1, <4>2
    <3>5. QED
      BY <3>1, <3>3, <3>4
  <2>3. v3' \in {"chdir", "exit"} /\ v8' \in {v8, "openfailed", "chdirfailed"}
    BY <1>3, OpenURLSteps
  <2>4. v9' \in Seq(Ls!ConnType) /\ UNCHANGED <<v1, v2, v4, v7, v10>>
    BY <1>3, OpenURLSteps
  <2>5. QED
    BY <1>0, <2>2, <2>3, <2>4 DEF Ls!LsTypes
<1>4. CASE Ls!ToDirectory
  BY <1>0, <1>4, ToDirectorySteps DEF Ls!LsTypes, Others
<1>5. CASE Ls!DiskFree
  <2>1. v4' \in 1..(Len(v1) + 1)
    BY <1>0, <1>5, URLTyped, DiskFreeSteps
  <2>2. QED
    BY <1>0, <1>5, <2>1, DiskFreeSteps DEF Ls!LsTypes
<1>6. CASE Ls!List
  <2>1. [v5 EXCEPT !.id = 0] \in Ls!ConnInfo /\ [v5 EXCEPT !.id = 0].id = 0
    BY <1>0, IdSet
  <2>2. v4' \in 1..(Len(v1) + 1)
    BY <1>0, <1>6, URLTyped, ListSteps
  <2>3. v5' \in Ls!ConnInfo /\ v6' \in Ls!ConnInfo /\ v5'.id <= Len(v9') /\ v6'.id <= Len(v9')
    <3>1. Len(v9') = Len(v9) /\ v6' \in {v5, v6} /\ v5' \in {v5, [v5 EXCEPT !.id = 0]}
      BY <1>6, ListSteps
    <3>2. v6' \in Ls!ConnInfo /\ v6'.id <= Len(v9')
      BY <1>0, <3>1
    <3>3. v5' \in Ls!ConnInfo /\ v5'.id <= Len(v9')
      <4>1. CASE v5' = v5
        BY <1>0, <3>1, <4>1
      <4>2. CASE v5' = [v5 EXCEPT !.id = 0]
        BY <1>0, <2>1, <3>1, <4>2
      <4>3. QED
        BY <3>1, <4>1, <4>2
    <3>4. QED
      BY <3>2, <3>3
  <2>4. QED
    BY <1>0, <1>6, <2>2, <2>3, ListSteps, SeenAfter DEF Ls!LsTypes
<1>7. CASE Ls!QuitLs
  BY <1>0, <1>7, QuitSteps DEF Ls!LsTypes
<1>8. QED
  BY <1>1, <1>2, <1>3, <1>4, <1>5, <1>6, <1>7 DEF Ls!LsNext

(* A record names its connection as long as both keep host and user.       *)
LEMMA StillNamed ==
    ASSUME v9 \in Seq(Ls!ConnType), NEW c \in Ls!ConnInfo, c.id <= Len(v9), Ls!Named(c),
           \A m \in DOMAIN v9 : v9'[m].host = v9[m].host /\ v9'[m].user = v9[m].user
    PROVE  c.id # 0 => v9'[c.id].host = c.host /\ v9'[c.id].user = c.user
  BY DEF Ls!Named, Ls!ConnInfo

LEMMA LsKeepsOnURL == ASSUME Ls!LsTypes, Ls!OnURL, Ls!LsNext PROVE Ls!OnURL'
<1>0. /\ v4 \in 1..(Len(v1) + 1) /\ v5 \in Ls!ConnInfo /\ v6 \in Ls!ConnInfo /\ v9 \in Seq(Ls!ConnType)
      /\ v5.id <= Len(v9) /\ v6.id <= Len(v9) /\ Ls!Named(v5) /\ Ls!Named(v6)
      /\ Len(v9) \in Nat /\ v5.id \in Nat /\ v6.id \in Nat
  BY DEF Ls!LsTypes, Ls!OnURL, Ls!ConnInfo
<1>1. CASE Ls!NextURL
  <2>0. v6.id # 0 => v9'[v6.id].host = v6.host /\ v9'[v6.id].user = v6.user
    BY <1>0, <1>1, StillNamed, NextURLSteps
  <2>1. CASE Ls!SameHost /\ v5' = v6 /\ v3' = "root" /\ UNCHANGED <<v6, v9>>
    BY <1>1, <2>0, <2>1, NextURLSteps DEF Ls!OnURL, Ls!Named, Ls!SameHost, Ls!U
  <2>2. CASE /\ v5' = [id |-> 0, host |-> Ls!U.host, user |-> Ls!U.user] /\ v3' = "open" /\ v6' = Ls!NoConn
    <3>1. v5'.id = 0 /\ v5'.host = Ls!U.host /\ v5'.user = Ls!U.user /\ v6'.id = 0
      BY <2>2 DEF Ls!NoConn
    <3>2. QED
      BY <1>1, <2>2, <3>1, NextURLSteps DEF Ls!OnURL, Ls!Named, Ls!U
  <2>3. QED
    BY <1>1, <2>1, <2>2, NextURLSteps
<1>2. CASE Ls!BackToRoot
  BY <1>0, <1>2, StillNamed, BackToRootSteps DEF Ls!OnURL, Ls!Named, Others, Ls!Lives, Ls!U
<1>3. CASE Ls!OpenURL
  <2>1. /\ v3 = "open" /\ v4 <= Len(v1) /\ v5.host = Ls!U.host /\ v5.user = Ls!U.user /\ v6' = v6
        /\ Ls!U' = Ls!U /\ v4' = v4 /\ v1' = v1
    BY <1>3, OpenURLSteps DEF Ls!OnURL, Ls!U
  <2>2. CASE v3' = "exit" /\ UNCHANGED <<v5, v9>>
    BY <1>0, <2>1, <2>2 DEF Ls!OnURL, Ls!Named
  <2>3. CASE /\ v5' = [v5 EXCEPT !.id = Len(v9) + 1] /\ \A m \in DOMAIN v9 : v9'[m] = v9[m]
             /\ v9'[Len(v9) + 1].host = Ls!U.host /\ v9'[Len(v9) + 1].user = Ls!U.user
             /\ v9'[Len(v9) + 1].cwd = Root /\ v9'[Len(v9) + 1].state = "open" /\ v3' \in {"chdir", "exit"}
    <3>1. v5'.id = Len(v9) + 1 /\ v5'.host = v5.host /\ v5'.user = v5.user /\ v5'.id # 0
      BY <1>0, <2>3, IdSet
    <3>2. v6.id # 0 => v6.id \in DOMAIN v9
      BY <1>0
    <3>3. Ls!Named(v5)' /\ Ls!Named(v6)'
      BY <1>0, <2>1, <2>3, <3>1, <3>2 DEF Ls!Named
    <3>4. Ls!Lives(v5.id)' /\ v9'[v5'.id].cwd = Root
      BY <2>3, <3>1 DEF Ls!Lives
    <3>5. QED
      BY <2>1, <2>3, <3>1, <3>3, <3>4 DEF Ls!OnURL
  <2>4. QED
    BY <1>3, <2>2, <2>3, OpenURLSteps
<1>4. CASE Ls!ToDirectory
  BY <1>0, <1>4, StillNamed, ToDirectorySteps DEF Ls!OnURL, Ls!Named, Others, Ls!Lives, Ls!U
<1>5. CASE Ls!DiskFree
  BY <1>0, <1>5, DiskFreeSteps DEF Ls!OnURL, Ls!Named, Ls!Lives, Ls!U
<1>6. CASE Ls!List
  <2>1. /\ v5.id # 0 => v9'[v5.id].host = v5.host /\ v9'[v5.id].user = v5.user
        /\ v6.id # 0 => v9'[v6.id].host = v6.host /\ v9'[v6.id].user = v6.user
    BY <1>0, <1>6, StillNamed, ListSteps
  <2>2. v6' \in {v5, v6} /\ v5' \in {v5, [v5 EXCEPT !.id = 0]} /\ v3' = "url"
    BY <1>6, ListSteps
  <2>3. [v5 EXCEPT !.id = 0].id = 0
    BY <1>0, IdSet
  <2>4. QED
    BY <2>1, <2>2, <2>3 DEF Ls!OnURL, Ls!Named
<1>7. CASE Ls!QuitLs
  BY <1>0, <1>7, StillNamed, QuitSteps DEF Ls!OnURL, Ls!Named
<1>8. QED
  BY <1>1, <1>2, <1>3, <1>4, <1>5, <1>6, <1>7 DEF Ls!LsNext

(* At most one connection is open, whichever it is.                        *)
LEMMA LsKeepsOneOpen == ASSUME Ls!LsTypes, Ls!OnURL, Ls!OneOpen, Ls!LsNext PROVE Ls!OneOpen'
<1>0. /\ v4 \in Nat /\ v4 \in 1..(Len(v1) + 1) /\ DOMAIN v1 = 1..Len(v1) /\ Len(v1) \in Nat
      /\ v5.id \in Nat /\ v6.id \in Nat /\ v5.id <= Len(v9) /\ v6.id <= Len(v9) /\ v9 \in Seq(Ls!ConnType)
  BY URLTyped DEF Ls!LsTypes, Ls!ConnInfo
<1>. DEFINE Left == \A k \in DOMAIN v1 : k >= v4 => v10[k] = Ls!Unseen
<1>a. Left
  BY DEF Ls!OneOpen
<1>b. ASSUME UNCHANGED <<v1, v4, v10>> PROVE Left' /\ Ls!AllDone' = Ls!AllDone
  BY <1>a, <1>b DEF Ls!AllDone
<1>1. CASE Ls!NextURL
  <2>1. Left' /\ Ls!AllDone' = Ls!AllDone /\ v3 = "url"
    BY <1>1, <1>b, NextURLSteps
  <2>2. CASE v3' = "root" /\ v5' = v6 /\ v9' = v9
    BY <2>1, <2>2 DEF Ls!OneOpen, Ls!OpenConns
  <2>3. CASE v3' = "open" /\ Ls!OpenConns' = Ls!OpenConns \ {v6.id}
    BY <2>1, <2>3 DEF Ls!OneOpen
  <2>4. QED
    BY <1>1, <2>2, <2>3, NextURLSteps
<1>2. CASE Ls!BackToRoot
  <2>1. Left' /\ Ls!AllDone' = Ls!AllDone /\ v3 = "root" /\ v5' = v5
    BY <1>2, <1>b, BackToRootSteps
  <2>2. v3' \in {"chdir", "exit"} /\ Ls!OpenConns' = Ls!OpenConns /\ Len(v9') = Len(v9)
    BY <1>2, BackToRootSteps DEF Ls!OpenConns, Others
  <2>3. v5.id \in 0..Len(v9')
    BY <1>0, <2>2
  <2>4. QED
    BY <2>1, <2>2, <2>3 DEF Ls!OneOpen
<1>3. CASE Ls!OpenURL
  <2>1. Left' /\ Ls!AllDone' = Ls!AllDone /\ v3 = "open"
    BY <1>3, <1>b, OpenURLSteps
  <2>2. CASE v3' = "exit" /\ v9' = v9
    <3>1. 0 \in 0..Len(v9') /\ Ls!OpenConns' = Ls!OpenConns
      BY <1>0, <2>2 DEF Ls!OpenConns
    <3>2. QED
      BY <2>1, <2>2, <3>1 DEF Ls!OneOpen
  <2>3. CASE /\ v5' = [v5 EXCEPT !.id = Len(v9) + 1] /\ v3' \in {"chdir", "exit"} /\ Len(v9') = Len(v9) + 1
             /\ Ls!OpenConns' = Ls!OpenConns \cup {Len(v9) + 1}
    <3>1. v5'.id = Len(v9) + 1 /\ Len(v9) + 1 \in 0..Len(v9')
      BY <1>0, <2>3, IdSet DEF Ls!LsTypes
    <3>2. QED
      BY <2>1, <2>3, <3>1 DEF Ls!OneOpen
  <2>4. QED
    BY <1>3, <2>2, <2>3, OpenURLSteps
<1>4. CASE Ls!ToDirectory
  <2>1. Left' /\ Ls!AllDone' = Ls!AllDone /\ v3 = "chdir" /\ v5' = v5
    BY <1>4, <1>b, ToDirectorySteps
  <2>2. v3' \in {"df", "list", "exit"} /\ Ls!OpenConns' = Ls!OpenConns /\ Len(v9') = Len(v9)
    BY <1>4, ToDirectorySteps DEF Ls!OpenConns, Others
  <2>3. v5.id \in 0..Len(v9')
    BY <1>0, <2>2
  <2>4. QED
    BY <2>1, <2>2, <2>3 DEF Ls!OneOpen
<1>5. CASE Ls!DiskFree
  <2>1. v3 = "df" /\ UNCHANGED <<v1, v5, v9, v10>> /\ v4 <= Len(v1) /\ Ls!OpenConns' = Ls!OpenConns
    BY <1>5, DiskFreeSteps DEF Ls!OpenConns
  <2>2. CASE v3' = "url" /\ v4' = v4 + 1
    <3>1. v4 \in 1..(v4' - 1) /\ v4 \in DOMAIN v1 /\ v10'[v4] = Ls!Unseen /\ ~Ls!Unseen.done
      BY <1>0, <1>a, <2>1, <2>2 DEF Ls!Unseen
    <3>2. ~Ls!AllDone'
      BY <3>1 DEF Ls!AllDone
    <3>3. Left'
      BY <1>0, <1>a, <2>1, <2>2
    <3>4. QED
      BY <3>2, <3>3 DEF Ls!OneOpen
  <2>3. CASE v3' \in {"list", "exit"} /\ v4' = v4
    <3>1. Left' /\ Ls!AllDone' = Ls!AllDone /\ v5.id \in 0..Len(v9')
      BY <1>0, <1>b, <2>1, <2>3
    <3>2. QED
      BY <2>1, <2>3, <3>1 DEF Ls!OneOpen
  <2>4. QED
    BY <1>5, <2>2, <2>3, DiskFreeSteps
<1>6. CASE Ls!List
  <2>1. /\ v3 = "list" /\ v3' = "url" /\ v4' = v4 + 1 /\ v1' = v1 /\ v4 <= Len(v1) /\ v4 \in DOMAIN v1
        /\ \A k \in DOMAIN v1 \ {v4} : v10'[k] = v10[k]
    BY <1>6, ListSteps, SeenAfter
  <2>2. Left'
    BY <1>0, <1>a, <2>1
  <2>3. v4 \in 1..(v4' - 1) /\ v10[v4] = Ls!Unseen /\ ~Ls!Unseen.done
    BY <1>0, <1>a, <2>1 DEF Ls!Unseen
  <2>4. CASE ~v10'[v4].done
    <3>1. ~Ls!AllDone'
      BY <2>3, <2>4 DEF Ls!AllDone
    <3>2. QED
      BY <2>1, <2>2, <3>1 DEF Ls!OneOpen
  <2>5. CASE v10'[v4].done
    <3>1. v5' = v5 /\ v9' = v9 /\ v6' = v5
      BY <1>6, <2>3, <2>5, ListSteps, ListUndone
    <3>2. Ls!AllDone' => Ls!AllDone
      BY <1>0, <2>1 DEF Ls!AllDone
    <3>3. QED
      BY <2>1, <2>2, <3>1, <3>2 DEF Ls!OneOpen, Ls!OpenConns
  <2>6. QED
    BY <2>4, <2>5
<1>7. CASE Ls!QuitLs
  <2>1. Left' /\ Ls!AllDone' = Ls!AllDone /\ v3 = "url" /\ v3' = "exit" /\ Ls!OpenConns' \subseteq Ls!OpenConns
    BY <1>7, <1>b, QuitSteps
  <2>2. v6.id \in 0..Len(v9')
    BY <1>0, <1>7, QuitSteps
  <2>3. QED
    BY <2>1, <2>2 DEF Ls!OneOpen
<1>8. QED
  BY <1>1, <1>2, <1>3, <1>4, <1>5, <1>6, <1>7 DEF Ls!LsNext

(* The tree below a directory is what is found from it by going down.      *)
LEMMA TreeFound ==
    ASSUME NEW d \in HostDirs PROVE Ls!RecursiveMList(d, <<>>) = Ls!Tree(d)
<1>0. /\ HostDirs \subseteq Ls!Dirs /\ d \in Ls!Dirs
      /\ \A e \in HostDirs : \A n \in 0..Len(e) : SubSeq(e, 1, n) \in HostDirs
  BY NcftpLsAssumption DEF Ls!LsAssumption
<1>1. d \o <<>> = d
  BY <1>0 DEF Ls!Dirs
<1>2. \A e \in Ls!Below(d) : /\ e \in Ls!Dirs /\ e \in Ls!Tree(d)
                            /\ d \o Append(<<>>, e[Len(e)]) = e
  <2>1. TAKE e \in Ls!Below(d)
  <2>2. e \in HostDirs /\ e \in Seq(STRING) /\ Len(e) = Len(d) + 1 /\ SubSeq(e, 1, Len(d)) = d /\ d \in Seq(STRING)
    BY <1>0 DEF Ls!Below, Ls!Dirs
  <2>3. d \o Append(<<>>, e[Len(e)]) = e
    BY <2>2
  <2>4. QED
    BY <2>2, <2>3 DEF Ls!Tree, Ls!Dirs
<1>3. ASSUME NEW e \in Ls!Tree(d), e # d
      PROVE  \E f \in Ls!Below(d) : e \in Ls!SubdirsDeep(d, Append(<<>>, f[Len(f)]))
  <2>1. e \in HostDirs /\ e \in Seq(STRING) /\ d \in Seq(STRING) /\ Len(e) >= Len(d) /\ SubSeq(e, 1, Len(d)) = d
    BY <1>0 DEF Ls!Tree, Ls!Dirs
  <2>2. Len(e) # Len(d)
    BY <1>3, <2>1
  <2>. DEFINE f == SubSeq(e, 1, Len(d) + 1)
  <2>3. f \in HostDirs /\ Len(f) = Len(d) + 1 /\ f \in Seq(STRING)
    BY <1>0, <2>1, <2>2
  <2>4. SubSeq(f, 1, Len(d)) = d
    BY <2>1, <2>2
  <2>. HIDE DEF f
  <2>5. f \in Ls!Below(d)
    BY <2>3, <2>4 DEF Ls!Below
  <2>6. d \o Append(<<>>, f[Len(f)]) = f
    BY <1>2, <2>5
  <2>7. e \in Ls!Tree(f)
    BY <2>1, <2>2, <2>3 DEF Ls!Tree, f
  <2>8. \A n \in Len(f)..Len(e) : SubSeq(e, 1, n) \in HostDirs
    BY <1>0, <2>1, <2>3
  <2>9. QED
    BY <2>5, <2>6, <2>7, <2>8 DEF Ls!SubdirsDeep
<1>4. ASSUME NEW f \in Ls!Below(d), NEW e \in Ls!SubdirsDeep(d, Append(<<>>, f[Len(f)]))
      PROVE  e \in Ls!Tree(d)
  <2>1. e \in Ls!Tree(f) /\ f \in Seq(STRING) /\ Len(f) = Len(d) + 1 /\ SubSeq(f, 1, Len(d)) = d /\ d \in Seq(STRING)
    BY <1>0, <1>2, <1>4 DEF Ls!SubdirsDeep, Ls!Below, Ls!Dirs
  <2>2. e \in HostDirs /\ e \in Seq(STRING) /\ Len(e) >= Len(f) /\ SubSeq(e, 1, Len(f)) = f
    BY <1>0, <2>1 DEF Ls!Tree, Ls!Dirs
  <2>3. SubSeq(e, 1, Len(d)) = d
    BY <2>1, <2>2
  <2>4. QED
    BY <2>1, <2>2, <2>3 DEF Ls!Tree
<1>5. d \in Ls!Tree(d)
  BY <1>0 DEF Ls!Tree, Ls!Dirs
<1>6. QED
  BY <1>1, <1>3, <1>4, <1>5 DEF Ls!RecursiveMList

LEMMA LsKeepsWholeTree == ASSUME Ls!LsTypes, Ls!OnURL, Ls!WholeTree, Ls!LsNext PROVE Ls!WholeTree'
<1>1. ASSUME UNCHANGED <<v1, v2, v10>> PROVE Ls!WholeTree'
  BY <1>1 DEF Ls!WholeTree
<1>2. CASE Ls!List
  <2>1. /\ v3 = "list" /\ UNCHANGED <<v1, v2>> /\ v4 <= Len(v1) /\ v4 \in DOMAIN v1
        /\ \A k \in DOMAIN v1 \ {v4} : v10'[k] = v10[k]
    BY <1>2, ListSteps, SeenAfter
  <2>2. CASE v10'[v4] = Ls!Listed
    <3>1. ASSUME v2.recurse, Ls!Machine, v1[v4].file = <<>> PROVE Ls!Listed.seen = Ls!Tree(Root \o v1[v4].dirs)
      <4>1. v9[v5.id].cwd = Root \o Ls!U.dirs /\ Root \o Ls!U.dirs \in HostDirs
        BY <2>1 DEF Ls!OnURL
      <4>2. Root \o Ls!U.dirs \in Seq(STRING)
        BY <4>1, NcftpLsAssumption DEF Ls!LsAssumption, Ls!Dirs
      <4>3. (Root \o Ls!U.dirs) \o <<>> = Root \o Ls!U.dirs
        BY <4>2
      <4>4. Ls!Listed.seen = Ls!RecursiveMList(Root \o Ls!U.dirs, <<>>)
        BY <3>1, <4>1, <4>3 DEF Ls!Listed, Ls!U
      <4>5. QED
        BY <4>1, <4>4, TreeFound DEF Ls!U
    <3>2. QED
      BY <2>1, <2>2, <3>1, ListedTyped DEF Ls!WholeTree
  <2>3. CASE v10' = v10
    BY <1>1, <2>1, <2>3
  <2>4. CASE v10'[v4].mlsd = v10[v4].mlsd /\ v10'[v4].seen = v10[v4].seen
    BY <2>1, <2>4 DEF Ls!WholeTree
  <2>5. QED
    BY <1>2, <2>2, <2>3, <2>4, SeenAfter
<1>3. QED
  BY <1>1, <1>2, NextURLSteps, BackToRootSteps, OpenURLSteps, ToDirectorySteps, DiskFreeSteps, QuitSteps
  DEF Ls!LsNext

LEMMA LsStarts == Ls!LsInit => Ls!LsInv
<1>. SUFFICES ASSUME Ls!LsInit PROVE Ls!LsInv
  OBVIOUS
<1>1. v1 \in Seq(Ls!URL) /\ v2.mlsd \in BOOLEAN
  BY NcftpLsAssumption DEF Ls!LsAssumption, Ls!LsInit
<1>2. Ls!NoConn \in Ls!ConnInfo /\ Ls!NoConn.id = 0 /\ Ls!Unseen \in Ls!SeenType /\ ~Ls!Unseen.mlsd
  BY DEF Ls!NoConn, Ls!ConnInfo, Ls!OrNone, Ls!Unseen, Ls!SeenType
<1>3. Ls!LsTypes
  BY <1>1, <1>2 DEF Ls!LsInit, Ls!LsTypes
<1>4. Ls!OnURL
  BY <1>2 DEF Ls!LsInit, Ls!OnURL, Ls!Named
<1>5. Ls!OneOpen
  BY DEF Ls!LsInit, Ls!OneOpen, Ls!OpenConns
<1>6. Ls!WholeTree
  BY <1>2 DEF Ls!LsInit, Ls!WholeTree
<1>7. QED
  BY <1>3, <1>4, <1>5, <1>6 DEF Ls!LsInv

LEMMA LsStep == ASSUME Ls!LsInv, Ls!LsNext PROVE Ls!LsInv'
  BY LsKeepsTypes, LsKeepsOnURL, LsKeepsOneOpen, LsKeepsWholeTree DEF Ls!LsInv

LEMMA LsSafe ==
    ASSUME Ls!LsInv PROVE Ls!LsTypeOK /\ Ls!RightListing /\ Ls!OneConnection /\ Ls!WholeTree
<1>1. Ls!LsTypes /\ Ls!OnURL /\ Ls!OneOpen /\ Ls!WholeTree
  BY DEF Ls!LsInv
<1>2. v9 \in Seq(Ls!ConnType) /\ v5.id \in Nat /\ v6.id \in Nat /\ Len(v9) \in Nat
  BY <1>1 DEF Ls!LsTypes, Ls!ConnInfo
<1>3. Ls!LsTypeOK
  <2>1. \A k \in DOMAIN v9 : v9[k].state \in {"open", "quit", "lost"}
    <3>1. \A k \in DOMAIN v9 : v9[k] \in Ls!ConnType
      BY <1>2
    <3>2. QED
      BY <3>1 DEF Ls!ConnType
  <2>2. QED
    BY <1>1, <1>2, <2>1 DEF Ls!LsTypeOK, Ls!LsTypes
<1>4. Ls!RightListing
  BY <1>1, <1>2 DEF Ls!RightListing, Ls!OnURL, Ls!Named, Ls!Lives
<1>5. Ls!OneConnection
  BY <1>1 DEF Ls!OneConnection, Ls!OneOpen, Ls!LsTypes
<1>6. QED
  BY <1>1, <1>3, <1>4, <1>5

-----------------------------------------------------------------------------
(***************************************************************************)
(* ncftpspooler.                                                           *)
(***************************************************************************)
LEMMA JobTyped ==
    ASSUME Bi!BiTypes, v3 # "none"
    PROVE  /\ v3 \in Jobs /\ v3 \in v1 /\ Bi!J.host \in STRING /\ Bi!J.user \in STRING /\ Bi!J.port \in Nat
           /\ Bi!J.rdir \in Bi!RDir /\ HomeDir \in Bi!Names
<1>1. v3 \in Jobs /\ v3 \in v1
  BY DEF Bi!BiTypes
<1>2. Bi!J \in Bi!JobFile /\ HomeDir \in Bi!Names
  BY <1>1, SpoolerItemAssumption DEF Bi!BiAssumption, Bi!J
<1>3. QED
  BY <1>1, <1>2 DEF Bi!JobFile

LEMMA TargetTyped ==
    ASSUME NEW from \in Bi!Names, NEW d \in Bi!RDir
    PROVE  /\ Bi!Target(from, d) \in Bi!Names /\ d.abs \in BOOLEAN
           /\ d.abs => \A other : Bi!Target(other, d) = Bi!Target(from, d)
<1>1. d.abs \in BOOLEAN /\ d.names \in Seq(STRING) /\ from \in Seq(STRING)
  BY DEF Bi!RDir, Bi!Names
<1>2. from \o d.names \in Seq(STRING)
  BY <1>1
<1>3. QED
  BY <1>1, <1>2 DEF Bi!Target, Bi!Names

LEMMA SpoolConn ==
    ASSUME NEW c \in Bi!ConnType
    PROVE  c.cwd \in Bi!Names /\ c.up \in BOOLEAN
  BY DEF Bi!ConnType

LEMMA SpoolCwd ==
    ASSUME NEW c \in Bi!ConnType, NEW x \in Bi!Names, NEW d, d = [c EXCEPT !.cwd = x]
    PROVE  d \in Bi!ConnType /\ d.cwd = x /\ d.up = c.up /\ d.host = c.host /\ d.user = c.user
  BY DEF Bi!ConnType

LEMMA SpoolLost ==
    ASSUME NEW c \in Bi!ConnType, NEW d, d = [c EXCEPT !.up = FALSE]
    PROVE  d \in Bi!ConnType /\ ~d.up /\ d.host = c.host /\ d.user = c.user /\ d.cwd = c.cwd
  BY DEF Bi!ConnType

LEMMA ClosedConn == Bi!Closed \in Bi!ConnType
  BY DEF Bi!Closed, Bi!ConnType, Bi!OrNone, Bi!Names

(* Numbers of files.                                                       *)
LEMMA FilesCounted ==
    ASSUME NEW S \in SUBSET Jobs
    PROVE  /\ IsFiniteSet(S) /\ Bi!Cardinality(S) = Cardinality(S) /\ Cardinality(S) \in Nat
           /\ \A T \in SUBSET S : Cardinality(T) <= Cardinality(S)
           /\ \A j \in S : Cardinality(S \ {j}) = Cardinality(S) - 1
<1>1. IsFiniteSet(Jobs)
  BY SpoolerItemAssumption DEF Bi!BiAssumption, Bi!IsFiniteSet, IsFiniteSet
<1>2. IsFiniteSet(S)
  BY <1>1, FS_Subset
<1>3. Bi!Cardinality(S) = Cardinality(S)
  BY DEF Bi!Cardinality, Cardinality
<1>4. QED
  BY <1>2, <1>3, FS_Subset, FS_CardinalityType, FS_RemoveElement

(* The end of an item, whether the job is over or not.                     *)
Ends == Bi!ItemEnds(TRUE) \/ Bi!ItemEnds(FALSE)

LEMMA EndsSteps ==
    ASSUME Bi!BiTypes, v3 # "none", Ends
    PROVE  /\ v3' = "none" /\ v4' = "pick" /\ v8' = "/" /\ v1' \in {v1, v1 \ {v3}} /\ v2' = v2
           /\ v9' = v9 /\ v12' = v12 /\ v11' \in {v11, v11 + 1}
  BY DEF Ends, Bi!ItemEnds

LEMMA EndsTyped ==
    ASSUME Bi!BiTypes, v3 # "none", Ends, v5' \in Bi!ConnType,
           v6' \in {Bi!NoStart, HomeDir}, v10' = v10
    PROVE  Bi!BiTypes'
  BY EndsSteps DEF Bi!BiTypes

LEMMA BiKeepsTypes == ASSUME Bi!BiTypes, Bi!Counted, Bi!OwnPlace, Bi!BiNext PROVE Bi!BiTypes'
<1>0. v5 \in Bi!ConnType /\ (v3 # "none" => v3 \in v1)
  BY DEF Bi!BiTypes
<1>1. CASE Bi!Pass
  BY <1>1, ClosedConn, FilesCounted DEF Bi!Pass, Bi!BiTypes
<1>2. CASE Bi!PassEnds
  BY <1>2 DEF Bi!PassEnds, Bi!BiTypes, Bi!passvars
<1>3. CASE \E j \in Jobs : Bi!LoadCurrentSpoolFileContents(j)
  BY <1>3, SpoolerItemAssumption DEF Bi!LoadCurrentSpoolFileContents, Bi!BiTypes, Bi!BiAssumption
<1>4. CASE Bi!EnterLocal
  <2>1. v3 # "none" /\ v4 = "local" /\ UNCHANGED <<v5, v6, v10>>
    BY <1>4 DEF Bi!EnterLocal, Bi!BiTypes, Bi!passvars
  <2>2. Ends \/ (v4' = "connection" /\ UNCHANGED <<v1, v2, v3, v9, v11>>)
    BY <1>4 DEF Bi!EnterLocal, Bi!passvars, Ends
  <2>3. QED
    BY <1>0, <2>1, <2>2, EndsTyped DEF Bi!BiTypes
<1>5. CASE Bi!KeepConnection
  BY <1>5 DEF Bi!KeepConnection, Bi!BiTypes, Bi!passvars
<1>6. CASE Bi!SkipHost
  BY <1>6, EndsTyped, ClosedConn DEF Bi!SkipHost, Bi!BiTypes, Ends
<1>7. CASE Bi!DialFails
  BY <1>7, EndsTyped, ClosedConn DEF Bi!DialFails, Bi!BiTypes, Ends
<1>8. CASE Bi!Opened
  <2>1. v3 # "none" /\ v4 = "connection"
    BY <1>8 DEF Bi!Opened, Bi!BiTypes
  <2>2. [up |-> TRUE, host |-> Bi!J.host, port |-> Bi!J.port, user |-> Bi!J.user, cwd |-> HomeDir] \in Bi!ConnType
    BY <2>1, JobTyped DEF Bi!ConnType, Bi!OrNone
  <2>3. QED
    <3>1. CASE v5' = Bi!Closed /\ Ends /\ UNCHANGED <<v6, v10>>
      BY <2>1, <3>1, EndsTyped, ClosedConn DEF Bi!BiTypes
    <3>2. CASE /\ v5' = [up |-> TRUE, host |-> Bi!J.host, port |-> Bi!J.port, user |-> Bi!J.user, cwd |-> HomeDir]
               /\ v6' = HomeDir /\ v4' = "enter" /\ UNCHANGED <<v1, v2, v3, v9, v10, v11>>
      BY <2>1, <2>2, <3>2 DEF Bi!BiTypes
    <3>3. QED
      BY <1>8, <3>1, <3>2 DEF Bi!Opened, Bi!passvars, Ends
<1>9. CASE Bi!GoBack
  <2>1. v3 # "none" /\ v4 = "back" /\ HomeDir \in Bi!Names
    BY <1>9, JobTyped DEF Bi!GoBack, Bi!BiTypes
  <2>2. Bi!Lost \in Bi!ConnType
    BY <1>0, SpoolLost DEF Bi!Lost
  <2>3. Bi!BackAtStart \in Bi!ConnType
    BY <1>0, <2>1, SpoolCwd, SpoolConn DEF Bi!BackAtStart, Bi!BiTypes
  <2>4. QED
    <3>1. CASE v5' \in {v5, Bi!Lost} /\ Ends /\ UNCHANGED <<v6, v10>>
      BY <1>0, <2>1, <2>2, <3>1, EndsTyped DEF Bi!BiTypes
    <3>2. CASE v5' = Bi!BackAtStart /\ v4' = "again" /\ UNCHANGED <<v1, v2, v3, v6, v9, v10, v11>>
      BY <2>1, <2>3, <3>2 DEF Bi!BiTypes
    <3>3. QED
      BY <1>9, <3>1, <3>2 DEF Bi!GoBack, Ends
<1>10. CASE Bi!EnterRemote
  <2>1. v3 # "none" /\ v4 \in {"enter", "again"} /\ HomeDir \in Bi!Names /\ Bi!J.rdir \in Bi!RDir
    BY <1>10, JobTyped DEF Bi!EnterRemote, Bi!BiTypes
  <2>2. Bi!Lost \in Bi!ConnType
    BY <1>0, SpoolLost DEF Bi!Lost
  <2>3. Bi!Target(v5.cwd, Bi!J.rdir) \in Bi!Names
    BY <1>0, <2>1, SpoolConn, TargetTyped
  <2>4. \A to \in Bi!Names : [v5 EXCEPT !.cwd = to] \in Bi!ConnType
    BY <1>0, SpoolCwd
  <2>5. \A to \in Bi!Names : Bi!HalfWay(to) \subseteq Bi!ConnType
    <3>1. \A to \in Bi!Names : \A n \in 0..(Len(to) - 1) : SubSeq(to, 1, n) \in Bi!Names
      BY DEF Bi!Names
    <3>2. QED
      BY <1>0, <2>4, <3>1 DEF Bi!HalfWay
  <2>6. v5' \in Bi!ConnType
    BY <1>10, <2>2, <2>3, <2>4, <2>5 DEF Bi!EnterRemote
  <2>7. \/ v4' = "transfer" /\ UNCHANGED <<v1, v2, v3, v9, v10, v11, v6>>
        \/ Ends /\ UNCHANGED <<v6, v10>>
    <3>1. Bi!ItemEnds(v4 = "enter") => Ends
      BY DEF Ends, Bi!ItemEnds
    <3>2. QED
      BY <1>10, <3>1 DEF Bi!EnterRemote
  <2>8. QED
    BY <2>1, <2>6, <2>7, EndsTyped DEF Bi!BiTypes
<1>11. CASE Bi!Transferred
  <2>1. v3 # "none"
    BY <1>11 DEF Bi!Transferred, Bi!BiTypes
  <2>2. Bi!Lost \in Bi!ConnType
    BY <1>0, SpoolLost DEF Bi!Lost
  <2>3. QED
    BY <1>0, <1>11, <2>1, <2>2, EndsTyped DEF Bi!Transferred, Bi!BiTypes, Ends
<1>12. CASE Bi!SpoolerEnds
  BY <1>12, ClosedConn DEF Bi!SpoolerEnds, Bi!BiTypes, Bi!passvars
<1>13. QED
  BY <1>1, <1>2, <1>3, <1>4, <1>5, <1>6, <1>7, <1>8, <1>9, <1>10, <1>11, <1>12 DEF Bi!BiNext

(* What a job that is under way leaves of the numbers and of the place.    *)
LEMMA EndsCounted ==
    ASSUME Bi!BiTypes, Bi!Counted, v3 # "none", Ends, v10' = v10
    PROVE  Bi!Counted'
<1>1. v10' = v10 /\ v2' = v2 /\ v9' = v9 /\ v3' = "none" /\ v11' \in {v11, v11 + 1}
  BY EndsSteps
<1>2. v11 \in Nat /\ v10 \in Nat /\ v11 + 1 <= v10 /\ v10 + Bi!Cardinality(v2) <= v9
  BY DEF Bi!BiTypes, Bi!Counted
<1>3. v11' + (IF v3' = "none" THEN 0 ELSE 1) <= v10'
  <2>1. ASSUME NEW n \in {v11, v11 + 1} PROVE n + 0 <= v10
    BY <1>2
  <2>2. v11' + 0 <= v10'
    BY <1>1, <2>1
  <2>3. QED
    BY <1>1, <2>2
<1>4. v10' + Bi!Cardinality(v2') <= v9'
  BY <1>1, <1>2
<1>5. QED
  BY <1>3, <1>4 DEF Bi!Counted

LEMMA EndsPlaced ==
    ASSUME Bi!BiTypes, v3 # "none", Ends PROVE Bi!OwnPlace' /\ Bi!RightPlace'
  BY EndsSteps DEF Bi!OwnPlace, Bi!RightPlace

LEMMA BiKeepsCounted == ASSUME Bi!BiTypes, Bi!Counted, Bi!BiNext PROVE Bi!Counted'
<1>0. v9 \in Nat /\ v10 \in Nat /\ v11 \in Nat /\ v1 \in SUBSET Jobs /\ v2 \in SUBSET v1
  BY DEF Bi!BiTypes
<1>a. ASSUME UNCHANGED <<v2, v9, v10, v11>>, v3' # "none" <=> v3 # "none" PROVE Bi!Counted'
  BY <1>a DEF Bi!Counted
<1>1. CASE Bi!Pass
  <2>1. /\ v2' \in SUBSET v1 /\ v9' = Bi!Cardinality(v1) /\ v10' = 0 /\ v11' = 0 /\ v3' = v3 /\ v3 = "none"
    BY <1>1 DEF Bi!Pass, Bi!BiTypes
  <2>2. Bi!Cardinality(v2') = Cardinality(v2') /\ Cardinality(v2') \in Nat
    BY <1>0, <2>1, FilesCounted
  <2>3. Cardinality(v2') <= Cardinality(v1) /\ Bi!Cardinality(v1) = Cardinality(v1)
    BY <1>0, <2>1, FilesCounted
  <2>4. QED
    BY <2>1, <2>2, <2>3 DEF Bi!Counted
<1>2. CASE Bi!PassEnds
  BY <1>2, <1>a DEF Bi!PassEnds, Bi!passvars
<1>3. CASE \E j \in Jobs : Bi!LoadCurrentSpoolFileContents(j)
  <2>1. PICK j \in Jobs : Bi!LoadCurrentSpoolFileContents(j)
    BY <1>3
  <2>2. /\ j \in v2 /\ v2' = v2 \ {j} /\ v10' = v10 + 1 /\ v9' = v9 /\ v3 = "none"
        /\ (v3' = j /\ v11' = v11) \/ (v3' = v3 /\ v11' = v11 + 1)
    BY <2>1 DEF Bi!LoadCurrentSpoolFileContents, Bi!BiTypes
  <2>3. /\ Bi!Cardinality(v2) = Cardinality(v2) /\ Cardinality(v2) \in Nat
        /\ Cardinality(v2 \ {j}) = Cardinality(v2) - 1
        /\ Bi!Cardinality(v2 \ {j}) = Cardinality(v2 \ {j})
    BY <1>0, <2>2, FilesCounted
  <2>4. v10 + Cardinality(v2) <= v9 /\ v11 <= v10
    <3>1. v10 + Bi!Cardinality(v2) <= v9 /\ v11 + (IF v3 = "none" THEN 0 ELSE 1) <= v10
      BY DEF Bi!Counted
    <3>2. v11 + 0 <= v10
      BY <2>2, <3>1
    <3>3. QED
      BY <1>0, <2>3, <3>1, <3>2
  <2>5. v10' + Bi!Cardinality(v2') <= v9'
    BY <1>0, <2>2, <2>3, <2>4
  <2>6. v11' + (IF v3' = "none" THEN 0 ELSE 1) <= v10'
    BY <1>0, <2>2, <2>4
  <2>7. QED
    BY <2>5, <2>6 DEF Bi!Counted
<1>4. CASE Bi!EnterLocal
  BY <1>4, <1>a, EndsCounted DEF Bi!EnterLocal, Bi!BiTypes, Bi!passvars, Ends
<1>5. CASE Bi!KeepConnection
  BY <1>5, <1>a DEF Bi!KeepConnection, Bi!passvars
<1>6. CASE Bi!SkipHost
  BY <1>6, EndsCounted DEF Bi!SkipHost, Bi!BiTypes, Ends
<1>7. CASE Bi!DialFails
  BY <1>7, EndsCounted DEF Bi!DialFails, Bi!BiTypes, Ends
<1>8. CASE Bi!Opened
  BY <1>8, <1>a, EndsCounted DEF Bi!Opened, Bi!BiTypes, Bi!passvars, Ends
<1>9. CASE Bi!GoBack
  BY <1>9, <1>a, EndsCounted DEF Bi!GoBack, Bi!BiTypes, Ends
<1>10. CASE Bi!EnterRemote
  <2>1. Bi!ItemEnds(v4 = "enter") => Ends
    BY DEF Ends, Bi!ItemEnds
  <2>2. QED
    BY <1>10, <1>a, <2>1, EndsCounted DEF Bi!EnterRemote, Bi!BiTypes
<1>11. CASE Bi!Transferred
  BY <1>11, EndsCounted DEF Bi!Transferred, Bi!BiTypes, Ends
<1>12. CASE Bi!SpoolerEnds
  BY <1>12, <1>a DEF Bi!SpoolerEnds, Bi!passvars
<1>13. QED
  BY <1>1, <1>2, <1>3, <1>4, <1>5, <1>6, <1>7, <1>8, <1>9, <1>10, <1>11, <1>12 DEF Bi!BiNext

LEMMA BiKeepsPlace ==
    ASSUME Bi!BiTypes, Bi!OwnPlace, Bi!RightPlace, Bi!BiNext PROVE Bi!OwnPlace' /\ Bi!RightPlace'
<1>0. v5 \in Bi!ConnType /\ v6 \in {Bi!NoStart, HomeDir}
  BY DEF Bi!BiTypes
<1>1. CASE Bi!Pass
  BY <1>1 DEF Bi!Pass, Bi!OwnPlace, Bi!RightPlace
<1>2. CASE Bi!PassEnds
  BY <1>2 DEF Bi!PassEnds, Bi!OwnPlace, Bi!RightPlace
<1>3. CASE \E j \in Jobs : Bi!LoadCurrentSpoolFileContents(j)
  BY <1>3 DEF Bi!LoadCurrentSpoolFileContents, Bi!OwnPlace, Bi!RightPlace
<1>4. CASE Bi!EnterLocal
  BY <1>4, EndsPlaced DEF Bi!EnterLocal, Bi!BiTypes, Bi!OwnPlace, Bi!RightPlace, Bi!J, Ends
<1>5. CASE Bi!KeepConnection
  BY <1>0, <1>5, SpoolConn DEF Bi!KeepConnection, Bi!NeedOpen, Bi!OwnPlace, Bi!RightPlace, Bi!J
<1>6. CASE Bi!SkipHost
  BY <1>6, EndsPlaced DEF Bi!SkipHost, Bi!BiTypes, Ends
<1>7. CASE Bi!DialFails
  BY <1>7, EndsPlaced DEF Bi!DialFails, Bi!BiTypes, Ends
<1>8. CASE Bi!Opened
  <2>1. v3 # "none" /\ v4 = "connection"
    BY <1>8 DEF Bi!Opened, Bi!BiTypes
  <2>2. CASE Ends
    BY <2>1, <2>2, EndsPlaced
  <2>3. CASE /\ v5' = [up |-> TRUE, host |-> Bi!J.host, port |-> Bi!J.port, user |-> Bi!J.user, cwd |-> HomeDir]
             /\ v6' = HomeDir /\ v4' = "enter" /\ UNCHANGED <<v3, v8>>
    BY <2>1, <2>3 DEF Bi!OwnPlace, Bi!RightPlace, Bi!J
  <2>4. QED
    BY <1>8, <2>2, <2>3 DEF Bi!Opened, Ends
<1>9. CASE Bi!GoBack
  <2>1. v3 # "none" /\ v4 = "back" /\ HomeDir \in Bi!Names /\ v6' = v6
    BY <1>9, JobTyped DEF Bi!GoBack, Bi!BiTypes
  <2>2. CASE Ends
    BY <2>1, <2>2, EndsPlaced
  <2>3. CASE v5' = Bi!BackAtStart /\ v4' = "again" /\ UNCHANGED <<v3, v8>>
    <3>1. /\ v5'.up = v5.up /\ v5'.host = v5.host /\ v5'.user = v5.user
          /\ v6 # Bi!NoStart => v5'.cwd = HomeDir
      BY <1>0, <2>1, <2>3, SpoolCwd, SpoolConn DEF Bi!BackAtStart
    <3>2. QED
      BY <2>1, <2>3, <3>1 DEF Bi!OwnPlace, Bi!RightPlace, Bi!J
  <2>4. QED
    BY <1>9, <2>2, <2>3 DEF Bi!GoBack, Ends
<1>10. CASE Bi!EnterRemote
  <2>1. /\ v3 # "none" /\ v4 \in {"enter", "again"} /\ HomeDir \in Bi!Names /\ Bi!J.rdir \in Bi!RDir
        /\ v6' = v6
    BY <1>10, JobTyped DEF Bi!EnterRemote, Bi!BiTypes
  <2>2. CASE Ends
    BY <2>1, <2>2, EndsPlaced
  <2>. DEFINE to == Bi!Target(v5.cwd, Bi!J.rdir)
  <2>3. CASE v5' = [v5 EXCEPT !.cwd = to] /\ v4' = "transfer" /\ UNCHANGED <<v3, v8>>
    <3>1. v5.cwd \in Bi!Names /\ to \in Bi!Names
      BY <1>0, <2>1, SpoolConn, TargetTyped
    <3>2. v5'.up = v5.up /\ v5'.host = v5.host /\ v5'.user = v5.user /\ v5'.cwd = to
      BY <1>0, <2>3, <3>1, SpoolCwd
    <3>3. Bi!J.rdir.abs => to = Bi!Target(HomeDir, Bi!J.rdir)
      BY <2>1, <3>1, TargetTyped
    <3>4. v6 # Bi!NoStart => v5.cwd = HomeDir
      BY <2>1 DEF Bi!OwnPlace
    <3>5. Bi!J' = Bi!J
      BY <2>3 DEF Bi!J
    <3>. HIDE DEF to
    <3>6. Bi!J.rdir.abs \/ v6' # Bi!NoStart => v5'.cwd = Bi!Target(HomeDir, Bi!J.rdir)
      BY <2>1, <3>2, <3>3, <3>4 DEF to
    <3>7. QED
      BY <2>1, <2>3, <3>2, <3>5, <3>6 DEF Bi!OwnPlace, Bi!RightPlace
  <2>4. Bi!ItemEnds(v4 = "enter") => Ends
    BY DEF Ends, Bi!ItemEnds
  <2>5. QED
    BY <1>10, <2>2, <2>3, <2>4 DEF Bi!EnterRemote
<1>11. CASE Bi!Transferred
  BY <1>11, EndsPlaced DEF Bi!Transferred, Bi!BiTypes, Ends
<1>12. CASE Bi!SpoolerEnds
  BY <1>12 DEF Bi!SpoolerEnds, Bi!OwnPlace, Bi!RightPlace
<1>13. QED
  BY <1>1, <1>2, <1>3, <1>4, <1>5, <1>6, <1>7, <1>8, <1>9, <1>10, <1>11, <1>12 DEF Bi!BiNext

LEMMA BiKeepsFailed == ASSUME Bi!FailedLast, Bi!BiNext PROVE Bi!FailedLast'
<1>1. ASSUME UNCHANGED <<v7, v13>> PROVE Bi!FailedLast'
  BY <1>1 DEF Bi!FailedLast
<1>2. CASE Bi!Pass
  BY <1>2 DEF Bi!Pass, Bi!FailedLast, Bi!Undialled
<1>3. CASE Bi!DialFails
  BY <1>3 DEF Bi!DialFails, Bi!FailedLast
<1>4. CASE Bi!Opened
  BY <1>4 DEF Bi!Opened, Bi!FailedLast
<1>5. QED
  BY <1>1, <1>2, <1>3, <1>4
  DEF Bi!BiNext, Bi!PassEnds, Bi!LoadCurrentSpoolFileContents, Bi!EnterLocal, Bi!KeepConnection,
      Bi!SkipHost, Bi!GoBack, Bi!EnterRemote, Bi!Transferred, Bi!SpoolerEnds

LEMMA BiStarts == Bi!BiInit => Bi!BiInv
<1>. SUFFICES ASSUME Bi!BiInit PROVE Bi!BiInv
  OBVIOUS
<1>1. \A c \in Inheritable : Bi!Inherited(c) \in Bi!ConnType
  BY SpoolerItemAssumption DEF Bi!BiAssumption, Bi!Inherited, Bi!ConnType, Bi!OrNone
<1>2. v5 \in Bi!ConnType
  BY <1>1, ClosedConn DEF Bi!BiInit
<1>3. Bi!BiTypes
  BY <1>2 DEF Bi!BiInit, Bi!BiTypes
<1>4. Bi!Counted
  <2>1. Bi!Cardinality({}) = 0
    BY FilesCounted, FS_EmptySet
  <2>2. QED
    BY <2>1 DEF Bi!BiInit, Bi!Counted
<1>5. QED
  BY <1>3, <1>4 DEF Bi!BiInit, Bi!BiInv, Bi!OwnPlace, Bi!RightPlace, Bi!FailedLast, Bi!Undialled

LEMMA BiStep == ASSUME Bi!BiInv, Bi!BiNext PROVE Bi!BiInv'
  BY BiKeepsTypes, BiKeepsCounted, BiKeepsPlace, BiKeepsFailed DEF Bi!BiInv

LEMMA BiSafe == ASSUME Bi!BiInv PROVE Bi!BiTypeOK /\ Bi!RightPlace
<1>1. Bi!BiTypes /\ Bi!Counted
  BY DEF Bi!BiInv
<1>2. v10 <= v9
  <2>1. v2 \in SUBSET Jobs /\ v9 \in Nat /\ v10 \in Nat
    BY <1>1 DEF Bi!BiTypes
  <2>2. Bi!Cardinality(v2) \in Nat
    BY <2>1, FilesCounted
  <2>3. QED
    BY <1>1, <2>1, <2>2 DEF Bi!Counted
<1>3. v11 <= v10
  BY <1>1 DEF Bi!Counted, Bi!BiTypes
<1>4. QED
  BY <1>1, <1>2, <1>3 DEF Bi!BiInv, Bi!BiTypeOK, Bi!BiTypes

(* A host that was just dialled in vain is not dialled, and a job whose    *)
(* connection breaks is kept.                                              *)
LEMMA BiStepSafe == ASSUME Bi!BiInv, Bi!BiNext PROVE Bi!SkipsFailed /\ Bi!KeepsJob
<1>0. Bi!BiTypes /\ Bi!FailedLast
  BY DEF Bi!BiInv
<1>1. Bi!SkipsFailed
  <2>1. SUFFICES ASSUME Bi!DialsHost, v13.failed PROVE v13'.host # v13.host
    BY DEF Bi!SkipsFailed
  <2>2. v4 = "connection" /\ (v4' = "enter" \/ v13' # v13)
    BY <2>1 DEF Bi!DialsHost
  <2>3. Bi!DialFails \/ Bi!Opened
    BY <2>2 DEF Bi!BiNext, Bi!Pass, Bi!PassEnds, Bi!LoadCurrentSpoolFileContents, Bi!EnterLocal,
         Bi!KeepConnection, Bi!SkipHost, Bi!ItemEnds, Bi!GoBack, Bi!EnterRemote, Bi!Transferred, Bi!SpoolerEnds
  <2>4. v13'.host = Bi!J.host /\ Bi!J.host # v7
    <3>1. CASE Bi!DialFails
      <4>1. v13' = [host |-> Bi!J.host, failed |-> TRUE] /\ Bi!J.host # v7
        BY <3>1 DEF Bi!DialFails
      <4>2. QED
        BY <4>1
    <3>2. CASE Bi!Opened
      <4>1. v13' = [host |-> Bi!J.host, failed |-> FALSE] /\ Bi!J.host # v7
        BY <3>2 DEF Bi!Opened
      <4>2. QED
        BY <4>1
    <3>3. QED
      BY <2>3, <3>1, <3>2
  <2>5. QED
    BY <1>0, <2>1, <2>4 DEF Bi!FailedLast
<1>2. Bi!KeepsJob
  <2>1. SUFFICES ASSUME Bi!BreaksUnder PROVE v3 \in v1'
    BY DEF Bi!KeepsJob
  <2>2. v3 # "none" /\ v3 \in v1 /\ v5.up /\ ~v5'.up /\ v4 \in {"back", "again", "transfer"} /\ v5 \in Bi!ConnType
    BY <1>0, <2>1 DEF Bi!BreaksUnder, Bi!BiTypes
  <2>3. CASE Bi!GoBack
    BY <2>2, <2>3 DEF Bi!GoBack, Bi!ItemEnds
  <2>4. CASE Bi!EnterRemote
    BY <2>2, <2>4 DEF Bi!EnterRemote, Bi!ItemEnds
  <2>5. CASE Bi!Transferred
    BY <2>2, <2>5 DEF Bi!Transferred, Bi!ItemEnds
  <2>6. QED
    BY <2>2, <2>3, <2>4, <2>5
    DEF Bi!BiNext, Bi!Pass, Bi!PassEnds, Bi!LoadCurrentSpoolFileContents, Bi!EnterLocal,
        Bi!KeepConnection, Bi!SkipHost, Bi!DialFails, Bi!Opened, Bi!SpoolerEnds
<1>3. QED
  BY <1>1, <1>2

-----------------------------------------------------------------------------
(***************************************************************************)
(* How ncftpspooler sleeps.                                                *)
(***************************************************************************)
LEMMA LeastOf ==
    ASSUME NEW S \in SUBSET Nat, S # {}
    PROVE  (CHOOSE d \in S : \A e \in S : d <= e) \in S
<1>1. PICK x \in S : \A y \in S : ~(<<y, x>> \in OpToRel(<, Nat))
  BY NatLessThanWellFounded, WFMin
<1>2. \A y \in S : ~(y < x)
  BY <1>1 DEF OpToRel
<1>3. \A y \in S : x <= y
  BY <1>2
<1>4. QED
  BY <1>3

LEMMA FactorTyped == Factors \subseteq 12..26
  BY SpoolerSleepAssumption DEF Sl!SlAssumption

(* A time grows by a fifth at least and to 2.6 times at most.              *)
DelayFits(d, k) == Sl!NextDelay(d, k) \in 5..900
LEMMA DelayTyped ==
    ASSUME NEW d, NEW k \in Factors, d = 0 \/ d \in 5..900
    PROVE  DelayFits(d, k)
<1>1. CASE d = 0
  BY <1>1 DEF DelayFits, Sl!NextDelay
<1>2. CASE d # 0
  <2>1. d \in 1..900 /\ d >= 5 /\ k \in 12..26
    BY <1>2, FactorTyped
  <2>2. 12 * d <= k * d /\ k * d <= 26 * d /\ k * d \in Nat
    BY <2>1
  <2>n. (k * d) \div 10 \in 1..2340 /\ (k * d) \div 10 >= 5
    BY <2>1, <2>2
  <2>3. QED
    BY <1>2, <2>n DEF DelayFits, Sl!NextDelay, Sl!NEW_SLEEP_VAL
<1>3. QED
  BY <1>1, <1>2

LEMMA SleepTyped ==
    ASSUME v1 \in Nat, v2 \in Nat, v3 \in 0..900, NEW k \in Factors
    PROVE  /\ Sl!SleepVal(k) \in Nat /\ Sl!SleepVal(k) > 0
           /\ Sl!SleepVal(k) <= v1 \/ Sl!SleepVal(k) <= 2340
<1>1. CASE v3 # 0 \/ v1 # 0 \/ v2 = 0 \/ v2 > 900
  BY <1>1 DEF Sl!SleepVal
<1>2. CASE ~(v3 # 0 \/ v1 # 0 \/ v2 = 0 \/ v2 > 900)
  <2>1. v2 \in 1..900 /\ v3 = 0 /\ v1 = 0 /\ k \in 12..26
    BY <1>2, FactorTyped
  <2>2. 12 * v2 <= k * v2 /\ k * v2 <= 26 * v2 /\ k * v2 \in Nat
    BY <2>1
  <2>n. (k * v2) \div 10 \in 1..2340
    BY <2>1, <2>2
  <2>3. QED
    BY <2>1, <2>n DEF Sl!SleepVal, Sl!NEW_SLEEP_VAL
<1>3. QED
  BY <1>1, <1>2

LEMMA SlStarts == Sl!SlInit => Sl!SlInv
<1>. SUFFICES ASSUME Sl!SlInit PROVE Sl!SlInv
  OBVIOUS
<1>1. v8 = FALSE
  BY DEF Sl!SlInit
<1>2. v1 \in Nat /\ v2 \in Nat /\ v3 = 0 /\ v4 = [j \in Waiting |-> 0] /\ v5 = {} /\ v6 = {} /\ v7 = 0
  BY SpoolerSleepAssumption DEF Sl!SlAssumption, Sl!SlInit
<1>3. Sl!SleepsSoundly
  BY <1>1, <1>2 DEF Sl!SleepsSoundly
<1>4. v8 \in BOOLEAN
  BY <1>1
<1>5. QED
  BY <1>2, <1>3, <1>4 DEF Sl!SlInv

LEMMA SlStep == ASSUME Sl!SlInv, Sl!SleepAndPass PROVE Sl!SlInv'
<1>1. /\ v1 \in Nat /\ v2 \in Nat /\ v3 \in 0..900 /\ v7 \in Nat
      /\ v4 \in [Waiting -> {0} \cup 5..900] /\ v1' = v1 /\ v7' = v7 + 1
  BY DEF Sl!SlInv, Sl!SleepAndPass
<1>2. PICK k \in Factors : Sl!Sleep(k) /\ \E t \in SUBSET Waiting : \E f \in SUBSET t : Sl!Try(t, f, k)
  BY DEF Sl!SleepAndPass
<1>3. PICK t \in SUBSET Waiting : \E f \in SUBSET t : Sl!Try(t, f, k)
  BY <1>2
<1>4. PICK f \in SUBSET t : Sl!Try(t, f, k)
  BY <1>3
<1>5. v4' \in [Waiting -> {0} \cup 5..900] /\ \A j \in f : v4'[j] \in 5..900
  <2>1. \A j \in Waiting : v4[j] \in {0} \cup 5..900
    BY <1>1
  <2>2. ASSUME NEW j \in Waiting PROVE Sl!NextDelay(v4[j], k) \in 5..900
    <3>1. v4[j] = 0 \/ v4[j] \in 5..900
      BY <2>1
    <3>2. DelayFits(v4[j], k)
      BY <3>1, DelayTyped
    <3>3. QED
      BY <3>2 DEF DelayFits
  <2>3. v4' = [j \in Waiting |-> IF j \in f THEN Sl!NextDelay(v4[j], k)
                                ELSE IF j \in t THEN 0 ELSE v4[j]]
    BY <1>4 DEF Sl!Try
  <2>4. \A j \in Waiting : v4'[j] \in {0} \cup 5..900
    BY <2>1, <2>2, <2>3
  <2>5. \A j \in f : v4'[j] \in 5..900
    BY <2>2, <2>3
  <2>6. v4' \in [Waiting -> {0} \cup 5..900]
    BY <2>3, <2>4
  <2>7. QED
    BY <2>5, <2>6
<1>6. v3' \in 0..900
  <2>. DEFINE left == {v4'[j] : j \in f} \cup (IF Sl!MustSleep \/ v3 = 0 THEN {} ELSE {v3})
  <2>1. left \in SUBSET (0..900)
    BY <1>1, <1>5
  <2>2. v3' = Sl!Least(left)
    BY <1>4 DEF Sl!Try
  <2>. HIDE DEF left
  <2>3. left \in SUBSET Nat
    BY <2>1
  <2>4. CASE left = {}
    BY <2>2, <2>4 DEF Sl!Least
  <2>5. CASE left # {}
    <3>1. Sl!Least(left) = CHOOSE d \in left : \A e \in left : d <= e
      BY <2>5 DEF Sl!Least
    <3>2. Sl!Least(left) \in left
      BY <2>3, <2>5, <3>1, LeastOf
    <3>3. QED
      BY <2>1, <2>2, <3>2
  <2>6. QED
    BY <2>4, <2>5
<1>q. v8' => Sl!MustSleep /\ (v2' = 0 \/ v2' > 30000)
  <2>1. v8 = FALSE
    BY DEF Sl!SlInv, Sl!SleepAndPass
  <2>2. ~(Sl!MustSleep /\ (v2' = 0 \/ v2' > 30000)) => v8' = FALSE
    BY <1>2, <2>1 DEF Sl!Sleep
  <2>3. QED
    BY <2>2
<1>r. v8' \in BOOLEAN
  <2>1. v8' = TRUE \/ v8' = v8
    BY <1>2 DEF Sl!Sleep
  <2>2. v8 \in BOOLEAN
    BY DEF Sl!SlInv
  <2>3. QED
    BY <2>1, <2>2
<1>7. v2' \in Nat /\ (v2' <= v1' \/ v2' <= 2340) /\ (v8' => v1' > 30000)
  <2>1. CASE Sl!MustSleep
    <3>1. v2' = Sl!SleepVal(k)
      BY <1>2, <2>1 DEF Sl!Sleep
    <3>2. v2' \in Nat /\ v2' > 0 /\ (v2' <= v1 \/ v2' <= 2340)
      BY <1>1, <3>1, SleepTyped
    <3>3. v8' => v2' = 0 \/ v2' > 30000
      BY <1>q
    <3>4. v2' = 0 \/ v2' > 30000 => v1' > 30000
      BY <1>1, <3>2
    <3>5. v8' => v1' > 30000
      BY <3>3, <3>4
    <3>6. QED
      BY <1>1, <3>2, <3>5
  <2>2. CASE ~Sl!MustSleep
    <3>1. v2' = v2
      BY <1>2, <2>2 DEF Sl!Sleep
    <3>n. ~v8'
      BY <1>q, <2>2
    <3>2. v2 <= v1 \/ v2 <= 2340
      <4>1. CASE v7 > 0
        BY <4>1 DEF Sl!SlInv, Sl!SleepsSoundly
      <4>2. CASE v7 = 0
        <5>1. v2 = 0
          BY <1>1, <2>2, <4>2 DEF Sl!MustSleep, Sl!SlInv
        <5>2. QED
          BY <5>1
      <4>3. QED
        BY <1>1, <4>1, <4>2
    <3>3. QED
      BY <1>1, <3>1, <3>n, <3>2
  <2>3. QED
    BY <2>1, <2>2
<1>8. \A j \in Waiting : v4'[j] <= 900 /\ (j \in v6' => v4'[j] >= 5)
  <2>1. \A j \in Waiting : v4'[j] \in {0} \cup 5..900
    BY <1>5
  <2>2. v6' = f
    BY <1>4 DEF Sl!Try
  <2>3. QED
    BY <1>5, <2>1, <2>2
<1>9. v1' \in Nat /\ v7' \in Nat /\ v7' # 0 /\ v5' \subseteq Waiting /\ v6' \subseteq v5'
  BY <1>1, <1>4 DEF Sl!Try
<1>10. Sl!SleepsSoundly'
  BY <1>7, <1>8 DEF Sl!SleepsSoundly
<1>11. QED
  BY <1>r, <1>5, <1>6, <1>7, <1>9, <1>10 DEF Sl!SlInv

-----------------------------------------------------------------------------
(***************************************************************************)
(* A tree and its copy.  First some facts about sequences and about        *)
(* functions that are defined along them.                                  *)
(***************************************************************************)
LEMMA ByNat ==
    ASSUME NEW Q, 0 \in Q, \A n \in Nat : n \in Q => n + 1 \in Q
    PROVE  \A n \in Nat : n \in Q
<1>1. SUFFICES ASSUME Nat \ Q # {} PROVE FALSE
  OBVIOUS
<1>2. PICK x \in Nat \ Q : \A y \in Nat \ Q : ~(<<y, x>> \in OpToRel(<, Nat))
  BY <1>1, NatLessThanWellFounded, WFMin
<1>3. \A y \in Nat : y < x => y \in Q
  BY <1>2 DEF OpToRel
<1>4. x \in Nat /\ x \notin Q
  OBVIOUS
<1>5. x # 0
  BY <1>4
<1>6. x - 1 \in Nat /\ x - 1 < x /\ (x - 1) + 1 = x
  BY <1>4, <1>5
<1>7. x - 1 \in Q
  BY <1>3, <1>6
<1>8. QED
  BY <1>4, <1>6, <1>7

StaysIn(V, n, G)   == \A k \in 1..n : \A v \in V : G[k][v] \in V
Traces(f, b, n, G) == f = [k \in 0..n |-> IF k = 0 THEN b ELSE G[k][f[k - 1]]]

LEMMA Stepwise ==
    ASSUME NEW V, NEW b \in V, NEW n \in Nat, NEW G, StaysIn(V, n, G)
    PROVE  \E f \in [0..n -> V] : Traces(f, b, n, G)
<1>0. \A k \in 1..n : \A v \in V : G[k][v] \in V
  BY DEF StaysIn
<1> DEFINE Is(f, m) == f = [k \in 0..m |-> IF k = 0 THEN b ELSE G[k][f[k - 1]]]
           Q == {m \in Nat : m <= n => \E f \in [0..m -> V] : Is(f, m)}
<1>1. 0 \in Q
  <2>1. PICK f : f = [k \in 0..0 |-> b]
    OBVIOUS
  <2>2. f \in [0..0 -> V]
    BY <2>1
  <2>3. Is(f, 0)
    BY <2>1
  <2>4. QED
    BY <2>2, <2>3
<1>2. ASSUME NEW m \in Nat, m \in Q PROVE m + 1 \in Q
  <2>1. SUFFICES ASSUME m + 1 <= n PROVE \E f \in [0..(m + 1) -> V] : Is(f, m + 1)
    OBVIOUS
  <2>2. m <= n
    BY <2>1
  <2>3. PICK f \in [0..m -> V] : Is(f, m)
    BY <1>2, <2>2
  <2>4. G[m + 1][f[m]] \in V
    <3>1. f[m] \in V /\ m + 1 \in 1..n
      BY <2>1, <2>3
    <3>2. QED
      BY <1>0, <3>1
  <2>5. PICK g : g = [k \in 0..(m + 1) |-> IF k = m + 1 THEN G[m + 1][f[m]] ELSE f[k]]
    OBVIOUS
  <2>6. ASSUME NEW k \in 0..(m + 1) PROVE g[k] \in V /\ g[k] = IF k = 0 THEN b ELSE G[k][g[k - 1]]
    <3>1. CASE k = m + 1
      <4>1. k # 0 /\ k - 1 = m /\ m \in 0..(m + 1) /\ m # m + 1
        BY <3>1
      <4>2. g[k] = G[m + 1][f[m]] /\ g[m] = f[m]
        BY <2>5, <3>1, <4>1
      <4>3. QED
        BY <2>4, <3>1, <4>1, <4>2
    <3>2. CASE k # m + 1
      <4>1. k \in 0..m /\ (k # 0 => k - 1 \in 0..(m + 1) /\ k - 1 # m + 1)
        BY <3>2
      <4>2. g[k] = f[k] /\ (k # 0 => g[k - 1] = f[k - 1])
        BY <2>5, <3>2, <4>1
      <4>3. f[k] = IF k = 0 THEN b ELSE G[k][f[k - 1]]
        BY <2>3, <4>1
      <4>4. QED
        BY <2>3, <4>1, <4>2, <4>3
    <3>3. QED
      BY <3>1, <3>2
  <2>7. g \in [0..(m + 1) -> V]
    BY <2>5, <2>6
  <2>8. Is(g, m + 1)
    <3>1. g = [k \in 0..(m + 1) |-> g[k]]
      BY <2>5
    <3>2. QED
      BY <2>6, <3>1
  <2>9. QED
    BY <2>7, <2>8
<1> HIDE DEF Q
<1>3. n \in Q
  BY <1>1, <1>2, ByNat
<1>4. QED
  BY <1>3 DEF Q, Traces
LEMMA AppendSub ==
    ASSUME NEW S, NEW s \in Seq(S), NEW m \in 1..2, NEW n \in Nat, n + 1 \in m..Len(s)
    PROVE  Append(SubSeq(s, m, n), s[n + 1]) = SubSeq(s, m, n + 1)
<1>1. \A i \in m..n + 1 : s[i] \in S
  BY ElementOfSeq
<1>2. PICK a : a = SubSeq(s, m, n)
  OBVIOUS
<1>3. PICK b : b = SubSeq(s, m, n + 1)
  OBVIOUS
<1>4. a \in Seq(S) /\ Len(a) = (IF m <= n THEN n - m + 1 ELSE 0) /\ \A i \in 1..n - m + 1 : a[i] = s[m + i - 1]
  BY <1>1, <1>2, SubSeqProperties
<1>5. b \in Seq(S) /\ Len(b) = (IF m <= n + 1 THEN n + 1 - m + 1 ELSE 0) /\ \A i \in 1..n + 1 - m + 1 : b[i] = s[m + i - 1]
  BY <1>1, <1>3, SubSeqProperties
<1>6. s[n + 1] \in S
  BY <1>1
<1>7. PICK c : c = Append(a, s[n + 1])
  OBVIOUS
<1>8. c \in Seq(S) /\ Len(c) = Len(a) + 1 /\ c[Len(a) + 1] = s[n + 1] /\ \A i \in 1..Len(a) : c[i] = a[i]
  BY <1>4, <1>6, <1>7, AppendProperties
<1>9. Len(a) = n - m + 1 /\ Len(b) = n - m + 2
  BY <1>4, <1>5
<1>10. \A i \in 1..Len(c) : c[i] = b[i]
  BY <1>4, <1>5, <1>8, <1>9
<1>11. QED
  BY <1>2, <1>3, <1>5, <1>7, <1>8, <1>9, <1>10, SeqEqual

KeepsWhole(f, p) == f = [n \in 0..Len(p) |-> IF n = 0 THEN <<>>
                                         ELSE IF p[n] \in {".", "/"} THEN f[n - 1] ELSE Append(f[n - 1], p[n])]

LEMMA CompressedIs ==
    ASSUME NEW C, NEW p \in Seq(C)
    PROVE  \E f : KeepsWhole(f, p) /\ Tr!Compressed(p) = f[Len(p)]
<1>1. PICK n \in Nat : n = Len(p)
  OBVIOUS
<1>2. \A k \in 1..n : p[k] \in C
  BY <1>1, ElementOfSeq
<1> DEFINE G == [k \in 1..n |-> [v \in Seq(C) |-> IF p[k] \in {".", "/"} THEN v ELSE Append(v, p[k])]]
<1>3. \A k \in 1..n : \A v \in Seq(C) : G[k][v] = IF p[k] \in {".", "/"} THEN v ELSE Append(v, p[k])
  OBVIOUS
<1>4. \A k \in 1..n : \A v \in Seq(C) : G[k][v] \in Seq(C)
  BY <1>2, <1>3
<1> HIDE DEF G
<1>5. PICK f \in [0..n -> Seq(C)] : f = [k \in 0..n |-> IF k = 0 THEN <<>> ELSE G[k][f[k - 1]]]
  <2>1. StaysIn(Seq(C), n, G)
    BY <1>4 DEF StaysIn
  <2>2. <<>> \in Seq(C)
    OBVIOUS
  <2>3. \E f \in [0..n -> Seq(C)] : Traces(f, <<>>, n, G)
    BY <1>1, <2>1, <2>2, Stepwise
  <2>4. QED
    BY <2>3 DEF Traces
<1>6. KeepsWhole(f, p)
  <2>1. ASSUME NEW k \in 0..n
        PROVE  (IF k = 0 THEN <<>> ELSE G[k][f[k - 1]])
               = (IF k = 0 THEN <<>> ELSE IF p[k] \in {".", "/"} THEN f[k - 1] ELSE Append(f[k - 1], p[k]))
    <3>1. SUFFICES ASSUME k # 0 PROVE G[k][f[k - 1]] = IF p[k] \in {".", "/"} THEN f[k - 1] ELSE Append(f[k - 1], p[k])
      OBVIOUS
    <3>2. k \in 1..n /\ k - 1 \in 0..n
      BY <3>1
    <3>3. f[k - 1] \in Seq(C)
      BY <1>5, <3>2
    <3>4. QED
      BY <1>3, <3>2, <3>3
  <2>2. [k \in 0..n |-> IF k = 0 THEN <<>> ELSE G[k][f[k - 1]]]
        = [k \in 0..n |-> IF k = 0 THEN <<>> ELSE IF p[k] \in {".", "/"} THEN f[k - 1] ELSE Append(f[k - 1], p[k])]
    BY <2>1
  <2>3. QED
    BY <1>1, <1>5, <2>2 DEF KeepsWhole
<1>7. PICK F : F = CHOOSE kept : KeepsWhole(kept, p)
  OBVIOUS
<1>8. KeepsWhole(F, p)
  BY <1>6, <1>7
<1>9. Tr!Compressed(p) = F[n]
  BY <1>1, <1>7 DEF Tr!Compressed, KeepsWhole
<1>10. QED
  BY <1>1, <1>8, <1>9

\* What holds of kept[0], and of each next if of the one before, holds of the whole.
LEMMA KeptStep ==
    ASSUME NEW f, NEW p, KeepsWhole(f, p), Len(p) \in Nat
    PROVE  /\ f[0] = <<>>
           /\ \A n \in Nat : n + 1 \in 0..Len(p) =>
                f[n + 1] = IF p[n + 1] \in {".", "/"} THEN f[n] ELSE Append(f[n], p[n + 1])
<1>1. 0 \in 0..Len(p) /\ \A n \in Nat : n + 1 # 0 /\ (n + 1) - 1 = n
  OBVIOUS
<1>2. f[0] = <<>>
  BY <1>1 DEF KeepsWhole
<1>3. ASSUME NEW n \in Nat, n + 1 \in 0..Len(p)
      PROVE  f[n + 1] = IF p[n + 1] \in {".", "/"} THEN f[n] ELSE Append(f[n], p[n + 1])
  BY <1>1, <1>3 DEF KeepsWhole
<1>4. QED
  BY <1>2, <1>3

LEMMA CompressedTyped == ASSUME NEW C, NEW p \in Seq(C) PROVE Tr!Compressed(p) \in Seq(C)
<1>1. PICK f : KeepsWhole(f, p) /\ Tr!Compressed(p) = f[Len(p)]
  BY CompressedIs
<1>2. Len(p) \in Nat
  OBVIOUS
<1> DEFINE Q == {n \in Nat : n \in 0..Len(p) => f[n] \in Seq(C)}
<1>3. 0 \in Q
  <2>1. f[0] = <<>> /\ <<>> \in Seq(C)
    BY <1>1, <1>2, KeptStep
  <2>2. QED
    BY <2>1
<1>4. ASSUME NEW n \in Nat, n \in Q PROVE n + 1 \in Q
  <2>1. SUFFICES ASSUME n + 1 \in 0..Len(p) PROVE f[n + 1] \in Seq(C)
    OBVIOUS
  <2>2. f[n] \in Seq(C) /\ p[n + 1] \in C
    BY <1>2, <1>4, <2>1, ElementOfSeq
  <2>3. f[n + 1] = IF p[n + 1] \in {".", "/"} THEN f[n] ELSE Append(f[n], p[n + 1])
    BY <1>1, <1>2, <2>1, KeptStep
  <2>4. QED
    BY <2>2, <2>3
<1> HIDE DEF Q
<1>5. Len(p) \in Q
  BY <1>2, <1>3, <1>4, ByNat
<1>6. QED
  BY <1>1, <1>2, <1>5 DEF Q

LEMMA CompressedPlain ==
    ASSUME NEW C, NEW p \in Seq(C), \A i \in 1..Len(p) : p[i] \notin {".", "/"}
    PROVE  Tr!Compressed(p) = p
<1>1. PICK f : KeepsWhole(f, p) /\ Tr!Compressed(p) = f[Len(p)]
  BY CompressedIs
<1>2. Len(p) \in Nat
  OBVIOUS
<1> DEFINE Q == {n \in Nat : n \in 0..Len(p) => f[n] = SubSeq(p, 1, n)}
<1>3. 0 \in Q
  <2>1. f[0] = <<>> /\ SubSeq(p, 1, 0) = <<>>
    BY <1>1, <1>2, KeptStep, SubSeqEmpty
  <2>2. QED
    BY <2>1
<1>4. ASSUME NEW n \in Nat, n \in Q PROVE n + 1 \in Q
  <2>1. SUFFICES ASSUME n + 1 \in 0..Len(p) PROVE f[n + 1] = SubSeq(p, 1, n + 1)
    OBVIOUS
  <2>2. f[n] = SubSeq(p, 1, n) /\ p[n + 1] \notin {".", "/"} /\ n + 1 \in 1..Len(p)
    BY <1>2, <1>4, <2>1
  <2>3. f[n + 1] = Append(f[n], p[n + 1])
    BY <1>1, <1>2, <2>1, <2>2, KeptStep
  <2>4. QED
    BY <2>2, <2>3, AppendSub
<1> HIDE DEF Q
<1>5. Len(p) \in Q
  BY <1>2, <1>3, <1>4, ByNat
<1>6. QED
  BY <1>1, <1>2, <1>5, SubSeqFull DEF Q

LEMMA CompressedLed ==
    ASSUME NEW C, NEW p \in Seq(C), p # <<>>, p[1] \in {".", "/"}, \A i \in 2..Len(p) : p[i] \notin {".", "/"}
    PROVE  Tr!Compressed(p) = Tail(p)
<1>1. PICK f : KeepsWhole(f, p) /\ Tr!Compressed(p) = f[Len(p)]
  BY CompressedIs
<1>2. Len(p) \in Nat /\ Len(p) >= 1
  OBVIOUS
<1> DEFINE Q == {n \in Nat : n \in 0..Len(p) => f[n] = SubSeq(p, 2, n)}
<1>3. 0 \in Q
  <2>1. f[0] = <<>> /\ SubSeq(p, 2, 0) = <<>>
    BY <1>1, <1>2, KeptStep, SubSeqEmpty
  <2>2. QED
    BY <2>1
<1>4. ASSUME NEW n \in Nat, n \in Q PROVE n + 1 \in Q
  <2>1. SUFFICES ASSUME n + 1 \in 0..Len(p) PROVE f[n + 1] = SubSeq(p, 2, n + 1)
    OBVIOUS
  <2>2. f[n] = SubSeq(p, 2, n) /\ n + 1 \in 1..Len(p)
    BY <1>2, <1>4, <2>1
  <2>3. f[n + 1] = IF p[n + 1] \in {".", "/"} THEN f[n] ELSE Append(f[n], p[n + 1])
    BY <1>1, <1>2, <2>1, KeptStep
  <2>4. CASE n = 0
    <3>1. f[n + 1] = f[n] /\ SubSeq(p, 2, 0) = <<>> /\ SubSeq(p, 2, 1) = <<>>
      BY <2>3, <2>4, SubSeqEmpty
    <3>2. QED
      BY <2>2, <2>4, <3>1
  <2>5. CASE n # 0
    <3>1. n + 1 \in 2..Len(p)
      BY <2>1, <2>5
    <3>2. f[n + 1] = Append(f[n], p[n + 1])
      BY <2>3, <3>1
    <3>3. QED
      BY <2>2, <3>1, <3>2, AppendSub
  <2>6. QED
    BY <2>4, <2>5
<1> HIDE DEF Q
<1>5. Len(p) \in Q
  BY <1>2, <1>3, <1>4, ByNat
<1>6. f[Len(p)] = SubSeq(p, 2, Len(p))
  BY <1>2, <1>5 DEF Q
<1>7. Tail(p) = SubSeq(p, 2, Len(p))
  BY TailIsSubSeq
<1>8. QED
  BY <1>1, <1>6, <1>7

LEMMA CompressedEnded ==
    ASSUME NEW C, NEW p \in Seq(C), \A i \in 1..Len(p) : p[i] \notin {".", "/"}, NEW c \in {".", "/"}
    PROVE  Tr!Compressed(Append(p, c)) = p
<1>1. PICK q : q = Append(p, c)
  OBVIOUS
<1>2. p \in Seq(C \cup {".", "/"}) /\ c \in C \cup {".", "/"}
  BY SeqMonotonic
<1>3. q \in Seq(C \cup {".", "/"}) /\ Len(q) = Len(p) + 1 /\ q[Len(p) + 1] = c /\ \A i \in 1..Len(p) : q[i] = p[i]
  BY <1>1, <1>2, AppendProperties
<1>4. PICK f : KeepsWhole(f, q) /\ Tr!Compressed(q) = f[Len(q)]
  BY <1>3, CompressedIs
<1>5. Len(p) \in Nat /\ Len(q) \in Nat
  BY <1>3
<1> DEFINE Q == {n \in Nat : n \in 0..Len(p) => f[n] = SubSeq(p, 1, n)}
<1>6. 0 \in Q
  <2>1. f[0] = <<>> /\ SubSeq(p, 1, 0) = <<>>
    BY <1>4, <1>5, KeptStep, SubSeqEmpty
  <2>2. QED
    BY <2>1
<1>7. ASSUME NEW n \in Nat, n \in Q PROVE n + 1 \in Q
  <2>1. SUFFICES ASSUME n + 1 \in 0..Len(p) PROVE f[n + 1] = SubSeq(p, 1, n + 1)
    OBVIOUS
  <2>2. f[n] = SubSeq(p, 1, n) /\ p[n + 1] \notin {".", "/"} /\ n + 1 \in 1..Len(p) /\ n + 1 \in 0..Len(q) /\ q[n + 1] = p[n + 1]
    BY <1>3, <1>5, <1>7, <2>1
  <2>3. f[n + 1] = Append(f[n], p[n + 1])
    <3>1. f[n + 1] = IF q[n + 1] \in {".", "/"} THEN f[n] ELSE Append(f[n], q[n + 1])
      BY <1>4, <1>5, <2>2, KeptStep
    <3>2. QED
      BY <2>2, <3>1
  <2>4. QED
    BY <2>2, <2>3, AppendSub
<1> HIDE DEF Q
<1>8. Len(p) \in Q
  BY <1>5, <1>6, <1>7, ByNat
<1>9. f[Len(p)] = p
  BY <1>5, <1>8, SubSeqFull DEF Q
<1>10. f[Len(p) + 1] = f[Len(p)]
  <2>1. Len(p) + 1 \in 0..Len(q)
    BY <1>3, <1>5
  <2>2. QED
    BY <1>3, <1>4, <1>5, <2>1, KeptStep
<1>11. QED
  BY <1>1, <1>3, <1>4, <1>9, <1>10

IsLen(f, p) == f = [n \in 0..Len(p) |-> IF n = 0 THEN 0 ELSE f[n - 1] + NameLengths[p[n]] + 1]

LEMMA DirLenTyped == ASSUME NEW p \in Seq(Tr!Comp) PROVE Tr!DirLen(p) \in Nat
<1>1. PICK n \in Nat : n = Len(p)
  OBVIOUS
<1>2. \A k \in 1..n : NameLengths[p[k]] \in Nat
  <2>1. NameLengths \in [Tr!Comp -> Nat]
    BY TreeWalkAssumption DEF Tr!TrAssumption, Tr!Comp
  <2>2. \A k \in 1..n : p[k] \in Tr!Comp
    BY <1>1, ElementOfSeq
  <2>3. QED
    BY <2>1, <2>2
<1> DEFINE G == [k \in 1..n |-> [v \in Nat |-> v + NameLengths[p[k]] + 1]]
<1>3. \A k \in 1..n : \A v \in Nat : G[k][v] = v + NameLengths[p[k]] + 1
  OBVIOUS
<1>4. \A k \in 1..n : \A v \in Nat : G[k][v] \in Nat
  BY <1>2, <1>3
<1> HIDE DEF G
<1>5. PICK f \in [0..n -> Nat] : f = [k \in 0..n |-> IF k = 0 THEN 0 ELSE G[k][f[k - 1]]]
  <2>1. StaysIn(Nat, n, G)
    BY <1>4 DEF StaysIn
  <2>2. \E f \in [0..n -> Nat] : Traces(f, 0, n, G)
    BY <1>1, <2>1, Stepwise
  <2>3. QED
    BY <2>2 DEF Traces
<1>6. IsLen(f, p)
  <2>1. ASSUME NEW k \in 0..n
        PROVE  (IF k = 0 THEN 0 ELSE G[k][f[k - 1]]) = (IF k = 0 THEN 0 ELSE f[k - 1] + NameLengths[p[k]] + 1)
    <3>1. SUFFICES ASSUME k # 0 PROVE G[k][f[k - 1]] = f[k - 1] + NameLengths[p[k]] + 1
      OBVIOUS
    <3>2. k \in 1..n /\ k - 1 \in 0..n
      BY <3>1
    <3>3. f[k - 1] \in Nat
      BY <1>5, <3>2
    <3>4. QED
      BY <1>3, <3>2, <3>3
  <2>2. [k \in 0..n |-> IF k = 0 THEN 0 ELSE G[k][f[k - 1]]] = [k \in 0..n |-> IF k = 0 THEN 0 ELSE f[k - 1] + NameLengths[p[k]] + 1]
    BY <2>1
  <2>3. QED
    BY <1>1, <1>5, <2>2 DEF IsLen
<1>7. PICK F : F = CHOOSE len : IsLen(len, p)
  OBVIOUS
<1>8. IsLen(F, p)
  BY <1>6, <1>7
<1>9. Tr!DirLen(p) = F[n]
  BY <1>1, <1>7 DEF Tr!DirLen, IsLen
<1> DEFINE Q == {k \in Nat : k \in 0..n => F[k] \in Nat}
<1>10. 0 \in Q
  <2>1. 0 \in 0..Len(p)
    BY <1>1
  <2>2. QED
    BY <1>8, <2>1 DEF IsLen
<1>11. ASSUME NEW k \in Nat, k \in Q PROVE k + 1 \in Q
  <2>1. SUFFICES ASSUME k + 1 \in 0..n PROVE F[k + 1] \in Nat
    OBVIOUS
  <2>2. k + 1 \in 0..Len(p) /\ k + 1 # 0 /\ (k + 1) - 1 = k /\ k + 1 \in 1..n
    BY <1>1, <2>1
  <2>3. F[k + 1] = F[k] + NameLengths[p[k + 1]] + 1
    BY <1>8, <2>2 DEF IsLen
  <2>4. F[k] \in Nat /\ NameLengths[p[k + 1]] \in Nat
    BY <1>2, <1>11, <2>2
  <2>5. QED
    BY <2>3, <2>4
<1> HIDE DEF Q
<1>12. n \in Q
  BY <1>10, <1>11, ByNat
<1>13. QED
  BY <1>9, <1>12 DEF Q

LEMMA PrefixIs ==
    ASSUME NEW S, NEW a \in Seq(S), NEW p \in Seq(S)
    PROVE  Tr!Within(a, p) <=> Len(a) <= Len(p) /\ \A i \in 1..Len(a) : a[i] = p[i]
<1>1. SubSeq(a, 1, Len(a)) = a
  BY SubSeqFull
<1>2. ASSUME Len(a) <= Len(p) PROVE SubSeq(p, 1, Len(a)) = a <=> \A i \in 1..Len(a) : a[i] = p[i]
  <2>1. \A i \in 1..Len(a) : p[i] \in S
    BY <1>2, ElementOfSeq
  <2>2. PICK b : b = SubSeq(p, 1, Len(a))
    OBVIOUS
  <2>3. Len(a) \in Nat
    OBVIOUS
  <2>4. b \in Seq(S) /\ Len(b) = (IF 1 <= Len(a) THEN Len(a) - 1 + 1 ELSE 0) /\ \A i \in 1..Len(a) - 1 + 1 : b[i] = p[1 + i - 1]
    BY <2>1, <2>2, <2>3, SubSeqProperties
  <2>5. Len(b) = Len(a) /\ \A i \in 1..Len(a) : b[i] = p[i]
    BY <2>3, <2>4
  <2>6. (\A i \in 1..Len(a) : a[i] = b[i]) => a = b
    BY <2>4, <2>5, SeqEqual
  <2>7. QED
    BY <2>2, <2>5, <2>6
<1>3. QED
  BY <1>1, <1>2 DEF Tr!Within

LEMMA AfterIs ==
    ASSUME NEW S, NEW a \in Seq(S), NEW r \in Seq(S)
    PROVE  /\ a \o r \in Seq(S) /\ Len(a \o r) = Len(a) + Len(r) /\ Tr!Within(a, a \o r)
           /\ SubSeq(a \o r, Len(a) + 1, Len(a \o r)) = r
<1>1. PICK p : p = a \o r
  OBVIOUS
<1>2. /\ p \in Seq(S) /\ Len(p) = Len(a) + Len(r)
      /\ \A i \in 1..Len(a) + Len(r) : p[i] = IF i <= Len(a) THEN a[i] ELSE r[i - Len(a)]
  BY <1>1, ConcatProperties
<1>3. Len(a) \in Nat /\ Len(r) \in Nat
  OBVIOUS
<1>4. Tr!Within(a, p)
  <2>1. Len(a) <= Len(p) /\ \A i \in 1..Len(a) : a[i] = p[i]
    BY <1>2, <1>3
  <2>2. QED
    BY <1>2, <2>1, PrefixIs
<1>5. SubSeq(p, Len(a) + 1, Len(p)) = r
  <2>1. PICK b : b = SubSeq(p, Len(a) + 1, Len(p))
    OBVIOUS
  <2>2. PICK m \in Int, n \in Int : m = Len(a) + 1 /\ n = Len(p)
    BY <1>2, <1>3
  <2>3. \A i \in m..n : p[i] \in S
    <3>1. \A i \in m..n : i \in 1..Len(p)
      BY <1>3, <2>2
    <3>2. QED
      BY <1>2, <3>1, ElementOfSeq
  <2>4. b \in Seq(S) /\ Len(b) = (IF m <= n THEN n - m + 1 ELSE 0) /\ \A i \in 1..n - m + 1 : b[i] = p[m + i - 1]
    BY <2>1, <2>2, <2>3, SubSeqProperties
  <2>5. Len(b) = Len(r) /\ n - m + 1 = Len(r)
    BY <1>2, <1>3, <2>2, <2>4
  <2>6. \A i \in 1..Len(b) : b[i] = r[i]
    <3>1. TAKE i \in 1..Len(b)
    <3>2. m + i - 1 = Len(a) + i /\ Len(a) + i \in 1..Len(a) + Len(r) /\ ~(Len(a) + i <= Len(a)) /\ (Len(a) + i) - Len(a) = i
      BY <1>3, <2>2, <2>5
    <3>3. b[i] = p[Len(a) + i]
      BY <2>4, <2>5, <3>2
    <3>4. p[Len(a) + i] = r[i]
      BY <1>2, <3>2
    <3>5. QED
      BY <3>3, <3>4
  <2>7. QED
    BY <2>1, <2>4, <2>5, <2>6, SeqEqual
<1>6. QED
  BY <1>1, <1>2, <1>4, <1>5

LEMMA RestAfter ==
    ASSUME NEW S, NEW a \in Seq(S), NEW p \in Seq(S), Tr!Within(a, p)
    PROVE  /\ Len(a) <= Len(p) /\ SubSeq(p, Len(a) + 1, Len(p)) \in Seq(S)
           /\ Len(SubSeq(p, Len(a) + 1, Len(p))) = Len(p) - Len(a)
           /\ p = a \o SubSeq(p, Len(a) + 1, Len(p))
<1>1. Len(a) <= Len(p) /\ \A i \in 1..Len(a) : a[i] = p[i]
  BY PrefixIs
<1>2. PICK b : b = SubSeq(p, Len(a) + 1, Len(p))
  OBVIOUS
<1>3. PICK m \in Nat, n \in Nat : m = Len(a) /\ n = Len(p)
  OBVIOUS
<1>4. \A i \in m + 1..n : p[i] \in S
  <2>1. \A i \in m + 1..n : i \in 1..Len(p)
    BY <1>3
  <2>2. QED
    BY <2>1, ElementOfSeq
<1>5. m + 1 \in Int /\ n \in Int
  BY <1>3
<1>6. /\ b \in Seq(S) /\ Len(b) = (IF m + 1 <= n THEN n - (m + 1) + 1 ELSE 0)
      /\ \A i \in 1..n - (m + 1) + 1 : b[i] = p[(m + 1) + i - 1]
  <2>1. b = SubSeq(p, m + 1, n)
    BY <1>2, <1>3
  <2>2. QED
    BY <1>4, <1>5, <2>1, SubSeqProperties
<1>7. Len(b) = n - m /\ \A i \in 1..n - m : b[i] = p[m + i]
  <2>1. m <= n /\ Len(b) = n - m /\ n - (m + 1) + 1 = n - m
    BY <1>1, <1>3, <1>6
  <2>2. ASSUME NEW i \in 1..n - m PROVE b[i] = p[m + i]
    <3>1. (m + 1) + i - 1 = m + i
      BY <1>3
    <3>2. QED
      BY <1>6, <2>1, <3>1
  <2>3. QED
    BY <2>1, <2>2
<1>8. PICK c : c = a \o b
  OBVIOUS
<1>9. c \in Seq(S) /\ Len(c) = Len(a) + Len(b) /\ \A i \in 1..Len(a) + Len(b) : c[i] = IF i <= Len(a) THEN a[i] ELSE b[i - Len(a)]
  BY <1>6, <1>8, ConcatProperties
<1>10. \A i \in 1..Len(p) : p[i] = c[i]
  <2>1. TAKE i \in 1..Len(p)
  <2>2. i \in 1..Len(a) + Len(b)
    BY <1>1, <1>3, <1>7
  <2>3. CASE i <= m
    BY <1>1, <1>3, <1>9, <2>2, <2>3
  <2>4. CASE ~(i <= m)
    <3>1. i - m \in 1..n - m /\ m + (i - m) = i
      BY <1>3, <2>4
    <3>2. b[i - m] = p[i]
      BY <1>7, <3>1
    <3>3. QED
      BY <1>3, <1>9, <2>2, <2>4, <3>2
  <2>5. QED
    BY <2>3, <2>4
<1>11. p = c
  <2>1. Len(p) = Len(c)
    BY <1>3, <1>7, <1>9
  <2>2. QED
    BY <1>9, <1>10, <2>1, SeqEqual
<1>12. QED
  BY <1>1, <1>2, <1>3, <1>6, <1>7, <1>8, <1>11

LEMMA GrownIs ==
    ASSUME NEW S, NEW a \in Seq(S), NEW n \in S
    PROVE  /\ Append(a, n) \in Seq(S) /\ Append(a, n) # <<>> /\ Len(Append(a, n)) = Len(a) + 1
           /\ Tr!Parent(Append(a, n)) = a /\ Tr!Name(Append(a, n)) = n /\ Tr!Within(a, Append(a, n))
           /\ Append(a, n) = a \o <<n>>
<1>1. PICK p : p = Append(a, n)
  OBVIOUS
<1>2. p \in Seq(S) /\ p # <<>> /\ Len(p) = Len(a) + 1 /\ p[Len(a) + 1] = n /\ \A i \in 1..Len(a) : p[i] = a[i]
  BY <1>1, AppendProperties
<1>3. Len(a) \in Nat
  OBVIOUS
<1>4. Tr!Within(a, p)
  BY <1>2, <1>3, PrefixIs
<1>5. Tr!Name(p) = n
  BY <1>2 DEF Tr!Name
<1>6. Tr!Parent(p) = a
  <2>1. SubSeq(p, 1, Len(a)) = SubSeq(a, 1, Len(a)) /\ Len(p) - 1 = Len(a)
    BY <1>2, <1>3, <1>4 DEF Tr!Within
  <2>2. QED
    BY <2>1, SubSeqFull DEF Tr!Parent
<1>7. QED
  BY <1>1, <1>2, <1>4, <1>5, <1>6, AppendIsConcat

LEMMA ShrunkIs ==
    ASSUME NEW S, NEW p \in Seq(S), p # <<>>
    PROVE  Tr!Parent(p) \in Seq(S) /\ Tr!Name(p) \in S /\ p = Append(Tr!Parent(p), Tr!Name(p)) /\ Len(Tr!Parent(p)) = Len(p) - 1
<1>1. PICK s \in Seq(S), n \in S : p = Append(s, n)
  BY SequenceEmptyOrAppend
<1>2. Tr!Parent(p) = s /\ Tr!Name(p) = n /\ Len(p) = Len(s) + 1
  BY <1>1, GrownIs
<1>3. QED
  BY <1>1, <1>2

LEMMA PrefixCases ==
    ASSUME NEW S, NEW a \in Seq(S), NEW p \in Seq(S), Tr!Within(a, p)
    PROVE  \/ a = p
           \/ /\ Len(a) < Len(p) /\ p[Len(a) + 1] \in S
              /\ Tr!Within(Append(a, p[Len(a) + 1]), p) /\ SubSeq(p, 1, Len(a)) = a
<1>1. Len(a) <= Len(p) /\ \A i \in 1..Len(a) : a[i] = p[i]
  BY PrefixIs
<1>2. CASE Len(a) = Len(p)
  BY <1>1, <1>2, SeqEqual
<1>3. CASE Len(a) # Len(p)
  <2>1. PICK m \in Nat, n \in Nat : m = Len(a) /\ n = Len(p)
    OBVIOUS
  <2>2. m < n /\ m + 1 \in 1..n
    BY <1>1, <1>3, <2>1
  <2>3. p[m + 1] \in S
    BY <2>1, <2>2, ElementOfSeq
  <2>4. PICK b : b = Append(a, p[m + 1])
    OBVIOUS
  <2>5. b \in Seq(S) /\ Len(b) = m + 1 /\ b[m + 1] = p[m + 1] /\ \A i \in 1..m : b[i] = a[i]
    BY <2>1, <2>3, <2>4, AppendProperties
  <2>6. Tr!Within(b, p)
    <3>1. Len(b) <= Len(p) /\ \A i \in 1..Len(b) : b[i] = p[i]
      BY <1>1, <2>1, <2>2, <2>5
    <3>2. QED
      BY <2>5, <3>1, PrefixIs
  <2>7. SubSeq(p, 1, Len(a)) = a
    BY SubSeqFull DEF Tr!Within
  <2>8. QED
    BY <2>1, <2>2, <2>3, <2>4, <2>6, <2>7
<1>4. QED
  BY <1>2, <1>3

LEMMA FirstAmong ==
    ASSUME NEW S, NEW p \in Seq(S), NEW n \in 0..Len(p)
    PROVE  SubSeq(p, 1, n) \in Seq(S) /\ Len(SubSeq(p, 1, n)) = n /\ Tr!Within(SubSeq(p, 1, n), p)
<1>1. PICK b : b = SubSeq(p, 1, n)
  OBVIOUS
<1>2. \A i \in 1..n : p[i] \in S
  BY ElementOfSeq
<1>3. b \in Seq(S) /\ Len(b) = (IF 1 <= n THEN n - 1 + 1 ELSE 0) /\ \A i \in 1..n - 1 + 1 : b[i] = p[1 + i - 1]
  BY <1>1, <1>2, SubSeqProperties
<1>4. Len(b) = n /\ \A i \in 1..n : b[i] = p[i]
  BY <1>3
<1>5. Tr!Within(b, p)
  BY <1>3, <1>4, PrefixIs
<1>6. QED
  BY <1>1, <1>3, <1>4, <1>5
-----------------------------------------------------------------------------
(***************************************************************************)
(* The task and its tree.                                                  *)
(***************************************************************************)
LEMMA CompIs == /\ Tr!Names \subseteq Tr!Comp /\ {"/", ".", "cut", "none"} \subseteq Tr!Comp
                /\ \A n \in Tr!Names : n \notin {".", "/"} /\ n # "none"
                /\ SourceDir \in Seq(Tr!Names) /\ TargetDir \in Seq(Tr!Names)
  BY TreeWalkAssumption DEF Tr!TrAssumption, Tr!Names, Tr!Comp

LEMMA NamesAreComp == ASSUME NEW p \in Seq(Tr!Names) PROVE p \in Seq(Tr!Comp)
  BY CompIs, SeqMonotonic

LEMMA NamesPlain == ASSUME NEW p \in Seq(Tr!Names) PROVE Tr!Compressed(p) = p
<1>1. \A i \in 1..Len(p) : p[i] \notin {".", "/"}
  BY CompIs, ElementOfSeq
<1>2. QED
  BY <1>1, CompressedPlain

LEMMA JoinedNames == ASSUME NEW p \in Seq(Tr!Names), NEW q \in Seq(Tr!Names) PROVE p \o q \in Seq(Tr!Names)
  BY ConcatProperties

LEMMA TaskIs ==
    ASSUME Tr!Sane
    PROVE  /\ v3.item \in Seq(Tr!Comp) /\ v3.item # <<>>
           /\ \/ v3.item = <<".">>
              \/ Head(v3.item) = "/" /\ Tail(v3.item) \in Seq(Tr!Names)
              \/ v3.item \in Seq(Tr!Names) /\ Head(v3.item) \in Tr!Names
           /\ v3.op \in {"get", "put", "bgget", "bgput", "bgfile"} /\ v3.lists \in {"kinds", "names"}
<1>1. v3.item \in TreeItems /\ v3.op \in TreeOps /\ v3.lists \in {"kinds", "names"}
  BY DEF Tr!Sane
<1>2. v3.op \in {"get", "put", "bgget", "bgput", "bgfile"}
  BY <1>1, TreeWalkAssumption DEF Tr!TrAssumption
<1>3. PICK i : i = v3.item
  OBVIOUS
<1>4. \/ i = <<".">>
      \/ i # <<>> /\ i \in Seq(Tr!Names \cup {"/"}) /\ Tail(i) \in Seq(Tr!Names)
  BY <1>1, <1>3, TreeWalkAssumption DEF Tr!TrAssumption
<1>5. CASE i = <<".">>
  <2>1. "." \in Tr!Comp
    BY CompIs
  <2>2. i \in Seq(Tr!Comp) /\ i # <<>>
    BY <1>5, <2>1
  <2>3. QED
    BY <1>1, <1>2, <1>3, <1>5, <2>2
<1>6. CASE i # <<>> /\ i \in Seq(Tr!Names \cup {"/"}) /\ Tail(i) \in Seq(Tr!Names)
  <2>1. Tr!Names \cup {"/"} \subseteq Tr!Comp
    BY CompIs
  <2>2. i \in Seq(Tr!Comp)
    BY <1>6, <2>1, SeqMonotonic
  <2>3. Head(i) \in Tr!Names \cup {"/"}
    BY <1>6, HeadTailProperties
  <2>4. Len(i) \in Nat /\ Len(i) >= 1 /\ Head(i) = i[1]
    BY <1>6
  <2>5. CASE Head(i) \in Tr!Names
    <3>1. \A k \in 1..Len(i) : i[k] \in Tr!Names
      <4>1. TAKE k \in 1..Len(i)
      <4>2. CASE k = 1
        BY <2>4, <2>5, <4>2
      <4>3. CASE k # 1
        <5>1. Len(Tail(i)) = Len(i) - 1 /\ \A j \in 1..Len(Tail(i)) : Tail(i)[j] = i[j + 1]
          BY <1>6, HeadTailProperties
        <5>2. k - 1 \in 1..Len(Tail(i)) /\ (k - 1) + 1 = k
          BY <2>4, <4>3, <5>1
        <5>3. Tail(i)[k - 1] \in Tr!Names
          BY <1>6, <5>2, ElementOfSeq
        <5>4. QED
          BY <5>1, <5>2, <5>3
      <4>4. QED
        BY <4>2, <4>3
    <3>2. i \in Seq(Tr!Names)
      <4>1. i = [k \in 1..Len(i) |-> i[k]]
        BY <1>6
      <4>2. QED
        BY <2>4, <3>1, <4>1
    <3>3. QED
      BY <1>1, <1>2, <1>3, <1>6, <2>2, <2>5, <3>2
  <2>6. CASE Head(i) = "/"
    BY <1>1, <1>2, <1>3, <1>6, <2>2, <2>6
  <2>7. QED
    BY <2>3, <2>5, <2>6
<1>7. QED
  BY <1>4, <1>5, <1>6

LEMMA HeadFirst == ASSUME NEW S, NEW s \in Seq(S), s # <<>> PROVE Head(s) = s[1] /\ Head(s) \in S /\ Len(s) \in Nat /\ Len(s) >= 1
  OBVIOUS

\* A marker before names goes, and nothing else.
LEMMA MarkDropped ==
    ASSUME NEW m \in {".", "/"}, NEW p \in Seq(Tr!Comp), p # <<>>, Head(p) = m, Tail(p) \in Seq(Tr!Names)
    PROVE  Tr!Compressed(p) = Tail(p)
<1>1. p[1] \in {".", "/"}
  BY HeadFirst
<1>2. ASSUME NEW i \in 2..Len(p) PROVE p[i] \notin {".", "/"}
  <2>1. Len(Tail(p)) = Len(p) - 1 /\ \A j \in 1..Len(Tail(p)) : Tail(p)[j] = p[j + 1]
    BY HeadTailProperties
  <2>2. i - 1 \in 1..Len(Tail(p)) /\ (i - 1) + 1 = i
    BY <2>1
  <2>3. Tail(p)[i - 1] \in Tr!Names
    BY <2>2, ElementOfSeq
  <2>4. p[i] \in Tr!Names
    BY <2>1, <2>2, <2>3
  <2>5. QED
    BY <2>4, CompIs
<1>3. QED
  BY <1>1, <1>2, CompressedLed

LEMMA HeadJoined ==
    ASSUME NEW S, NEW a \in Seq(S), a # <<>>, NEW r \in Seq(S)
    PROVE  a \o r # <<>> /\ Head(a \o r) = Head(a) /\ Tail(a \o r) = Tail(a) \o r
<1>1. PICK p : p = a \o r
  OBVIOUS
<1>2. Len(a) \in Nat /\ Len(a) >= 1 /\ Len(r) \in Nat
  BY HeadFirst
<1>3. p \in Seq(S) /\ Len(p) = Len(a) + Len(r) /\ \A i \in 1..Len(a) + Len(r) : p[i] = IF i <= Len(a) THEN a[i] ELSE r[i - Len(a)]
  BY <1>1, ConcatProperties
<1>4. p # <<>>
  BY <1>2, <1>3
<1>5. Head(p) = Head(a)
  <2>1. p[1] = a[1]
    BY <1>2, <1>3
  <2>2. QED
    BY <1>3, <1>4, <2>1, HeadFirst
<1>6. PICK t : t = Tail(p)
  OBVIOUS
<1>7. t \in Seq(S) /\ Len(t) = Len(p) - 1 /\ \A i \in 1..Len(t) : t[i] = p[i + 1]
  BY <1>3, <1>4, <1>6, HeadTailProperties
<1>8. PICK b : b = Tail(a)
  OBVIOUS
<1>9. b \in Seq(S) /\ Len(b) = Len(a) - 1 /\ \A i \in 1..Len(b) : b[i] = a[i + 1]
  BY <1>8, HeadTailProperties
<1>10. PICK u : u = b \o r
  OBVIOUS
<1>11. u \in Seq(S) /\ Len(u) = Len(b) + Len(r) /\ \A i \in 1..Len(b) + Len(r) : u[i] = IF i <= Len(b) THEN b[i] ELSE r[i - Len(b)]
  BY <1>9, <1>10, ConcatProperties
<1>12. Len(t) = Len(u)
  BY <1>2, <1>3, <1>7, <1>9, <1>11
<1>13. ASSUME NEW i \in 1..Len(t) PROVE t[i] = u[i]
  <2>1. i \in Nat /\ i + 1 \in 1..Len(a) + Len(r) /\ i \in 1..Len(b) + Len(r)
    BY <1>2, <1>3, <1>7, <1>9
  <2>2. t[i] = IF i + 1 <= Len(a) THEN a[i + 1] ELSE r[(i + 1) - Len(a)]
    BY <1>3, <1>7, <2>1
  <2>3. u[i] = IF i <= Len(b) THEN b[i] ELSE r[i - Len(b)]
    BY <1>11, <2>1
  <2>4. (i + 1 <= Len(a) <=> i <= Len(b)) /\ (i + 1) - Len(a) = i - Len(b)
    BY <1>2, <1>9, <2>1
  <2>5. CASE i <= Len(b)
    <3>1. b[i] = a[i + 1]
      BY <1>2, <1>9, <2>1, <2>5
    <3>2. QED
      BY <2>2, <2>3, <2>4, <2>5, <3>1
  <2>6. CASE ~(i <= Len(b))
    BY <2>2, <2>3, <2>4, <2>6
  <2>7. QED
    BY <2>5, <2>6
<1>14. t = u
  BY <1>7, <1>11, <1>12, <1>13, SeqEqual
<1>15. QED
  BY <1>1, <1>4, <1>5, <1>6, <1>8, <1>10, <1>14

LEMMA MarkAlone == ASSUME NEW c \in {".", "/"} PROVE c \in Tr!Comp /\ <<c>> \in Seq(Tr!Comp) /\ Tr!Compressed(<<c>>) = <<>>
<1>1. c \in Tr!Comp
  BY CompIs
<1>2. <<c>> \in Seq(Tr!Comp) /\ <<c>> # <<>> /\ Head(<<c>>) = c /\ Tail(<<c>>) = <<>>
  BY <1>1
<1>3. <<>> \in Seq(Tr!Names)
  OBVIOUS
<1>4. QED
  BY <1>1, <1>2, <1>3, MarkDropped

LEMMA NameAlone == ASSUME NEW n \in Tr!Names PROVE <<n>> \in Seq(Tr!Names) /\ Tr!Compressed(<<n>>) = <<n>>
<1>1. <<n>> \in Seq(Tr!Names)
  OBVIOUS
<1>2. QED
  BY <1>1, NamesPlain

LEMMA ItemNames ==
    ASSUME Tr!Sane
    PROVE  /\ Tr!Compressed(v3.item) \in Seq(Tr!Names)
           /\ Tr!Compressed(v3.item) = IF Head(v3.item) \in {".", "/"} THEN Tail(v3.item) ELSE v3.item
           /\ \A r \in Seq(Tr!Names) : /\ v3.item \o r \in Seq(Tr!Comp) /\ v3.item \o r # <<>>
                                       /\ Head(v3.item \o r) = Head(v3.item)
                                       /\ Tail(v3.item \o r) = Tail(v3.item) \o r
                                       /\ Tr!Compressed(v3.item \o r) = Tr!Compressed(v3.item) \o r
<1>1. PICK i : i = v3.item
  OBVIOUS
<1>2. /\ i \in Seq(Tr!Comp) /\ i # <<>>
      /\ \/ i = <<".">>
         \/ Head(i) = "/" /\ Tail(i) \in Seq(Tr!Names)
         \/ i \in Seq(Tr!Names) /\ Head(i) \in Tr!Names
  BY <1>1, TaskIs
<1>3. CASE i \in Seq(Tr!Names) /\ Head(i) \in Tr!Names
  <2>1. Tr!Compressed(i) = i /\ Head(i) \notin {".", "/"}
    BY <1>3, NamesPlain, CompIs
  <2>2. ASSUME NEW r \in Seq(Tr!Names)
        PROVE  /\ i \o r \in Seq(Tr!Comp) /\ i \o r # <<>> /\ Head(i \o r) = Head(i) /\ Tail(i \o r) = Tail(i) \o r
               /\ Tr!Compressed(i \o r) = Tr!Compressed(i) \o r
    <3>1. i \o r \in Seq(Tr!Names)
      BY <1>3, JoinedNames
    <3>2. i \o r \in Seq(Tr!Comp) /\ Tr!Compressed(i \o r) = i \o r
      BY <3>1, NamesAreComp, NamesPlain
    <3>3. QED
      BY <1>2, <1>3, <2>1, <3>2, HeadJoined
  <2>3. QED
    BY <1>1, <1>3, <2>1, <2>2
<1>4. CASE Head(i) \in {".", "/"} /\ Tail(i) \in Seq(Tr!Names)
  <2>1. Tr!Compressed(i) = Tail(i)
    BY <1>2, <1>4, MarkDropped
  <2>2. ASSUME NEW r \in Seq(Tr!Names)
        PROVE  /\ i \o r \in Seq(Tr!Comp) /\ i \o r # <<>> /\ Head(i \o r) = Head(i) /\ Tail(i \o r) = Tail(i) \o r
               /\ Tr!Compressed(i \o r) = Tr!Compressed(i) \o r
    <3>1. r \in Seq(Tr!Comp)
      BY NamesAreComp
    <3>2. i \o r \in Seq(Tr!Comp)
      BY <1>2, <3>1, ConcatProperties
    <3>3. i \o r # <<>> /\ Head(i \o r) = Head(i) /\ Tail(i \o r) = Tail(i) \o r
      BY <1>2, <3>1, HeadJoined
    <3>4. Tail(i \o r) \in Seq(Tr!Names)
      BY <1>4, <3>3, JoinedNames
    <3>5. Tr!Compressed(i \o r) = Tail(i \o r)
      BY <1>4, <3>2, <3>3, <3>4, MarkDropped
    <3>6. QED
      BY <2>1, <3>2, <3>3, <3>5
  <2>3. QED
    BY <1>1, <1>4, <2>1, <2>2
<1>5. CASE i = <<".">>
  <2>1. Head(i) = "." /\ Tail(i) = <<>> /\ <<>> \in Seq(Tr!Names)
    BY <1>5
  <2>2. QED
    BY <1>4, <2>1
<1>6. QED
  BY <1>2, <1>3, <1>4, <1>5

LEMMA TopIs ==
    ASSUME Tr!Sane
    PROVE  /\ Tr!Top \in Seq(Tr!Names)
           /\ Tr!Top = IF Head(v3.item) = "/" THEN Tr!Compressed(v3.item) ELSE SourceDir \o Tr!Compressed(v3.item)
           /\ \A r \in Seq(Tr!Names) : Tr!From(SourceDir, v3.item \o r) = Tr!Top \o r
<1>1. PICK m : m = Tr!Compressed(v3.item)
  OBVIOUS
<1>2. m \in Seq(Tr!Names) /\ SourceDir \in Seq(Tr!Names)
  BY <1>1, ItemNames, CompIs
<1>3. v3.item # <<>>
  BY TaskIs
<1>4. Tr!Top = IF Head(v3.item) = "/" THEN m ELSE SourceDir \o m
  BY <1>1, <1>3 DEF Tr!Top, Tr!From
<1>5. Tr!Top \in Seq(Tr!Names)
  BY <1>2, <1>4, JoinedNames
<1>6. ASSUME NEW r \in Seq(Tr!Names) PROVE Tr!From(SourceDir, v3.item \o r) = Tr!Top \o r
  <2>1. v3.item \o r # <<>> /\ Head(v3.item \o r) = Head(v3.item) /\ Tr!Compressed(v3.item \o r) = m \o r
    BY <1>1, ItemNames
  <2>2. Tr!From(SourceDir, v3.item \o r) = IF Head(v3.item) = "/" THEN m \o r ELSE SourceDir \o (m \o r)
    BY <2>1 DEF Tr!From
  <2>3. SourceDir \o (m \o r) = (SourceDir \o m) \o r
    BY <1>2, ConcatAssociative
  <2>4. QED
    BY <1>4, <2>2, <2>3
<1>7. QED
  BY <1>1, <1>4, <1>5, <1>6

LEMMA FromNames ==
    ASSUME NEW d \in Seq(Tr!Names), NEW r \in Seq(Tr!Names)
    PROVE  Tr!From(d, r) = d \o r /\ Tr!From(d, <<".">> \o r) = d \o r
<1>1. r # <<>> => Head(r) \in Tr!Names
  BY HeadFirst
<1>2. Tr!From(d, r) = d \o r
  BY <1>1, CompIs, NamesPlain DEF Tr!From
<1>3. PICK p : p = <<".">> \o r
  OBVIOUS
<1>4. r \in Seq(Tr!Comp) /\ <<".">> \in Seq(Tr!Comp)
  BY NamesAreComp, MarkAlone
<1>5. p \in Seq(Tr!Comp)
  BY <1>3, <1>4, ConcatProperties
<1>6. p # <<>> /\ Head(p) = "." /\ Tail(p) = <<>> \o r
  <2>1. <<".">> # <<>> /\ Head(<<".">>) = "." /\ Tail(<<".">>) = <<>>
    OBVIOUS
  <2>2. QED
    BY <1>3, <1>4, <2>1, HeadJoined
<1>7. Tail(p) = r
  BY <1>6, ConcatEmptySeq
<1>8. Tr!Compressed(p) = r
  BY <1>5, <1>6, <1>7, MarkDropped
<1>9. Tr!From(d, p) = d \o r
  BY <1>6, <1>8 DEF Tr!From
<1>10. QED
  BY <1>2, <1>3, <1>9

\* A put and the jobs name by the argument's last component.
LEMMA BaseIs ==
    ASSUME Tr!Sane
    PROVE  /\ Tr!Base \in Seq(Tr!Names) /\ Len(Tr!Base) <= 1
           /\ v3.item \in {<<".">>, <<"/">>} => Tr!Base = <<>> /\ Tr!Compressed(v3.item) = <<>>
           /\ v3.item \notin {<<".">>, <<"/">>} => Tr!Name(v3.item) \in Tr!Names /\ Tr!Base = <<Tr!Name(v3.item)>>
<1>1. PICK i : i = v3.item
  OBVIOUS
<1>2. /\ i \in Seq(Tr!Comp) /\ i # <<>>
      /\ \/ i = <<".">>
         \/ Head(i) = "/" /\ Tail(i) \in Seq(Tr!Names)
         \/ i \in Seq(Tr!Names) /\ Head(i) \in Tr!Names
  BY <1>1, TaskIs
<1>3. CASE i \in {<<".">>, <<"/">>}
  <2>1. PICK c \in {".", "/"} : i = <<c>>
    BY <1>3
  <2>2. Tr!Name(i) = c
    BY <2>1 DEF Tr!Name
  <2>3. Tr!Base = <<>> /\ Tr!Compressed(i) = <<>>
    BY <1>1, <2>1, <2>2, MarkAlone DEF Tr!Base
  <2>4. <<>> \in Seq(Tr!Names) /\ Len(<<>>) = 0
    OBVIOUS
  <2>5. QED
    BY <1>1, <1>3, <2>3, <2>4
<1>4. CASE i \notin {<<".">>, <<"/">>}
  <2>1. Tr!Name(i) \in Tr!Names
    <3>1. CASE i \in Seq(Tr!Names)
      BY <1>2, <3>1, ShrunkIs
    <3>2. CASE Head(i) = "/" /\ Tail(i) \in Seq(Tr!Names)
      <4>1. PICK t : t = Tail(i)
        OBVIOUS
      <4>2. Len(t) = Len(i) - 1 /\ (\A j \in 1..Len(t) : t[j] = i[j + 1]) /\ t \in Seq(Tr!Names)
        BY <1>2, <3>2, <4>1, HeadTailProperties
      <4>3. Len(i) \in Nat /\ Len(i) >= 1 /\ i[1] = "/"
        BY <1>2, <3>2, HeadFirst
      <4>4. Len(i) # 1
        <5>1. SUFFICES ASSUME Len(i) = 1 PROVE FALSE
          OBVIOUS
        <5>2. i = <<"/">>
          <6>1. <<"/">> \in Seq(Tr!Comp) /\ Len(<<"/">>) = 1 /\ <<"/">>[1] = "/"
            BY MarkAlone
          <6>2. \A k \in 1..Len(i) : i[k] = <<"/">>[k]
            BY <4>3, <5>1, <6>1
          <6>3. QED
            BY <1>2, <5>1, <6>1, <6>2, SeqEqual
        <5>3. QED
          BY <1>4, <5>2
      <4>5. Len(i) - 1 \in 1..Len(t) /\ (Len(i) - 1) + 1 = Len(i)
        BY <4>2, <4>3, <4>4
      <4>6. t[Len(i) - 1] \in Tr!Names /\ t[Len(i) - 1] = i[Len(i)]
        BY <4>2, <4>5, ElementOfSeq
      <4>7. QED
        BY <4>6 DEF Tr!Name
    <3>3. QED
      BY <1>2, <1>4, <3>1, <3>2
  <2>2. Tr!Base = <<Tr!Name(i)>> /\ <<Tr!Name(i)>> \in Seq(Tr!Names)
    BY <1>1, <2>1, NameAlone DEF Tr!Base
  <2>3. Len(<<Tr!Name(i)>>) = 1
    OBVIOUS
  <2>4. QED
    BY <1>1, <1>4, <2>1, <2>2, <2>3
<1>5. QED
  BY <1>3, <1>4

\* From the argument's last component on.
LEMMA FromLast ==
    ASSUME NEW i \in Seq(Tr!Comp), i # <<>>, NEW r \in Seq(Tr!Names)
    PROVE  SubSeq(i \o r, Len(i), Len(i \o r)) = <<Tr!Name(i)>> \o r
<1>1. r \in Seq(Tr!Comp)
  BY NamesAreComp
<1>2. PICK a : a = Tr!Parent(i)
  OBVIOUS
<1>3. PICK n : n = Tr!Name(i)
  OBVIOUS
<1>4. a \in Seq(Tr!Comp) /\ n \in Tr!Comp /\ i = Append(a, n) /\ Len(a) = Len(i) - 1
  BY <1>2, <1>3, ShrunkIs
<1>5. <<n>> \in Seq(Tr!Comp)
  BY <1>4
<1>6. i = a \o <<n>>
  BY <1>4, GrownIs
<1>7. i \o r = a \o (<<n>> \o r)
  BY <1>1, <1>4, <1>5, <1>6, ConcatAssociative
<1>8. <<n>> \o r \in Seq(Tr!Comp)
  BY <1>1, <1>5, ConcatProperties
<1>9. SubSeq(a \o (<<n>> \o r), Len(a) + 1, Len(a \o (<<n>> \o r))) = <<n>> \o r
  BY <1>4, <1>8, AfterIs
<1>10. Len(a) + 1 = Len(i)
  <2>1. Len(i) \in Nat
    OBVIOUS
  <2>2. QED
    BY <1>4, <2>1
<1>11. QED
  BY <1>3, <1>7, <1>9, <1>10

LEMMA WorldIs ==
    ASSUME Tr!Sane
    PROVE  /\ DOMAIN v1 \subseteq Seq(Tr!Names) /\ SourceDir \in DOMAIN v1 /\ v1[SourceDir] \in {"d", "u"}
           /\ \A p \in DOMAIN v1 : v1[p] \in {"d", "u", "-", "l", "?"}
           /\ \A p \in DOMAIN v1 : \A n \in 0..(Len(p) - 1) : SubSeq(p, 1, n) \in DOMAIN v1 /\ v1[SubSeq(p, 1, n)] \in {"d", "u"}
<1>1. Tr!IsTree(v1)
  BY TreeWalkAssumption DEF Tr!TrAssumption, Tr!Sane
<1>2. QED
  BY <1>1 DEF Tr!IsTree

LEMMA BelowIs ==
    ASSUME Tr!Sane, NEW p \in Tr!Below
    PROVE  /\ p \in DOMAIN v1 /\ p \in Seq(Tr!Names) /\ Tr!Within(Tr!Top, p) /\ Len(Tr!Top) <= Len(p)
           /\ Tr!Rel(p) \in Seq(Tr!Names) /\ Len(Tr!Rel(p)) = Len(p) - Len(Tr!Top) /\ p = Tr!Top \o Tr!Rel(p)
           /\ Tr!Rel(p) = <<>> <=> p = Tr!Top
<1>1. p \in DOMAIN v1 /\ Tr!Within(Tr!Top, p)
  BY DEF Tr!Below
<1>2. p \in Seq(Tr!Names) /\ Tr!Top \in Seq(Tr!Names)
  BY <1>1, WorldIs, TopIs
<1>3. Len(Tr!Top) <= Len(p) /\ Tr!Rel(p) \in Seq(Tr!Names) /\ Len(Tr!Rel(p)) = Len(p) - Len(Tr!Top) /\ p = Tr!Top \o Tr!Rel(p)
  BY <1>1, <1>2, RestAfter DEF Tr!Rel
<1>4. Tr!Rel(p) = <<>> <=> p = Tr!Top
  <2>1. PICK r \in Seq(Tr!Names) : r = Tr!Rel(p)
    BY <1>3
  <2>2. Tr!Top \o r = Tr!Top <=> r = <<>>
    BY <1>2, ConcatEqualIffEmpty
  <2>3. QED
    BY <1>3, <2>1, <2>2
<1>5. QED
  BY <1>1, <1>2, <1>3, <1>4

LEMMA TopBelow ==
    ASSUME Tr!Sane, Tr!ItemKind # "none"
    PROVE  Tr!Top \in Tr!Below /\ Tr!Rel(Tr!Top) = <<>> /\ v1[Tr!Top] = Tr!ItemKind
<1>1. Tr!Top \in DOMAIN v1 /\ v1[Tr!Top] = Tr!ItemKind
  BY DEF Tr!ItemKind, Tr!KindOf, Tr!Top
<1>2. Tr!Top \in Seq(Tr!Names) /\ Len(Tr!Top) \in Nat
  BY TopIs
<1>3. Tr!Within(Tr!Top, Tr!Top)
  BY <1>2, PrefixIs
<1>4. \A n \in Len(Tr!Top)..(Len(Tr!Top) - 1) : v1[SubSeq(Tr!Top, 1, n)] = "d"
  BY <1>2
<1>5. Tr!Top \in Tr!Below
  BY <1>1, <1>3, <1>4 DEF Tr!Below
<1>6. QED
  BY <1>1, <1>5, BelowIs

LEMMA InDir ==
    ASSUME Tr!Sane, NEW d \in Seq(Tr!Names), NEW n \in Tr!NamesIn(v1, d)
    PROVE  n \in Tr!Names /\ Append(d, n) \in DOMAIN v1
<1>1. PICK q \in DOMAIN v1 : q # <<>> /\ Tr!Parent(q) = d /\ n = Tr!Name(q)
  BY DEF Tr!NamesIn
<1>2. q \in Seq(Tr!Names)
  BY <1>1, WorldIs
<1>3. Tr!Name(q) \in Tr!Names /\ q = Append(Tr!Parent(q), Tr!Name(q))
  BY <1>1, <1>2, ShrunkIs
<1>4. QED
  BY <1>1, <1>3

LEMMA IsInDir ==
    ASSUME Tr!Sane, NEW d \in Seq(Tr!Names), NEW n \in Tr!Names, Append(d, n) \in DOMAIN v1
    PROVE  n \in Tr!NamesIn(v1, d)
<1>1. Append(d, n) # <<>> /\ Tr!Parent(Append(d, n)) = d /\ Tr!Name(Append(d, n)) = n
  BY GrownIs
<1>2. QED
  BY <1>1 DEF Tr!NamesIn

LEMMA ChildBelow ==
    ASSUME Tr!Sane, NEW d \in Tr!Below, v1[d] = "d", NEW n \in Tr!NamesIn(v1, d)
    PROVE  /\ Append(d, n) \in Tr!Below /\ n \in Tr!Names /\ Append(d, n) # Tr!Top /\ Tr!Rel(Append(d, n)) = Append(Tr!Rel(d), n)
           /\ Tr!Parent(Append(d, n)) = d /\ Tr!Name(Append(d, n)) = n
<1>1. d \in Seq(Tr!Names) /\ Tr!Within(Tr!Top, d) /\ Len(Tr!Top) <= Len(d) /\ Tr!Rel(d) \in Seq(Tr!Names) /\ d = Tr!Top \o Tr!Rel(d) /\ Len(d) \in Nat
  BY BelowIs
<1>2. n \in Tr!Names /\ Append(d, n) \in DOMAIN v1
  BY <1>1, InDir
<1>3. PICK p : p = Append(d, n)
  OBVIOUS
<1>4. p \in Seq(Tr!Names) /\ Len(p) = Len(d) + 1 /\ Tr!Parent(p) = d /\ Tr!Name(p) = n /\ Tr!Within(d, p)
  BY <1>1, <1>2, <1>3, GrownIs
<1>5. Tr!Top \in Seq(Tr!Names) /\ Len(Tr!Top) \in Nat
  BY TopIs
<1>6. p = Tr!Top \o Append(Tr!Rel(d), n)
  <2>1. <<n>> \in Seq(Tr!Names)
    BY <1>2
  <2>2. p = d \o <<n>> /\ Append(Tr!Rel(d), n) = Tr!Rel(d) \o <<n>>
    BY <1>1, <1>2, <1>3, GrownIs
  <2>3. (Tr!Top \o Tr!Rel(d)) \o <<n>> = Tr!Top \o (Tr!Rel(d) \o <<n>>)
    BY <1>1, <1>5, <2>1, ConcatAssociative
  <2>4. QED
    BY <1>1, <2>2, <2>3
<1>7. Append(Tr!Rel(d), n) \in Seq(Tr!Names)
  BY <1>1, <1>2, GrownIs
<1>8. Tr!Within(Tr!Top, p) /\ Tr!Rel(p) = Append(Tr!Rel(d), n)
  BY <1>5, <1>6, <1>7, AfterIs DEF Tr!Rel
<1>9. ASSUME NEW k \in Len(Tr!Top)..(Len(p) - 1) PROVE v1[SubSeq(p, 1, k)] = "d"
  <2>1. CASE k = Len(d)
    <3>1. SubSeq(p, 1, Len(d)) = d
      BY <1>1, <1>4, SubSeqFull DEF Tr!Within
    <3>2. QED
      BY <2>1, <3>1
  <2>2. CASE k # Len(d)
    <3>1. k \in Len(Tr!Top)..(Len(d) - 1)
      BY <1>1, <1>4, <1>5, <2>2
    <3>2. SubSeq(p, 1, k) = SubSeq(d, 1, k)
      <4>1. CASE k = 0
        BY <4>1, SubSeqEmpty
      <4>2. CASE k # 0
        <5>1. 1 \in 1..Len(d) /\ k \in 1..Len(d)
          BY <1>1, <1>5, <3>1, <4>2
        <5>2. <<n>> \in Seq(Tr!Names) /\ p = d \o <<n>>
          BY <1>1, <1>2, <1>3, GrownIs
        <5>3. QED
          BY <1>1, <5>1, <5>2, SubSeqOfConcat1
      <4>3. QED
        BY <4>1, <4>2
    <3>3. v1[SubSeq(d, 1, k)] = "d"
      BY <3>1 DEF Tr!Below
    <3>4. QED
      BY <3>2, <3>3
  <2>3. QED
    BY <2>1, <2>2
<1>10. p \in Tr!Below
  BY <1>2, <1>3, <1>8, <1>9 DEF Tr!Below
<1>11. p # Tr!Top
  BY <1>1, <1>4, <1>5
<1>12. QED
  BY <1>2, <1>3, <1>4, <1>8, <1>10, <1>11

LEMMA NextBelow ==
    ASSUME Tr!Sane, NEW q \in Tr!Below, NEW p \in Tr!Below, Tr!Within(q, p), p # q
    PROVE  v1[q] = "d" /\ \E m \in Tr!NamesIn(v1, q) : Tr!Within(Append(q, m), p)
<1>1. p \in Seq(Tr!Names) /\ q \in Seq(Tr!Names) /\ p \in DOMAIN v1 /\ Len(Tr!Top) <= Len(q) /\ Len(Tr!Top) \in Nat
  BY BelowIs, TopIs
<1>2. PICK m : m = p[Len(q) + 1]
  OBVIOUS
<1>3. Len(q) < Len(p) /\ m \in Tr!Names /\ Tr!Within(Append(q, m), p) /\ SubSeq(p, 1, Len(q)) = q
  BY <1>1, <1>2, PrefixCases
<1>4. Len(q) \in Nat /\ Len(p) \in Nat
  BY <1>1
<1>5. v1[q] = "d"
  <2>1. Len(q) \in Len(Tr!Top)..(Len(p) - 1)
    BY <1>1, <1>3, <1>4
  <2>2. v1[SubSeq(p, 1, Len(q))] = "d"
    BY <2>1 DEF Tr!Below
  <2>3. QED
    BY <1>3, <2>2
<1>6. PICK b : b = Append(q, m)
  OBVIOUS
<1>7. b \in Seq(Tr!Names) /\ Len(b) = Len(q) + 1
  BY <1>1, <1>3, <1>6, GrownIs
<1>8. b \in DOMAIN v1
  <2>1. SubSeq(p, 1, Len(b)) = b
    BY <1>3, <1>6, <1>7, SubSeqFull DEF Tr!Within
  <2>2. CASE Len(b) = Len(p)
    BY <1>1, <2>1, <2>2, SubSeqFull
  <2>3. CASE Len(b) # Len(p)
    <3>1. Len(b) \in 0..(Len(p) - 1)
      BY <1>3, <1>4, <1>7, <2>3
    <3>2. SubSeq(p, 1, Len(b)) \in DOMAIN v1
      BY <1>1, <3>1, WorldIs
    <3>3. QED
      BY <2>1, <3>2
  <2>4. QED
    BY <2>2, <2>3
<1>9. m \in Tr!NamesIn(v1, q)
  BY <1>1, <1>3, <1>6, <1>8, IsInDir
<1>10. QED
  BY <1>3, <1>5, <1>9

LEMMA ParentBelow ==
    ASSUME Tr!Sane, NEW p \in Tr!Below, p # Tr!Top
    PROVE  /\ Tr!Parent(p) \in Tr!Below /\ v1[Tr!Parent(p)] = "d" /\ Tr!Name(p) \in Tr!NamesIn(v1, Tr!Parent(p))
           /\ p = Append(Tr!Parent(p), Tr!Name(p)) /\ p # <<>>
<1>1. p \in Seq(Tr!Names) /\ p \in DOMAIN v1 /\ Tr!Within(Tr!Top, p) /\ Len(Tr!Top) <= Len(p) /\ Tr!Top \in Seq(Tr!Names)
  BY BelowIs, TopIs
<1>2. Len(Tr!Top) < Len(p) /\ Len(p) \in Nat /\ Len(Tr!Top) \in Nat
  BY <1>1, PrefixCases
<1>3. p # <<>>
  BY <1>1, <1>2
<1>4. PICK d : d = Tr!Parent(p)
  OBVIOUS
<1>5. d \in Seq(Tr!Names) /\ Tr!Name(p) \in Tr!Names /\ p = Append(d, Tr!Name(p)) /\ Len(d) = Len(p) - 1
  BY <1>1, <1>3, <1>4, ShrunkIs
<1>6. d = SubSeq(p, 1, Len(p) - 1)
  BY <1>4 DEF Tr!Parent
<1>7. d \in DOMAIN v1
  <2>1. Len(p) - 1 \in 0..(Len(p) - 1)
    BY <1>2
  <2>2. QED
    BY <1>1, <1>6, <2>1, WorldIs
<1>8. v1[d] = "d"
  <2>1. Len(p) - 1 \in Len(Tr!Top)..(Len(p) - 1)
    BY <1>2
  <2>2. QED
    BY <1>6, <2>1 DEF Tr!Below
<1>9. Tr!Within(Tr!Top, d)
  <2>1. \A i \in 1..Len(Tr!Top) : Tr!Top[i] = p[i]
    BY <1>1, PrefixIs
  <2>2. Tr!Within(d, p)
    BY <1>5, GrownIs
  <2>3. \A i \in 1..Len(d) : d[i] = p[i]
    BY <1>1, <1>5, <2>2, PrefixIs
  <2>4. Len(Tr!Top) <= Len(d) /\ \A i \in 1..Len(Tr!Top) : Tr!Top[i] = d[i]
    BY <1>2, <1>5, <2>1, <2>3
  <2>5. QED
    BY <1>1, <1>5, <2>4, PrefixIs
<1>10. ASSUME NEW n \in Len(Tr!Top)..(Len(d) - 1) PROVE v1[SubSeq(d, 1, n)] = "d"
  <2>1. n \in Len(Tr!Top)..(Len(p) - 1) /\ n \in 0..Len(d) /\ n \in 0..Len(p)
    BY <1>2, <1>5
  <2>2. SubSeq(d, 1, n) = SubSeq(p, 1, n)
    <3>1. CASE n = 0
      BY <3>1, SubSeqEmpty
    <3>2. CASE n # 0
      <4>1. 1 \in 1..Len(d) /\ n \in 1..Len(d) /\ <<Tr!Name(p)>> \in Seq(Tr!Names) /\ p = d \o <<Tr!Name(p)>>
        BY <1>2, <1>5, <2>1, <3>2, GrownIs
      <4>2. QED
        BY <1>5, <4>1, SubSeqOfConcat1
    <3>3. QED
      BY <3>1, <3>2
  <2>3. v1[SubSeq(p, 1, n)] = "d"
    BY <2>1 DEF Tr!Below
  <2>4. QED
    BY <2>2, <2>3
<1>11. d \in Tr!Below
  BY <1>7, <1>9, <1>10 DEF Tr!Below
<1>12. Tr!Name(p) \in Tr!NamesIn(v1, d)
  BY <1>1, <1>5, IsInDir
<1>13. QED
  BY <1>3, <1>4, <1>5, <1>8, <1>11, <1>12

LEMMA PlaceIs ==
    ASSUME Tr!Sane, NEW p \in Tr!Below
    PROVE  /\ Tr!Place(p) = (TargetDir \o Tr!Base) \o Tr!Rel(p) /\ Tr!Place(p) \in Seq(Tr!Names) /\ TargetDir \o Tr!Base \in Seq(Tr!Names)
           /\ Len(Tr!Place(p)) = Len(TargetDir \o Tr!Base) + Len(Tr!Rel(p)) /\ Len(TargetDir \o Tr!Base) = Len(TargetDir) + Len(Tr!Base)
<1>1. TargetDir \in Seq(Tr!Names) /\ Tr!Base \in Seq(Tr!Names) /\ Tr!Rel(p) \in Seq(Tr!Names)
  BY CompIs, BaseIs, BelowIs
<1>2. TargetDir \o Tr!Base \in Seq(Tr!Names) /\ Len(TargetDir \o Tr!Base) = Len(TargetDir) + Len(Tr!Base)
  BY <1>1, ConcatProperties
<1>3. Tr!Place(p) = (TargetDir \o Tr!Base) \o Tr!Rel(p)
  BY DEF Tr!Place, Tr!Rel
<1>4. QED
  BY <1>1, <1>2, <1>3, ConcatProperties

LEMMA PlaceOnce == ASSUME Tr!Sane, NEW p \in Tr!Below, NEW q \in Tr!Below, Tr!Place(p) = Tr!Place(q) PROVE p = q
<1>1. PICK a : a = TargetDir \o Tr!Base
  OBVIOUS
<1>2. a \in Seq(Tr!Names) /\ a \o Tr!Rel(p) = a \o Tr!Rel(q) /\ Tr!Rel(p) \in Seq(Tr!Names) /\ Tr!Rel(q) \in Seq(Tr!Names)
  BY <1>1, PlaceIs, BelowIs
<1>3. Tr!Rel(p) = Tr!Rel(q)
  <2>1. PICK r \in Seq(Tr!Names), t \in Seq(Tr!Names) : r = Tr!Rel(p) /\ t = Tr!Rel(q)
    BY <1>2
  <2>2. a \o r = a \o t
    BY <1>2, <2>1
  <2>3. r = t
    <3>1. PICK u : u = a \o r
      OBVIOUS
    <3>2. SubSeq(a \o r, Len(a) + 1, Len(a \o r)) = r /\ SubSeq(a \o t, Len(a) + 1, Len(a \o t)) = t
      BY <1>2, AfterIs
    <3>3. QED
      BY <2>2, <3>2
  <2>4. QED
    BY <2>1, <2>3
<1>4. p = Tr!Top \o Tr!Rel(p) /\ q = Tr!Top \o Tr!Rel(q)
  BY BelowIs
<1>5. QED
  BY <1>3, <1>4

LEMMA TextIs ==
    ASSUME Tr!Sane, NEW p \in Tr!Below
    PROVE  /\ Tr!Text(p) = Tr!TopText \o Tr!Rel(p) /\ Tr!Text(p) \in Seq(Tr!Comp) /\ Tr!Text(p) # <<>> /\ Tr!TopText \in Seq(Tr!Comp) /\ Tr!TopText # <<>>
           /\ Head(Tr!Text(p)) = Head(Tr!TopText) /\ Tail(Tr!Text(p)) = Tail(Tr!TopText) \o Tr!Rel(p) /\ Len(Tr!Text(p)) = Len(Tr!TopText) + Len(Tr!Rel(p))
           /\ Tr!From(IF v3.op = "get" THEN Tr!Top ELSE SourceDir, Tr!Text(p)) = p
<1>1. Tr!TopText \in Seq(Tr!Comp) /\ Tr!TopText # <<>>
  BY TaskIs, MarkAlone DEF Tr!TopText
<1>2. Tr!Rel(p) \in Seq(Tr!Names) /\ Tr!Rel(p) \in Seq(Tr!Comp) /\ p = Tr!Top \o Tr!Rel(p)
  BY BelowIs, NamesAreComp
<1>3. PICK r : r = Tr!Rel(p)
  OBVIOUS
<1>4. Tr!Text(p) = Tr!TopText \o r
  BY <1>3 DEF Tr!Text
<1>5. Tr!TopText \o r \in Seq(Tr!Comp) /\ Len(Tr!TopText \o r) = Len(Tr!TopText) + Len(r)
  BY <1>1, <1>2, <1>3, ConcatProperties
<1>6. Tr!TopText \o r # <<>> /\ Head(Tr!TopText \o r) = Head(Tr!TopText) /\ Tail(Tr!TopText \o r) = Tail(Tr!TopText) \o r
  BY <1>1, <1>2, <1>3, HeadJoined
<1>7. Tr!From(IF v3.op = "get" THEN Tr!Top ELSE SourceDir, Tr!Text(p)) = p
  <2>1. CASE v3.op = "get"
    <3>1. Tr!Text(p) = <<".">> \o r
      BY <1>4, <2>1 DEF Tr!TopText
    <3>2. Tr!From(Tr!Top, <<".">> \o r) = Tr!Top \o r
      BY <1>2, <1>3, TopIs, FromNames
    <3>3. QED
      BY <1>2, <1>3, <2>1, <3>1, <3>2
  <2>2. CASE v3.op # "get"
    <3>1. Tr!Text(p) = v3.item \o r
      BY <1>4, <2>2 DEF Tr!TopText
    <3>2. Tr!From(SourceDir, v3.item \o r) = Tr!Top \o r
      BY <1>2, <1>3, TopIs
    <3>3. QED
      BY <1>2, <1>3, <2>2, <3>1, <3>2
  <2>3. QED
    BY <2>1, <2>2
<1>8. QED
  BY <1>1, <1>3, <1>4, <1>5, <1>6, <1>7

LEMMA JoinedMore ==
    ASSUME NEW S, NEW a \in Seq(S), NEW r \in Seq(S), NEW n \in S
    PROVE  a \o Append(r, n) = Append(a \o r, n)
<1>1. <<n>> \in Seq(S) /\ a \o r \in Seq(S)
  BY ConcatProperties
<1>2. Append(r, n) = r \o <<n>> /\ Append(a \o r, n) = (a \o r) \o <<n>>
  BY <1>1, GrownIs
<1>3. QED
  BY <1>1, <1>2, ConcatAssociative

LEMMA Downward ==
    ASSUME Tr!Sane, NEW d \in Tr!Below, v1[d] = "d", NEW n \in Tr!NamesIn(v1, d)
    PROVE  /\ Tr!Text(Append(d, n)) = Append(Tr!Text(d), n) /\ Tr!Place(Append(d, n)) = Append(Tr!Place(d), n)
           /\ Tr!Parent(Tr!Place(Append(d, n))) = Tr!Place(d) /\ Tr!Name(Tr!Text(Append(d, n))) = n /\ Tr!Place(Append(d, n)) # <<>>
           /\ Tr!Text(Append(d, n)) # <<".">> /\ Tr!Text(Append(d, n)) # <<"/">>
<1>1. PICK p : p = Append(d, n)
  OBVIOUS
<1>2. p \in Tr!Below /\ n \in Tr!Names /\ Tr!Rel(p) = Append(Tr!Rel(d), n)
  BY <1>1, ChildBelow
<1>3. Tr!Rel(d) \in Seq(Tr!Names) /\ Tr!Rel(d) \in Seq(Tr!Comp) /\ n \in Tr!Comp
  BY <1>2, BelowIs, NamesAreComp, CompIs
<1>4. Tr!Text(p) = Append(Tr!Text(d), n)
  <2>1. Tr!TopText \o Append(Tr!Rel(d), n) = Append(Tr!TopText \o Tr!Rel(d), n)
    BY <1>3, TextIs, JoinedMore
  <2>2. QED
    BY <1>2, <2>1, TextIs
<1>5. Tr!Place(p) = Append(Tr!Place(d), n)
  <2>1. (TargetDir \o Tr!Base) \o Append(Tr!Rel(d), n) = Append((TargetDir \o Tr!Base) \o Tr!Rel(d), n)
    BY <1>2, <1>3, PlaceIs, JoinedMore
  <2>2. QED
    BY <1>2, <2>1, PlaceIs
<1>6. Tr!Place(d) \in Seq(Tr!Names) /\ Tr!Text(d) \in Seq(Tr!Comp) /\ Tr!Text(d) # <<>>
  BY PlaceIs, TextIs
<1>7. Tr!Parent(Tr!Place(p)) = Tr!Place(d) /\ Tr!Place(p) # <<>> /\ Tr!Name(Tr!Text(p)) = n
  <2>1. PICK a \in Seq(Tr!Names), t \in Seq(Tr!Comp) : a = Tr!Place(d) /\ t = Tr!Text(d)
    BY <1>6
  <2>2. Tr!Parent(Append(a, n)) = a /\ Append(a, n) # <<>>
    BY <1>2, GrownIs
  <2>3. Tr!Name(Append(t, n)) = n
    BY <1>3, GrownIs
  <2>4. QED
    BY <1>4, <1>5, <2>1, <2>2, <2>3
<1>9. Tr!Text(p) # <<".">> /\ Tr!Text(p) # <<"/">>
  <2>1. PICK t \in Seq(Tr!Comp) : t = Tr!Text(d) /\ t # <<>>
    BY <1>6
  <2>2. Len(Append(t, n)) = Len(t) + 1 /\ Len(t) \in Nat /\ Len(t) # 0
    BY <1>3, <2>1, GrownIs
  <2>3. Len(<<".">>) = 1 /\ Len(<<"/">>) = 1
    OBVIOUS
  <2>4. PICK u : u = Append(t, n)
    OBVIOUS
  <2>5. Len(u) # 1
    BY <2>2, <2>4
  <2>6. u # <<".">> /\ u # <<"/">>
    BY <2>3, <2>5
  <2>7. QED
    BY <1>4, <2>1, <2>4, <2>6
<1>10. QED
  BY <1>1, <1>4, <1>5, <1>7, <1>9

-----------------------------------------------------------------------------
(***************************************************************************)
(* Names: what the list, or a job, is told of an item.                     *)
(***************************************************************************)
LEMMA RelNameIs ==
    ASSUME Tr!Sane, NEW p \in Tr!Below, v3.op \in {"get", "put"}
    PROVE  /\ Tr!RelName(Tr!Text(p)) \in Seq(Tr!Comp)
           /\ v3.op = "get" => Tr!RelName(Tr!Text(p)) = Tr!Rel(p)
           /\ v3.op = "put" => Tr!Compressed(Tr!RelName(Tr!Text(p))) = Tr!Base \o Tr!Rel(p)
<1>1. PICK r \in Seq(Tr!Names) : r = Tr!Rel(p)
  BY BelowIs
<1>2. Tr!Text(p) = Tr!TopText \o r /\ Tr!Text(p) # <<>> /\ Head(Tr!Text(p)) = Head(Tr!TopText) /\ Tail(Tr!Text(p)) = Tail(Tr!TopText) \o r /\ Tr!Text(p) \in Seq(Tr!Comp)
  BY <1>1, TextIs
<1>3. r \in Seq(Tr!Comp) /\ Tr!Compressed(r) = r /\ <<>> \o r = r
  BY NamesAreComp, NamesPlain, ConcatEmptySeq
<1>4. \A c \in {".", "/"} : Head(<<c>>) = c /\ Tail(<<c>>) = <<>>
  OBVIOUS
<1>5. CASE v3.op = "get"
  <2>1. Tr!TopText = <<".">>
    BY <1>5 DEF Tr!TopText
  <2>2. Head(Tr!TopText) = "." /\ Tail(Tr!TopText) = <<>>
    BY <1>4, <2>1
  <2>3. Tr!RelName(Tr!Text(p)) = r
    BY <1>2, <1>3, <2>2 DEF Tr!RelName
  <2>4. QED
    BY <1>1, <1>3, <1>5, <2>3
<1>6. CASE v3.op = "put"
  <2>1. Tr!TopText = v3.item
    BY <1>6 DEF Tr!TopText
  <2>2. CASE v3.item \in {<<".">>, <<"/">>}
    <3>1. Tail(Tr!TopText) = <<>> /\ Tr!Base = <<>>
      BY <1>4, <2>1, <2>2, BaseIs
    <3>2. Tr!RelName(Tr!Text(p)) = Tail(Tr!Text(p))
      <4>1. CASE v3.item = <<".">>
        <5>1. Head(Tr!TopText) = "."
          BY <1>4, <2>1, <4>1
        <5>2. QED
          BY <1>2, <5>1 DEF Tr!RelName
      <4>2. CASE v3.item = <<"/">>
        BY <4>2 DEF Tr!RelName
      <4>3. QED
        BY <2>2, <4>1, <4>2
    <3>3. Tr!RelName(Tr!Text(p)) = r
      BY <1>2, <1>3, <3>1, <3>2
    <3>4. QED
      BY <1>1, <1>3, <1>6, <3>1, <3>3
  <2>3. CASE v3.item \notin {<<".">>, <<"/">>}
    <3>1. PICK n \in Tr!Names : n = Tr!Name(v3.item) /\ Tr!Base = <<n>>
      BY <2>3, BaseIs
    <3>2. v3.item \in Seq(Tr!Comp) /\ v3.item # <<>> /\ Head(v3.item) # "."
      BY <2>3, TaskIs, CompIs
    <3>3. Tr!RelName(Tr!Text(p)) = SubSeq(Tr!Text(p), Len(v3.item), Len(Tr!Text(p)))
      BY <1>2, <2>1, <2>3, <3>2 DEF Tr!RelName
    <3>4. Tr!RelName(Tr!Text(p)) = <<n>> \o r
      BY <1>2, <2>1, <3>1, <3>2, <3>3, FromLast
    <3>5. <<n>> \o r \in Seq(Tr!Names)
      BY <3>1, BaseIs, JoinedNames
    <3>6. Tr!Compressed(<<n>> \o r) = <<n>> \o r /\ <<n>> \o r \in Seq(Tr!Comp)
      BY <3>5, NamesPlain, NamesAreComp
    <3>7. QED
      BY <1>1, <1>6, <3>1, <3>4, <3>6
  <2>4. QED
    BY <2>2, <2>3
<1>7. QED
  BY <1>5, <1>6

LEMMA FromOfIs ==
    ASSUME Tr!Sane, NEW p \in Tr!Below, v3.op \in {"get", "put"}
    PROVE  Tr!From(SourceDir, Tr!FromOf(p)) = p /\ Tr!FromOf(p) # Tr!NoName /\ Tr!FromOf(p) \in Seq(Tr!Comp)
<1>1. PICK r \in Seq(Tr!Names) : r = Tr!Rel(p)
  BY BelowIs
<1>2. p = Tr!Top \o r /\ r \in Seq(Tr!Comp)
  BY <1>1, BelowIs, NamesAreComp
<1>3. CASE v3.op = "get" /\ v3.item = <<".">>
  <2>1. Tr!FromOf(p) = r
    BY <1>1, <1>3 DEF Tr!FromOf
  <2>2. Tr!Compressed(v3.item) = <<>> /\ Head(v3.item) # "/"
    BY <1>3, BaseIs
  <2>3. Tr!Top = SourceDir \o <<>> /\ SourceDir \in Seq(Tr!Names)
    BY <2>2, TopIs, CompIs
  <2>4. Tr!From(SourceDir, r) = p
    BY <1>2, <2>3, ConcatEmptySeq, FromNames
  <2>5. r # <<"none">>
    <3>1. r # <<>> => Head(r) \in Tr!Names
      BY HeadFirst
    <3>2. <<"none">> # <<>> /\ Head(<<"none">>) = "none"
      OBVIOUS
    <3>3. QED
      BY <3>1, <3>2, CompIs
  <2>6. QED
    BY <1>2, <2>1, <2>4, <2>5 DEF Tr!NoName
<1>4. CASE ~(v3.op = "get" /\ v3.item = <<".">>)
  <2>1. Tr!FromOf(p) = v3.item \o r
    <3>1. CASE v3.op = "put"
      BY <1>1, <3>1 DEF Tr!FromOf, Tr!Text, Tr!TopText
    <3>2. CASE v3.op = "get"
      BY <1>1, <1>4, <3>2 DEF Tr!FromOf
    <3>3. QED
      BY <3>1, <3>2
  <2>2. Tr!From(SourceDir, v3.item \o r) = p
    BY <1>2, TopIs
  <2>3. v3.item \o r \in Seq(Tr!Comp) /\ Head(v3.item \o r) = Head(v3.item)
    BY ItemNames
  <2>4. Head(v3.item) # "none"
    <3>1. Head(<<".">>) = "."
      OBVIOUS
    <3>2. QED
      BY <3>1, TaskIs, CompIs
  <2>5. Head(<<"none">>) = "none"
    OBVIOUS
  <2>6. QED
    BY <2>1, <2>2, <2>3, <2>4, <2>5 DEF Tr!NoName
<1>5. QED
  BY <1>3, <1>4

LEMMA EntryWith ==
    ASSUME NEW k, NEW f, NEW t, NEW y
    PROVE  [[kind |-> k, from |-> f, to |-> t] EXCEPT !.to = y] = [kind |-> k, from |-> f, to |-> y]
  OBVIOUS

\* The names a get and a put work with.
LEMMA GetNamesAre ==
    ASSUME Tr!Sane, NEW p \in Tr!Below, v3.op = "get"
    PROVE  Tr!GetNames(Tr!Listed(Tr!Text(p), Tr!Kind(p))) = Tr!WorkItem(p)
<1>1. PICK r \in Seq(Tr!Names) : r = Tr!Rel(p)
  BY BelowIs
<1>2. Tr!RelName(Tr!Text(p)) = r /\ Tr!Compressed(r) = r
  BY <1>1, RelNameIs, NamesPlain
<1>3. PICK e : e = [kind |-> Tr!Kind(p), from |-> <<>>, to |-> r]
  OBVIOUS
<1>4. Tr!Listed(Tr!Text(p), Tr!Kind(p)) = e /\ e.to = r
  BY <1>2, <1>3 DEF Tr!Listed
<1>5. Tr!GetNames(e) = [kind |-> Tr!Kind(p), from |-> IF v3.item = <<".">> THEN e.to ELSE v3.item \o e.to,
                        to |-> TargetDir \o Tr!Base \o Tr!Compressed(e.to)]
  BY <1>3 DEF Tr!GetNames
<1>6. Tr!FromOf(p) = IF v3.item = <<".">> THEN r ELSE v3.item \o r
  BY <1>1 DEF Tr!FromOf
<1>7. Tr!Place(p) = TargetDir \o Tr!Base \o r
  BY <1>1, PlaceIs
<1>8. QED
  BY <1>2, <1>4, <1>5, <1>6, <1>7 DEF Tr!WorkItem

LEMMA PutNamesAre ==
    ASSUME Tr!Sane, NEW p \in Tr!Below, v3.op = "put", NEW e, e = Tr!Listed(Tr!Text(p), Tr!Kind(p))
    PROVE  [e EXCEPT !.to = TargetDir \o Tr!Compressed(@)] = Tr!WorkItem(p)
<1>1. PICK r \in Seq(Tr!Names) : r = Tr!Rel(p)
  BY BelowIs
<1>2. PICK t : t = Tr!RelName(Tr!Text(p)) /\ Tr!Compressed(t) = Tr!Base \o r
  BY <1>1, RelNameIs
<1>3. e = [kind |-> Tr!Kind(p), from |-> Tr!Text(p), to |-> t] /\ e.to = t
  BY <1>2 DEF Tr!Listed
<1>4. [e EXCEPT !.to = TargetDir \o Tr!Compressed(e.to)] = [kind |-> Tr!Kind(p), from |-> Tr!Text(p), to |-> TargetDir \o Tr!Compressed(e.to)]
  <2>1. PICK k, f, y : k = Tr!Kind(p) /\ f = Tr!Text(p) /\ y = TargetDir \o Tr!Compressed(e.to)
    OBVIOUS
  <2>2. e = [kind |-> k, from |-> f, to |-> t]
    BY <1>3, <2>1
  <2>3. [e EXCEPT !.to = y] = [kind |-> k, from |-> f, to |-> y]
    BY <2>2, EntryWith
  <2>4. QED
    BY <2>1, <2>3
<1>5. TargetDir \o (Tr!Base \o r) = Tr!Place(p)
  <2>1. TargetDir \in Seq(Tr!Names) /\ Tr!Base \in Seq(Tr!Names) /\ Tr!Place(p) = (TargetDir \o Tr!Base) \o r
    BY <1>1, CompIs, BaseIs, PlaceIs
  <2>2. QED
    BY <2>1, ConcatAssociative
<1>6. Tr!FromOf(p) = Tr!Text(p)
  BY DEF Tr!FromOf
<1>7. QED
  BY <1>2, <1>3, <1>4, <1>5, <1>6 DEF Tr!WorkItem

LEMMA BaseRelIs ==
    ASSUME Tr!Sane, NEW p \in Tr!Below, Tr!Spooling
    PROVE  Tr!BaseRel(Tr!Text(p)) = Tr!Base \o Tr!Rel(p)
<1>1. PICK r \in Seq(Tr!Names) : r = Tr!Rel(p)
  BY BelowIs
<1>2. Tr!Text(p) = v3.item \o r
  BY <1>1, TextIs DEF Tr!TopText, Tr!Spooling
<1>3. v3.item \in Seq(Tr!Comp) /\ v3.item # <<>>
  BY TaskIs
<1>4. PICK n : n = Tr!Name(v3.item)
  OBVIOUS
<1>5. Tr!BaseRel(Tr!Text(p)) = Tr!Compressed(<<n>> \o r)
  BY <1>2, <1>3, <1>4, FromLast DEF Tr!BaseRel
<1>6. CASE v3.item \in {<<".">>, <<"/">>}
  <2>1. PICK c \in {".", "/"} : v3.item = <<c>>
    BY <1>6
  <2>2. n = c
    BY <1>4, <2>1 DEF Tr!Name
  <2>3. <<c>> \in Seq(Tr!Comp) /\ r \in Seq(Tr!Comp) /\ <<c>> # <<>> /\ Head(<<c>>) = c /\ Tail(<<c>>) = <<>>
    BY MarkAlone, NamesAreComp
  <2>4. <<c>> \o r \in Seq(Tr!Comp) /\ <<c>> \o r # <<>> /\ Head(<<c>> \o r) = c /\ Tail(<<c>> \o r) = r
    BY <2>3, HeadJoined, ConcatProperties, ConcatEmptySeq
  <2>5. Tr!Compressed(<<c>> \o r) = r
    BY <2>4, MarkDropped
  <2>6. Tr!Base \o r = r
    BY <1>6, BaseIs, ConcatEmptySeq
  <2>7. QED
    BY <1>1, <1>5, <2>2, <2>5, <2>6
<1>7. CASE v3.item \notin {<<".">>, <<"/">>}
  <2>1. Tr!Base = <<n>> /\ Tr!Base \in Seq(Tr!Names)
    BY <1>4, <1>7, BaseIs
  <2>2. Tr!Base \o r \in Seq(Tr!Names)
    BY <2>1, JoinedNames
  <2>3. Tr!Compressed(Tr!Base \o r) = Tr!Base \o r
    BY <2>2, NamesPlain
  <2>4. QED
    BY <1>1, <1>5, <2>1, <2>3
<1>8. QED
  BY <1>6, <1>7

\* A marker alone stands for a directory.
LEMMA MarkTop ==
    ASSUME Tr!Sane, v3.item \in {<<".">>, <<"/">>}
    PROVE  /\ Tr!Top \in DOMAIN v1 /\ v1[Tr!Top] \in {"d", "u"} /\ Tr!Base = <<>>
           /\ v3.item = <<".">> => Tr!Top = SourceDir
           /\ v3.item = <<"/">> => Tr!Top = <<>>
<1>1. Tr!Base = <<>> /\ Tr!Compressed(v3.item) = <<>>
  BY BaseIs
<1>2. Head(<<".">>) = "." /\ Head(<<"/">>) = "/"
  OBVIOUS
<1>3. SourceDir \in Seq(Tr!Names) /\ SourceDir \in DOMAIN v1 /\ v1[SourceDir] \in {"d", "u"} /\ SourceDir \o <<>> = SourceDir
  BY WorldIs, CompIs, ConcatEmptySeq
<1>4. CASE v3.item = <<".">>
  <2>1. Tr!Top = SourceDir
    BY <1>1, <1>2, <1>3, <1>4, TopIs
  <2>2. <<".">> # <<"/">>
    BY <1>2
  <2>3. QED
    BY <1>1, <1>3, <1>4, <2>1, <2>2
<1>5. CASE v3.item = <<"/">>
  <2>1. Tr!Top = <<>>
    BY <1>1, <1>2, <1>5, TopIs
  <2>2. CASE SourceDir = <<>>
    BY <1>1, <1>2, <1>3, <1>5, <2>1, <2>2
  <2>3. CASE SourceDir # <<>>
    <3>1. Len(SourceDir) \in Nat /\ Len(SourceDir) >= 1
      BY <1>3, <2>3
    <3>2. 0 \in 0..(Len(SourceDir) - 1)
      BY <3>1
    <3>3. SubSeq(SourceDir, 1, 0) = <<>>
      BY SubSeqEmpty
    <3>4. <<>> \in DOMAIN v1 /\ v1[<<>>] \in {"d", "u"}
      BY <1>3, <3>2, <3>3, WorldIs
    <3>5. QED
      BY <1>1, <1>2, <1>5, <2>1, <3>4
  <2>4. QED
    BY <2>2, <2>3
<1>6. QED
  BY <1>4, <1>5

LEMMA TopPlace == ASSUME Tr!Sane, Tr!Top \in Tr!Below PROVE Tr!Place(Tr!Top) = TargetDir \o Tr!Base /\ Tr!Rel(Tr!Top) = <<>>
<1>1. Tr!Rel(Tr!Top) = <<>>
  BY BelowIs
<1>2. Tr!Place(Tr!Top) = (TargetDir \o Tr!Base) \o <<>> /\ TargetDir \o Tr!Base \in Seq(Tr!Names)
  BY <1>1, PlaceIs
<1>3. QED
  BY <1>1, <1>2, ConcatEmptySeq

LEMMA TwoInAll == ASSUME NEW a \in Nat, NEW b \in Nat, a >= 1, a + (b + 1) <= 2 PROVE a = 1 /\ b = 0
  OBVIOUS

\* Where a job, or the directory it needs, is put.
LEMMA ThereBelow ==
    ASSUME Tr!Sane, Tr!Spooling, NEW d \in Tr!Below, v1[d] = "d", NEW n \in Tr!NamesIn(v1, d)
    PROVE  Tr!ThereDir(Tr!Text(Append(d, n))) \o <<n>> = Tr!Place(Append(d, n))
<1>1. PICK p : p = Append(d, n)
  OBVIOUS
<1>2. p \in Tr!Below /\ n \in Tr!Names /\ Tr!Rel(p) = Append(Tr!Rel(d), n)
  BY <1>1, ChildBelow
<1>3. Tr!Place(p) = Append(Tr!Place(d), n) /\ Tr!Place(d) \in Seq(Tr!Names) /\ Tr!Parent(Tr!Place(p)) = Tr!Place(d)
  BY <1>1, Downward, PlaceIs
<1>4. Append(Tr!Place(d), n) = Tr!Place(d) \o <<n>>
  BY <1>2, <1>3, GrownIs
<1>5. Tr!TopText = v3.item /\ v3.item \in Seq(Tr!Comp) /\ v3.item # <<>>
  BY TaskIs DEF Tr!TopText, Tr!Spooling
<1>6. Tr!Rel(d) \in Seq(Tr!Names) /\ Len(Tr!Rel(p)) = Len(Tr!Rel(d)) + 1 /\ Len(Tr!Rel(d)) \in Nat
  <2>1. Tr!Rel(d) \in Seq(Tr!Names)
    BY BelowIs
  <2>2. QED
    BY <1>2, <2>1, GrownIs
<1>7. Len(Tr!Text(p)) = Len(v3.item) + Len(Tr!Rel(p)) /\ Head(Tr!Text(p)) = Head(v3.item)
  BY <1>2, <1>5, TextIs
<1>8. CASE Tr!TopLevel(Tr!Text(p))
  <2>1. Head(v3.item) \in {"/", "."} /\ Len(Tr!Text(p)) <= 2
    BY <1>7, <1>8 DEF Tr!TopLevel
  <2>2. Len(v3.item) \in Nat /\ Len(v3.item) >= 1 /\ Head(v3.item) = v3.item[1]
    BY <1>5
  <2>3. Len(v3.item) = 1 /\ Len(Tr!Rel(d)) = 0
    <3>1. PICK a \in Nat, b \in Nat : a = Len(v3.item) /\ b = Len(Tr!Rel(d)) /\ a >= 1
      BY <1>6, <2>2
    <3>2. a + (b + 1) <= 2
      BY <1>6, <1>7, <2>1, <3>1
    <3>3. a = 1 /\ b = 0
      BY <3>1, <3>2, TwoInAll
    <3>4. QED
      BY <3>1, <3>3
  <2>4. Tr!Rel(d) = <<>>
    BY <1>6, <2>3
  <2>5. v3.item \in {<<".">>, <<"/">>}
    <3>1. PICK c \in {".", "/"} : c = v3.item[1]
      BY <2>1, <2>2
    <3>2. <<c>> \in Seq(Tr!Comp) /\ Len(<<c>>) = 1 /\ <<c>>[1] = c
      BY MarkAlone
    <3>3. v3.item = <<c>>
      <4>1. \A i \in 1..Len(v3.item) : v3.item[i] = <<c>>[i]
        BY <2>3, <3>1, <3>2
      <4>2. QED
        BY <1>5, <2>3, <3>2, <4>1, SeqEqual
    <3>4. QED
      BY <3>3
  <2>6. d = Tr!Top
    BY <2>4, BelowIs
  <2>7. Tr!Base = <<>> /\ TargetDir \in Seq(Tr!Names)
    BY <2>5, MarkTop, CompIs
  <2>8. Tr!Place(d) = TargetDir
    BY <2>6, <2>7, TopPlace, ConcatEmptySeq
  <2>9. Tr!ThereDir(Tr!Text(p)) = TargetDir
    BY <1>8 DEF Tr!ThereDir
  <2>10. QED
    BY <1>1, <1>3, <1>4, <2>8, <2>9
<1>9. CASE ~Tr!TopLevel(Tr!Text(p))
  <2>1. Tr!ThereDir(Tr!Text(p)) = Tr!Parent(TargetDir \o (Tr!Base \o Tr!Rel(p)))
    BY <1>2, <1>9, BaseRelIs DEF Tr!ThereDir
  <2>2. TargetDir \o (Tr!Base \o Tr!Rel(p)) = Tr!Place(p)
    <3>1. TargetDir \in Seq(Tr!Names) /\ Tr!Base \in Seq(Tr!Names) /\ Tr!Rel(p) \in Seq(Tr!Names)
      BY <1>2, CompIs, BaseIs, BelowIs
    <3>2. (TargetDir \o Tr!Base) \o Tr!Rel(p) = TargetDir \o (Tr!Base \o Tr!Rel(p))
      BY <3>1, ConcatAssociative
    <3>3. QED
      BY <1>2, <3>2, PlaceIs
  <2>3. QED
    BY <1>1, <1>3, <1>4, <2>1, <2>2
<1>10. QED
  BY <1>8, <1>9

LEMMA ThereTop ==
    ASSUME Tr!Sane, Tr!Spooling, Tr!Top \in Tr!Below
    PROVE  /\ Tr!Text(Tr!Top) = v3.item
           /\ Tr!Compressed(Tr!ThereDir(Tr!Text(Tr!Top)) \o <<Tr!Name(Tr!Text(Tr!Top))>>) = Tr!Place(Tr!Top)
<1>1. Tr!Place(Tr!Top) = TargetDir \o Tr!Base /\ Tr!Rel(Tr!Top) = <<>>
  BY TopPlace
<1>2. v3.item \in Seq(Tr!Comp) /\ v3.item # <<>> /\ Tr!TopText = v3.item
  BY TaskIs DEF Tr!TopText, Tr!Spooling
<1>3. Tr!Text(Tr!Top) = v3.item
  <2>1. Tr!Text(Tr!Top) = v3.item \o <<>>
    BY <1>1, <1>2, TextIs
  <2>2. QED
    BY <1>2, <2>1, ConcatEmptySeq
<1>4. TargetDir \in Seq(Tr!Names) /\ TargetDir \in Seq(Tr!Comp)
  BY CompIs, NamesAreComp
<1>5. CASE v3.item \in {<<".">>, <<"/">>}
  <2>1. PICK c \in {".", "/"} : v3.item = <<c>>
    BY <1>5
  <2>2. Tr!Name(v3.item) = c /\ Head(v3.item) = c /\ Len(v3.item) = 1
    BY <2>1 DEF Tr!Name
  <2>3. Tr!ThereDir(v3.item) = TargetDir
    BY <2>2 DEF Tr!ThereDir, Tr!TopLevel
  <2>4. Tr!Base = <<>> /\ TargetDir \o <<>> = TargetDir
    BY <1>4, <1>5, MarkTop, ConcatEmptySeq
  <2>5. Tr!Compressed(Append(TargetDir, c)) = TargetDir
    <3>1. \A i \in 1..Len(TargetDir) : TargetDir[i] \notin {".", "/"}
      BY <1>4, CompIs, ElementOfSeq
    <3>2. QED
      BY <1>4, <3>1, CompressedEnded
  <2>6. Append(TargetDir, c) = TargetDir \o <<c>>
    BY <1>4, MarkAlone, GrownIs
  <2>7. QED
    BY <1>1, <1>3, <2>2, <2>3, <2>4, <2>5, <2>6
<1>6. CASE v3.item \notin {<<".">>, <<"/">>}
  <2>1. PICK n \in Tr!Names : n = Tr!Name(v3.item) /\ Tr!Base = <<n>>
    BY <1>6, BaseIs
  <2>2. <<n>> \in Seq(Tr!Names) /\ TargetDir \o <<n>> \in Seq(Tr!Names)
    BY <1>4, <2>1, JoinedNames
  <2>3. Tr!ThereDir(v3.item) = TargetDir
    <3>1. CASE Tr!TopLevel(v3.item)
      BY <3>1 DEF Tr!ThereDir
    <3>2. CASE ~Tr!TopLevel(v3.item)
      <4>1. Tr!BaseRel(Tr!Text(Tr!Top)) = Tr!Base \o Tr!Rel(Tr!Top)
        BY BaseRelIs
      <4>2. Tr!BaseRel(v3.item) = <<n>>
        BY <1>1, <1>3, <2>1, <2>2, <4>1, ConcatEmptySeq
      <4>3. TargetDir \o <<n>> = Append(TargetDir, n) /\ Tr!Parent(Append(TargetDir, n)) = TargetDir
        BY <1>4, <2>1, GrownIs
      <4>4. QED
        BY <3>2, <4>2, <4>3 DEF Tr!ThereDir
    <3>3. QED
      BY <3>1, <3>2
  <2>4. QED
    BY <1>1, <1>3, <2>1, <2>2, <2>3, NamesPlain
<1>7. QED
  BY <1>3, <1>5, <1>6

\* Where a job finds its file.
LEMMA HereBelow ==
    ASSUME Tr!Sane, v3.op \in {"bgget", "bgput"}, ~Tr!Misnamed, NEW d \in Tr!Below, v1[d] = "d", NEW n \in Tr!NamesIn(v1, d)
    PROVE  Tr!HereDir(Tr!Text(Append(d, n))) \o <<n>> = Append(d, n)
<1>0. Tr!Spooling
  BY DEF Tr!Spooling
<1>1. PICK p : p = Append(d, n)
  OBVIOUS
<1>2. p \in Tr!Below /\ n \in Tr!Names /\ Tr!Rel(p) = Append(Tr!Rel(d), n)
  BY <1>1, ChildBelow
<1>3. d \in Seq(Tr!Names) /\ Tr!Rel(d) \in Seq(Tr!Names) /\ d = Tr!Top \o Tr!Rel(d)
  BY BelowIs
<1>4. Tr!Parent(p) = d /\ p = d \o <<n>>
  BY <1>1, <1>2, <1>3, GrownIs
<1>5. Tr!TopText = v3.item /\ v3.item \in Seq(Tr!Comp) /\ v3.item # <<>> /\ v3.op # "get"
  BY TaskIs DEF Tr!TopText
<1>6. Len(Tr!Rel(p)) = Len(Tr!Rel(d)) + 1 /\ Len(Tr!Rel(d)) \in Nat
  BY <1>2, <1>3, GrownIs
<1>7. /\ Len(Tr!Text(p)) = Len(v3.item) + Len(Tr!Rel(p)) /\ Head(Tr!Text(p)) = Head(v3.item) /\ Tr!Text(p) # <<>>
      /\ Tr!From(SourceDir, Tr!Text(p)) = p
  BY <1>2, <1>5, TextIs
<1>8. CASE Tr!TopLevel(Tr!Text(p))
  <2>1. Head(v3.item) \in {"/", "."} /\ Len(Tr!Text(p)) <= 2
    BY <1>7, <1>8 DEF Tr!TopLevel
  <2>2. Len(v3.item) \in Nat /\ Len(v3.item) >= 1 /\ Head(v3.item) = v3.item[1]
    BY <1>5
  <2>3. Len(v3.item) = 1 /\ Len(Tr!Rel(d)) = 0
    <3>1. PICK a \in Nat, b \in Nat : a = Len(v3.item) /\ b = Len(Tr!Rel(d)) /\ a >= 1
      BY <1>6, <2>2
    <3>2. a + (b + 1) <= 2
      BY <1>6, <1>7, <2>1, <3>1
    <3>3. a = 1 /\ b = 0
      BY <3>1, <3>2, TwoInAll
    <3>4. QED
      BY <3>1, <3>3
  <2>4. d = Tr!Top
    BY <1>3, <2>3, BelowIs
  <2>5. PICK c \in {".", "/"} : c = v3.item[1]
    BY <2>1, <2>2
  <2>6. v3.item = <<c>>
    <3>1. <<c>> \in Seq(Tr!Comp) /\ Len(<<c>>) = 1 /\ <<c>>[1] = c
      BY MarkAlone
    <3>2. \A i \in 1..Len(v3.item) : v3.item[i] = <<c>>[i]
      BY <2>3, <2>5, <3>1
    <3>3. QED
      BY <1>5, <2>3, <3>1, <3>2, SeqEqual
  <2>7. Tr!Top = SourceDir
    <3>1. CASE c = "."
      BY <2>6, <3>1, MarkTop
    <3>2. CASE c = "/"
      <4>1. Head(v3.item) = "/" /\ v3.item = <<"/">>
        BY <2>6, <3>2
      <4>2. SourceDir = <<>>
        BY <4>1 DEF Tr!Misnamed
      <4>3. QED
        BY <4>1, <4>2, MarkTop
    <3>3. QED
      BY <3>1, <3>2
  <2>8. Tr!HereDir(Tr!Text(p)) = SourceDir
    BY <1>8 DEF Tr!HereDir
  <2>9. QED
    BY <1>1, <1>4, <2>4, <2>7, <2>8
<1>9. CASE ~Tr!TopLevel(Tr!Text(p))
  <2>1. (IF v3.op = "bgget" THEN SourceDir \o Tr!Compressed(Tr!Text(p)) ELSE Tr!From(SourceDir, Tr!Text(p))) = p
    <3>1. CASE v3.op = "bgget" /\ Head(v3.item) = "/"
      <4>1. SourceDir = <<>>
        BY <3>1 DEF Tr!Misnamed
      <4>2. Tr!Compressed(Tr!Text(p)) = p
        BY <1>7, <3>1 DEF Tr!From
      <4>3. <<>> \o p = p
        BY <1>2, BelowIs, ConcatEmptySeq
      <4>4. QED
        BY <3>1, <4>1, <4>2, <4>3
    <3>2. CASE v3.op = "bgget" /\ Head(v3.item) # "/"
      <4>1. SourceDir \o Tr!Compressed(Tr!Text(p)) = p
        BY <1>7, <3>2 DEF Tr!From
      <4>2. QED
        BY <3>2, <4>1
    <3>3. CASE v3.op # "bgget"
      BY <1>7, <3>3
    <3>4. QED
      BY <3>1, <3>2, <3>3
  <2>2. Tr!HereDir(Tr!Text(p)) = d
    BY <1>4, <1>9, <2>1 DEF Tr!HereDir
  <2>3. QED
    BY <1>1, <1>4, <2>2
<1>10. QED
  BY <1>8, <1>9

-----------------------------------------------------------------------------
(***************************************************************************)
(* The destination: what is at a path of it, if it is right.               *)
(***************************************************************************)
LEMMA ImageIs ==
    ASSUME NEW p
    PROVE  /\ v1[p] \in {"d", "u"} => Tr!Image(p) = <<"d">> /\ Tr!Kind(p) = "d"
           /\ v1[p] = "-" => Tr!Image(p) = <<"-">> \o p /\ Tr!Kind(p) = "-"
           /\ v1[p] = "l" => Tr!Image(p) = <<"l">> /\ Tr!Kind(p) = "l"
  BY DEF Tr!Image, Tr!Kind

LEMMA FileImage == ASSUME NEW S, NEW p \in Seq(S) PROVE Head(<<"-">> \o p) = "-" /\ Tail(<<"-">> \o p) = p /\ <<"-">> \o p # <<>>
<1>1. p \in Seq(S \cup {"-"}) /\ <<"-">> \in Seq(S \cup {"-"}) /\ <<"-">> # <<>> /\ Head(<<"-">>) = "-" /\ Tail(<<"-">>) = <<>>
  BY SeqMonotonic
<1>2. QED
  BY <1>1, HeadJoined, ConcatEmptySeq

LEMMA CopyNameIs ==
    ASSUME Tr!Sane, NEW p \in Tr!Copied
    PROVE  /\ p \in Tr!Below /\ v1[p] \in {"d", "u", "-", "l"} /\ Tr!Kind(p) \in {"d", "-", "l"}
           /\ Head(Tr!Image(p)) = Tr!Kind(p)
           /\ Tr!Kind(p) = "d" <=> v1[p] \in {"d", "u"}
           /\ Tr!Kind(p) = "d" => Tr!Image(p) = <<"d">>
           /\ Tr!Kind(p) = "-" => Tr!Image(p) = <<"-">> \o p /\ v1[p] = "-"
           /\ Tr!Kind(p) = "l" => Tr!Image(p) = <<"l">> /\ v1[p] = "l"
<1>1. p \in Tr!Below /\ v1[p] # "?"
  BY DEF Tr!Copied
<1>2. p \in DOMAIN v1 /\ p \in Seq(Tr!Names)
  BY <1>1, BelowIs
<1>3. v1[p] \in {"d", "u", "-", "l"}
  BY <1>1, <1>2, WorldIs
<1>4. Head(<<"-">> \o p) = "-" /\ Head(<<"d">>) = "d" /\ Head(<<"l">>) = "l"
  BY <1>2, FileImage
<1>5. QED
  BY <1>1, <1>3, <1>4, ImageIs

LEMMA DirCopied == ASSUME NEW p \in Tr!Below, v1[p] \in {"d", "u"} PROVE p \in Tr!Copied
  BY DEF Tr!Copied

LEMMA TopsHave == ASSUME NEW S, NEW p \in Seq(S) PROVE p \in Tr!Tops(p) /\ <<>> \in Tr!Tops(p) /\ \A q \in Tr!Tops(p) : q \in Seq(S) /\ Len(q) <= Len(p)
<1>1. Len(p) \in 0..Len(p) /\ 0 \in 0..Len(p)
  OBVIOUS
<1>2. SubSeq(p, 1, Len(p)) = p /\ SubSeq(p, 1, 0) = <<>>
  BY SubSeqFull, SubSeqEmpty
<1>3. ASSUME NEW n \in 0..Len(p) PROVE SubSeq(p, 1, n) \in Seq(S) /\ Len(SubSeq(p, 1, n)) <= Len(p)
  BY FirstAmong
<1>4. QED
  BY <1>1, <1>2, <1>3 DEF Tr!Tops

LEMMA TopsMore ==
    ASSUME NEW S, NEW a \in Seq(S), NEW n \in S
    PROVE  Tr!Tops(Append(a, n)) = Tr!Tops(a) \cup {Append(a, n)}
<1>1. PICK p : p = Append(a, n)
  OBVIOUS
<1>2. PICK k \in Nat : k = Len(a)
  OBVIOUS
<1>3. p \in Seq(S) /\ Len(p) = k + 1 /\ Tr!Within(a, p)
  BY <1>1, <1>2, GrownIs
<1>4. ASSUME NEW j \in 0..k PROVE SubSeq(p, 1, j) = SubSeq(a, 1, j)
  <2>1. CASE j = 0
    BY <2>1, SubSeqEmpty
  <2>2. CASE j # 0
    <3>1. 1 \in 1..Len(a) /\ j \in 1..Len(a) /\ <<n>> \in Seq(S) /\ p = a \o <<n>>
      BY <1>1, <1>2, <2>2, GrownIs
    <3>2. QED
      BY <3>1, SubSeqOfConcat1
  <2>3. QED
    BY <2>1, <2>2
<1>5. SubSeq(p, 1, k + 1) = p
  BY <1>3, SubSeqFull
<1>6. 0..(k + 1) = 0..k \cup {k + 1}
  OBVIOUS
<1>7. Tr!Tops(p) = {SubSeq(p, 1, j) : j \in 0..k \cup {k + 1}} /\ Tr!Tops(a) = {SubSeq(a, 1, j) : j \in 0..k}
  BY <1>2, <1>3, <1>6 DEF Tr!Tops
<1>8. QED
  BY <1>1, <1>4, <1>5, <1>7

\* Only the tree's own top may be put at, or above, the destination.
LEMMA PlaceInTops ==
    ASSUME Tr!Sane, NEW p \in Tr!Below, Tr!Place(p) \in Tr!Tops(TargetDir)
    PROVE  p = Tr!Top /\ v1[p] \in {"d", "u"}
<1>1. Len(Tr!Place(p)) <= Len(TargetDir) /\ TargetDir \in Seq(Tr!Names)
  BY TopsHave, CompIs
<1>2. Len(Tr!Place(p)) = Len(TargetDir) + Len(Tr!Base) + Len(Tr!Rel(p))
  BY PlaceIs
<1>3. Tr!Base \in Seq(Tr!Names) /\ Tr!Rel(p) \in Seq(Tr!Names)
  BY BaseIs, BelowIs
<1>4. Len(Tr!Base) = 0 /\ Len(Tr!Rel(p)) = 0
  <2>1. PICK a \in Nat, b \in Nat, c \in Nat : a = Len(TargetDir) /\ b = Len(Tr!Base) /\ c = Len(Tr!Rel(p))
    BY <1>1, <1>3
  <2>2. a + b + c <= a
    BY <1>1, <1>2, <2>1
  <2>3. b = 0 /\ c = 0
    BY <2>2
  <2>4. QED
    BY <2>1, <2>3
<1>5. Tr!Base = <<>> /\ Tr!Rel(p) = <<>>
  BY <1>3, <1>4
<1>6. p = Tr!Top
  BY <1>5, BelowIs
<1>7. v3.item \in {<<".">>, <<"/">>}
  <2>1. \A n : <<n>> # <<>>
    OBVIOUS
  <2>2. QED
    BY <1>5, <2>1, BaseIs
<1>8. QED
  BY <1>6, <1>7, MarkTop

LEMMA RightOnce == ASSUME Tr!Sane, NEW q, NEW k, NEW j, Tr!Right(q, k), Tr!Right(q, j) PROVE k = j
<1>1. CASE q \in Tr!Tops(TargetDir) /\ k = <<"d">>
  <2>1. CASE j = <<"d">>
    BY <1>1, <2>1
  <2>2. CASE j # <<"d">>
    <3>1. PICK p \in Tr!Copied : q = Tr!Place(p) /\ j = Tr!Image(p)
      BY <2>2 DEF Tr!Right
    <3>2. p \in Tr!Below
      BY CopyNameIs
    <3>3. v1[p] \in {"d", "u"}
      BY <1>1, <3>1, <3>2, PlaceInTops
    <3>4. QED
      BY <2>2, <3>1, <3>3, ImageIs
  <2>3. QED
    BY <2>1, <2>2
<1>2. CASE q \in Tr!Tops(TargetDir) /\ j = <<"d">>
  <2>1. CASE k = <<"d">>
    BY <1>2, <2>1
  <2>2. CASE k # <<"d">>
    <3>1. PICK p \in Tr!Copied : q = Tr!Place(p) /\ k = Tr!Image(p)
      BY <2>2 DEF Tr!Right
    <3>2. p \in Tr!Below
      BY CopyNameIs
    <3>3. v1[p] \in {"d", "u"}
      BY <1>2, <3>1, <3>2, PlaceInTops
    <3>4. QED
      BY <2>2, <3>1, <3>3, ImageIs
  <2>3. QED
    BY <2>1, <2>2
<1>3. CASE ~(q \in Tr!Tops(TargetDir) /\ k = <<"d">>) /\ ~(q \in Tr!Tops(TargetDir) /\ j = <<"d">>)
  <2>1. PICK p \in Tr!Copied : q = Tr!Place(p) /\ k = Tr!Image(p)
    BY <1>3 DEF Tr!Right
  <2>2. PICK o \in Tr!Copied : q = Tr!Place(o) /\ j = Tr!Image(o)
    BY <1>3 DEF Tr!Right
  <2>3. p = o
    BY <2>1, <2>2, CopyNameIs, PlaceOnce
  <2>4. QED
    BY <2>1, <2>2, <2>3
<1>4. QED
  BY <1>1, <1>2, <1>3

LEMMA PlaceRight == ASSUME NEW p \in Tr!Copied PROVE Tr!Right(Tr!Place(p), Tr!Image(p))
  BY DEF Tr!Right

LEMMA TopsRight ==
    ASSUME Tr!Sane, NEW p \in Tr!Below, v1[p] \in {"d", "u"}, Tr!ItemKind # "none"
    PROVE  \A q \in Tr!Tops(Tr!Place(p)) : Tr!Right(q, <<"d">>)
<1>0. Len(Tr!Top) \in Nat /\ Tr!Top \in Tr!Below
  BY TopIs, TopBelow
<1> DEFINE Q == {k \in Nat : \A x \in Tr!Below : Len(x) = Len(Tr!Top) + k /\ v1[x] \in {"d", "u"} =>
                               \A q \in Tr!Tops(Tr!Place(x)) : Tr!Right(q, <<"d">>)}
<1>1. 0 \in Q
  <2>1. SUFFICES ASSUME NEW x \in Tr!Below, Len(x) = Len(Tr!Top), v1[x] \in {"d", "u"}
                 PROVE  \A q \in Tr!Tops(Tr!Place(x)) : Tr!Right(q, <<"d">>)
    BY <1>0
  <2>2. x = Tr!Top
    BY <1>0, <2>1, BelowIs
  <2>3. Tr!Place(x) = TargetDir \o Tr!Base /\ TargetDir \in Seq(Tr!Names)
    BY <2>2, TopPlace, CompIs
  <2>4. x \in Tr!Copied
    BY <2>1, DirCopied
  <2>5. Tr!Right(Tr!Place(x), <<"d">>)
    BY <2>1, <2>4, PlaceRight, ImageIs
  <2>6. CASE Tr!Base = <<>>
    <3>1. Tr!Place(x) = TargetDir
      BY <2>3, <2>6, ConcatEmptySeq
    <3>2. QED
      BY <3>1 DEF Tr!Right
  <2>7. CASE Tr!Base # <<>>
    <3>1. PICK n \in Tr!Names : Tr!Base = <<n>>
      BY <2>7, BaseIs
    <3>2. Tr!Place(x) = Append(TargetDir, n)
      BY <2>3, <3>1, GrownIs
    <3>3. Tr!Tops(Tr!Place(x)) = Tr!Tops(TargetDir) \cup {Tr!Place(x)}
      BY <2>3, <3>2, TopsMore
    <3>4. \A q \in Tr!Tops(TargetDir) : Tr!Right(q, <<"d">>)
      BY DEF Tr!Right
    <3>5. QED
      BY <2>5, <3>3, <3>4
  <2>8. QED
    BY <2>6, <2>7
<1>2. ASSUME NEW k \in Nat, k \in Q PROVE k + 1 \in Q
  <2>1. SUFFICES ASSUME NEW x \in Tr!Below, Len(x) = Len(Tr!Top) + (k + 1), v1[x] \in {"d", "u"}
                 PROVE  \A q \in Tr!Tops(Tr!Place(x)) : Tr!Right(q, <<"d">>)
    OBVIOUS
  <2>2. x # Tr!Top
    BY <1>0, <2>1
  <2>3. PICK d, n : d = Tr!Parent(x) /\ n = Tr!Name(x)
    OBVIOUS
  <2>4. d \in Tr!Below /\ v1[d] = "d" /\ n \in Tr!NamesIn(v1, d) /\ x = Append(d, n)
    BY <2>2, <2>3, ParentBelow
  <2>5. d \in Seq(Tr!Names) /\ n \in Tr!Names
    BY <2>4, BelowIs, ChildBelow
  <2>6. Len(d) = Len(Tr!Top) + k
    <3>1. Len(x) = Len(d) + 1 /\ Len(d) \in Nat
      BY <2>4, <2>5, GrownIs
    <3>2. QED
      BY <1>0, <2>1, <3>1
  <2>7. \A q \in Tr!Tops(Tr!Place(d)) : Tr!Right(q, <<"d">>)
    BY <1>2, <2>4, <2>6
  <2>8. Tr!Place(x) = Append(Tr!Place(d), n) /\ Tr!Place(d) \in Seq(Tr!Names)
    BY <2>4, Downward, PlaceIs
  <2>9. Tr!Tops(Tr!Place(x)) = Tr!Tops(Tr!Place(d)) \cup {Tr!Place(x)}
    BY <2>5, <2>8, TopsMore
  <2>10. Tr!Right(Tr!Place(x), <<"d">>)
    BY <2>1, DirCopied, PlaceRight, ImageIs
  <2>11. QED
    BY <2>7, <2>9, <2>10
<1> HIDE DEF Q
<1>3. \A k \in Nat : k \in Q
  BY <1>1, <1>2, ByNat
<1>4. PICK k \in Nat : Len(p) = Len(Tr!Top) + k
  <2>1. Len(p) \in Nat /\ Len(Tr!Top) <= Len(p)
    BY BelowIs
  <2>2. Len(p) - Len(Tr!Top) \in Nat /\ Len(p) = Len(Tr!Top) + (Len(p) - Len(Tr!Top))
    BY <1>0, <2>1
  <2>3. QED
    BY <2>2
<1>5. QED
  BY <1>3, <1>4 DEF Q

LEMMA MakesRight ==
    ASSUME Tr!Sane, NEW t, Tr!Good(t), NEW p \in Seq(Tr!Names), \A q \in Tr!Tops(p) : Tr!Right(q, <<"d">>)
    PROVE  /\ Tr!Good(Tr!MkDirs(t, p)) /\ DOMAIN Tr!MkDirs(t, p) = DOMAIN t \cup Tr!Tops(p)
           /\ \A q \in Tr!Tops(p) : Tr!MkDirs(t, p)[q] = <<"d">>
           /\ p \in DOMAIN Tr!MkDirs(t, p) /\ Tr!What(Tr!MkDirs(t, p), p) = "d"
<1>1. Head(<<"d">>) = "d"
  OBVIOUS
<1>2. ASSUME NEW q \in Tr!Tops(p) PROVE Tr!What(t, q) \in {"none", "d"}
  <2>1. CASE q \in DOMAIN t
    <3>1. Tr!Right(q, t[q])
      BY <2>1 DEF Tr!Good
    <3>2. t[q] = <<"d">>
      BY <3>1, RightOnce
    <3>3. QED
      BY <1>1, <2>1, <3>2 DEF Tr!What
  <2>2. CASE q \notin DOMAIN t
    BY <2>2 DEF Tr!What
  <2>3. QED
    BY <2>1, <2>2
<1>3. PICK u : u = Tr!MkDirs(t, p)
  OBVIOUS
<1>4. u = [q \in DOMAIN t \cup Tr!Tops(p) |-> IF q \in Tr!Tops(p) THEN <<"d">> ELSE t[q]]
  BY <1>2, <1>3 DEF Tr!MkDirs
<1>5. DOMAIN u = DOMAIN t \cup Tr!Tops(p) /\ \A q \in DOMAIN u : u[q] = IF q \in Tr!Tops(p) THEN <<"d">> ELSE t[q]
  BY <1>4
<1>6. \A q \in DOMAIN u : Tr!Right(q, u[q])
  BY <1>5 DEF Tr!Good
<1>7. Tr!Good(u)
  BY <1>5, <1>6 DEF Tr!Good
<1>8. p \in Tr!Tops(p)
  BY TopsHave
<1>9. Tr!What(u, p) = "d"
  BY <1>1, <1>5, <1>8 DEF Tr!What
<1>10. QED
  BY <1>3, <1>5, <1>7, <1>8, <1>9

LEMMA PutRight ==
    ASSUME NEW t, Tr!Good(t), NEW p, NEW k, Tr!Right(p, k)
    PROVE  Tr!Good(Tr!Put(t, p, k)) /\ DOMAIN Tr!Put(t, p, k) = DOMAIN t \cup {p} /\ Tr!Put(t, p, k)[p] = k
<1>1. PICK u : u = Tr!Put(t, p, k)
  OBVIOUS
<1>2. DOMAIN u = DOMAIN t \cup {p} /\ \A q \in DOMAIN u : u[q] = IF q = p THEN k ELSE t[q]
  BY <1>1 DEF Tr!Put
<1>3. \A q \in DOMAIN u : Tr!Right(q, u[q])
  BY <1>2 DEF Tr!Good
<1>4. QED
  BY <1>1, <1>2, <1>3 DEF Tr!Good

LEMMA RightThere == ASSUME Tr!Sane, NEW t, Tr!Good(t), NEW q \in DOMAIN t, NEW k, Tr!Right(q, k) PROVE t[q] = k
<1>1. Tr!Right(q, t[q])
  BY DEF Tr!Good
<1>2. QED
  BY <1>1, RightOnce

LEMMA DirThere ==
    ASSUME Tr!Sane, NEW t, Tr!Good(t), NEW p \in Tr!Below, v1[p] \in {"d", "u"}, Tr!Place(p) \in DOMAIN t
    PROVE  Tr!What(t, Tr!Place(p)) = "d"
<1>1. Tr!Right(Tr!Place(p), <<"d">>)
  BY DirCopied, PlaceRight, ImageIs
<1>2. t[Tr!Place(p)] = <<"d">> /\ Head(<<"d">>) = "d"
  BY <1>1, RightThere
<1>3. QED
  BY <1>2 DEF Tr!What

LEMMA NoDirThere ==
    ASSUME Tr!Sane, NEW t, Tr!Good(t), NEW p \in Tr!Copied, v1[p] \notin {"d", "u"}
    PROVE  Tr!What(t, Tr!Place(p)) # "d"
<1>1. CASE Tr!Place(p) \in DOMAIN t
  <2>1. t[Tr!Place(p)] = Tr!Image(p)
    BY <1>1, PlaceRight, RightThere
  <2>2. Head(Tr!Image(p)) # "d"
    BY CopyNameIs
  <2>3. QED
    BY <1>1, <2>1, <2>2 DEF Tr!What
<1>2. CASE Tr!Place(p) \notin DOMAIN t
  BY <1>2 DEF Tr!What
<1>3. QED
  BY <1>1, <1>2

(***************************************************************************)
(* What is above something in the destination is a directory.              *)
(***************************************************************************)
LEMMA FrontTop ==
    ASSUME NEW S, NEW p \in Seq(S), NEW q \in Tr!Tops(p), q # <<>>
    PROVE  Tr!Parent(q) \in Tr!Tops(p)
<1>1. PICK n \in 0..Len(p) : q = SubSeq(p, 1, n)
  BY DEF Tr!Tops
<1>2. q \in Seq(S) /\ Len(q) = n
  BY <1>1, FirstAmong
<1>3. n # 0
  BY <1>1, <1>2
<1>4. Tr!Parent(q) = SubSeq(p, 1, n - 1)
  <2>1. CASE n = 1
    BY <1>2, <2>1, SubSeqEmpty DEF Tr!Parent
  <2>2. CASE n # 1
    <3>1. 1 \in 1..Len(p) /\ n \in 1..Len(p) /\ 1 \in 1..n - 1 + 1 /\ n - 1 \in 1..n - 1 + 1
      BY <1>3, <2>2
    <3>2. SubSeq(SubSeq(p, 1, n), 1, n - 1) = SubSeq(p, 1 + 1 - 1, 1 + (n - 1) - 1)
      BY <3>1, SubSeqOfSubSeq
    <3>3. 1 + 1 - 1 = 1 /\ 1 + (n - 1) - 1 = n - 1
      OBVIOUS
    <3>4. QED
      BY <1>1, <1>2, <3>2, <3>3 DEF Tr!Parent
  <2>3. QED
    BY <2>1, <2>2
<1>5. n - 1 \in 0..Len(p)
  BY <1>3
<1>6. QED
  BY <1>4, <1>5 DEF Tr!Tops

LEMMA MakesClosed == ASSUME NEW t, Tr!Closed(t), NEW S, NEW p \in Seq(S) PROVE Tr!Closed(Tr!MkDirs(t, p))
<1>1. CASE ~\A q \in Tr!Tops(p) : Tr!What(t, q) \in {"none", "d"}
  BY <1>1 DEF Tr!MkDirs
<1>2. CASE \A q \in Tr!Tops(p) : Tr!What(t, q) \in {"none", "d"}
  <2>1. PICK u : u = Tr!MkDirs(t, p)
    OBVIOUS
  <2>2. u = [q \in DOMAIN t \cup Tr!Tops(p) |-> IF q \in Tr!Tops(p) THEN <<"d">> ELSE t[q]]
    BY <1>2, <2>1 DEF Tr!MkDirs
  <2>3. DOMAIN u = DOMAIN t \cup Tr!Tops(p) /\ \A q \in DOMAIN u : u[q] = IF q \in Tr!Tops(p) THEN <<"d">> ELSE t[q]
    BY <2>2
  <2>4. ASSUME NEW q, Tr!What(t, q) = "d" \/ q \in Tr!Tops(p) PROVE Tr!What(u, q) = "d"
    <3>1. q \in DOMAIN u
      BY <2>3, <2>4 DEF Tr!What
    <3>2. CASE q \in Tr!Tops(p)
      BY <2>3, <3>1, <3>2 DEF Tr!What
    <3>3. CASE q \notin Tr!Tops(p)
      BY <2>3, <2>4, <3>1, <3>3 DEF Tr!What
    <3>4. QED
      BY <3>2, <3>3
  <2>5. ASSUME NEW q \in DOMAIN u, q # <<>> PROVE Tr!What(u, Tr!Parent(q)) = "d"
    <3>1. CASE q \in Tr!Tops(p)
      BY <2>4, <2>5, <3>1, FrontTop
    <3>2. CASE q \notin Tr!Tops(p)
      BY <2>3, <2>4, <2>5, <3>2 DEF Tr!Closed
    <3>3. QED
      BY <3>1, <3>2
  <2>6. DOMAIN u # {}
    BY <2>3 DEF Tr!Closed
  <2>7. QED
    BY <2>1, <2>5, <2>6 DEF Tr!Closed
<1>3. QED
  BY <1>1, <1>2

\* What is put where no directory is takes away none.
LEMMA AddsClosed ==
    ASSUME NEW t, Tr!Closed(t), NEW L, \A p \in L : Tr!HasParent(t, p),
           NEW u, DOMAIN u = DOMAIN t \cup L, \A q \in DOMAIN u : q \notin L => u[q] = t[q]
    PROVE  Tr!Closed(u)
<1>1. ASSUME NEW q, Tr!What(t, q) = "d" PROVE Tr!What(u, q) = "d"
  <2>1. q \notin L
    BY <1>1 DEF Tr!HasParent
  <2>2. q \in DOMAIN t
    BY <1>1 DEF Tr!What
  <2>3. QED
    BY <1>1, <2>1, <2>2 DEF Tr!What
<1>2. ASSUME NEW q \in DOMAIN u, q # <<>> PROVE Tr!What(u, Tr!Parent(q)) = "d"
  <2>1. CASE q \in L
    BY <1>1, <2>1 DEF Tr!HasParent
  <2>2. CASE q \notin L
    BY <1>1, <1>2, <2>2 DEF Tr!Closed
  <2>3. QED
    BY <2>1, <2>2
<1>3. QED
  BY <1>2 DEF Tr!Closed

LEMMA PutClosed == ASSUME NEW t, Tr!Closed(t), NEW p, NEW k, Tr!HasParent(t, p) PROVE Tr!Closed(Tr!Put(t, p, k))
<1>1. PICK u : u = Tr!Put(t, p, k)
  OBVIOUS
<1>2. DOMAIN u = DOMAIN t \cup {p} /\ \A q \in DOMAIN u : q \notin {p} => u[q] = t[q]
  BY <1>1 DEF Tr!Put
<1>3. Tr!Closed(u)
  BY <1>2, AddsClosed
<1>4. QED
  BY <1>1, <1>3

LEMMA DstClosed == Tr!Closed([p \in Tr!Tops(TargetDir) |-> <<"d">>])
<1>1. PICK t : t = [p \in Tr!Tops(TargetDir) |-> <<"d">>]
  OBVIOUS
<1>2. DOMAIN t = Tr!Tops(TargetDir) /\ \A q \in Tr!Tops(TargetDir) : t[q] = <<"d">>
  BY <1>1
<1>3. DOMAIN t # {}
  BY <1>2, TopsHave, CompIs
<1>4. ASSUME NEW q \in DOMAIN t, q # <<>> PROVE Tr!What(t, Tr!Parent(q)) = "d"
  <2>1. Tr!Parent(q) \in Tr!Tops(TargetDir)
    BY <1>2, <1>4, FrontTop, CompIs
  <2>2. QED
    BY <1>2, <2>1 DEF Tr!What
<1>5. QED
  BY <1>1, <1>3, <1>4 DEF Tr!Closed

LEMMA TopMade ==
    ASSUME Tr!Sane, NEW t, Tr!Closed(t), NEW p \in Tr!Below, Tr!Place(p) \in DOMAIN t
    PROVE  Tr!Place(Tr!Top) \in DOMAIN t
<1>0. Len(Tr!Top) \in Nat
  BY TopIs
<1> DEFINE Q == {k \in Nat : \A x \in Tr!Below : Len(x) = Len(Tr!Top) + k /\ Tr!Place(x) \in DOMAIN t => Tr!Place(Tr!Top) \in DOMAIN t}
<1>1. 0 \in Q
  <2>1. \A x \in Tr!Below : Len(x) = Len(Tr!Top) => x = Tr!Top
    <3>1. ASSUME NEW x \in Tr!Below, Len(x) = Len(Tr!Top) PROVE x = Tr!Top
      BY <1>0, <3>1, BelowIs
    <3>2. QED
      BY <3>1
  <2>2. QED
    BY <1>0, <2>1
<1>2. ASSUME NEW k \in Nat, k \in Q PROVE k + 1 \in Q
  <2>1. SUFFICES ASSUME NEW x \in Tr!Below, Len(x) = Len(Tr!Top) + (k + 1), Tr!Place(x) \in DOMAIN t
                 PROVE  Tr!Place(Tr!Top) \in DOMAIN t
    OBVIOUS
  <2>2. x # Tr!Top
    BY <1>0, <2>1
  <2>3. PICK d, n : d = Tr!Parent(x) /\ n = Tr!Name(x)
    OBVIOUS
  <2>4. d \in Tr!Below /\ v1[d] = "d" /\ n \in Tr!NamesIn(v1, d) /\ x = Append(d, n)
    BY <2>2, <2>3, ParentBelow
  <2>5. Tr!Parent(Tr!Place(x)) = Tr!Place(d) /\ Tr!Place(x) # <<>>
    BY <2>4, Downward
  <2>6. Tr!What(t, Tr!Place(d)) = "d"
    BY <2>1, <2>5 DEF Tr!Closed
  <2>7. Tr!Place(d) \in DOMAIN t
    BY <2>6 DEF Tr!What
  <2>8. Len(d) = Len(Tr!Top) + k
    <3>1. d \in Seq(Tr!Names) /\ n \in Tr!Names
      BY <2>4, BelowIs, ChildBelow
    <3>2. Len(x) = Len(d) + 1 /\ Len(d) \in Nat
      BY <2>4, <3>1, GrownIs
    <3>3. QED
      BY <1>0, <2>1, <3>2
  <2>9. QED
    BY <1>2, <2>4, <2>7, <2>8
<1> HIDE DEF Q
<1>3. \A k \in Nat : k \in Q
  BY <1>1, <1>2, ByNat
<1>4. PICK k \in Nat : Len(p) = Len(Tr!Top) + k
  <2>1. Len(p) \in Nat /\ Len(Tr!Top) <= Len(p)
    BY BelowIs
  <2>2. Len(p) - Len(Tr!Top) \in Nat /\ Len(p) = Len(Tr!Top) + (Len(p) - Len(Tr!Top))
    BY <1>0, <2>1
  <2>3. QED
    BY <2>2
<1>5. QED
  BY <1>3, <1>4 DEF Q

(***************************************************************************)
(* The source and the call stay, and what is said of them.                 *)
(***************************************************************************)
LEMMA Steady ==
    ASSUME UNCHANGED <<v1, v3>>
    PROVE  /\ Tr!Top' = Tr!Top /\ Tr!Base' = Tr!Base /\ Tr!Below' = Tr!Below /\ Tr!Copied' = Tr!Copied
           /\ Tr!ItemKind' = Tr!ItemKind /\ Tr!IsDir' = Tr!IsDir /\ Tr!Spooling' = Tr!Spooling /\ Tr!Remote' = Tr!Remote /\ Tr!TopText' = Tr!TopText
           /\ Tr!Deep' = Tr!Deep /\ Tr!Misnamed' = Tr!Misnamed /\ Tr!NamesOnly' = Tr!NamesOnly /\ Tr!Bare' = Tr!Bare /\ Tr!Unfit' = Tr!Unfit
<1>0. v1' = v1 /\ v3' = v3
  OBVIOUS
<1>1. Tr!Top' = Tr!Top /\ Tr!Base' = Tr!Base
  BY <1>0 DEF Tr!Top, Tr!Base
<1>2. Tr!Below' = Tr!Below
  BY <1>0, <1>1 DEF Tr!Below
<1>3. Tr!Copied' = Tr!Copied
  BY <1>0, <1>2 DEF Tr!Copied
<1>4. Tr!ItemKind' = Tr!ItemKind
  BY <1>0 DEF Tr!ItemKind
<1>5. Tr!IsDir' = Tr!IsDir
  BY <1>4 DEF Tr!IsDir
<1>6. Tr!Spooling' = Tr!Spooling /\ Tr!Remote' = Tr!Remote /\ Tr!TopText' = Tr!TopText
  BY <1>0 DEF Tr!Spooling, Tr!Remote, Tr!TopText
<1>7. Tr!Deep' = Tr!Deep
  BY <1>1, <1>2 DEF Tr!Deep
<1>8. Tr!Misnamed' = Tr!Misnamed
  BY <1>0 DEF Tr!Misnamed
<1>9. Tr!NamesOnly' = Tr!NamesOnly
  BY <1>0, <1>2 DEF Tr!NamesOnly
<1>10. Tr!Bare' = Tr!Bare
  BY <1>0, <1>1, <1>3, <1>5 DEF Tr!Bare
<1>11. Tr!Unfit' = Tr!Unfit
  BY <1>0, <1>4, <1>5, <1>6 DEF Tr!Unfit
<1>12. QED
  BY <1>1, <1>2, <1>3, <1>4, <1>5, <1>6, <1>7, <1>8, <1>9, <1>10, <1>11

LEMMA GoodSteady ==
    ASSUME UNCHANGED <<v1, v3>>, NEW t, t = v2', Tr!Good(t)
    PROVE  Tr!Good(v2)'
<1>0. v1' = v1 /\ Tr!Base' = Tr!Base /\ Tr!Top' = Tr!Top /\ Tr!Copied' = Tr!Copied
  BY Steady
<1>1. ASSUME NEW q, NEW k, Tr!Right(q, k) PROVE Tr!Right(q, k)'
  BY <1>0, <1>1 DEF Tr!Right, Tr!Place, Tr!Image
<1>2. ASSUME NEW q \in DOMAIN t PROVE Tr!Right(q, t[q])'
  BY <1>1 DEF Tr!Good
<1>3. Tr!Tops(TargetDir) \subseteq DOMAIN t
  BY DEF Tr!Good
<1>4. QED
  BY <1>2, <1>3 DEF Tr!Good
LEMMA ItemSteady ==
    ASSUME UNCHANGED <<v1, v3>>, NEW p, NEW w
    PROVE  /\ Tr!ItemOf(w, p)' = Tr!ItemOf(w, p) /\ Tr!Unnamed(p)' = Tr!Unnamed(p) /\ Tr!Text(p)' = Tr!Text(p) /\ Tr!Place(p)' = Tr!Place(p)
           /\ Tr!Image(p)' = Tr!Image(p) /\ Tr!Kind(p)' = Tr!Kind(p)
<1>0. v1' = v1 /\ v3' = v3 /\ Tr!Base' = Tr!Base /\ Tr!Top' = Tr!Top /\ Tr!Spooling' = Tr!Spooling /\ Tr!TopText' = Tr!TopText
  BY Steady
<1>1. Tr!Place(p)' = Tr!Place(p) /\ Tr!Image(p)' = Tr!Image(p) /\ Tr!Kind(p)' = Tr!Kind(p)
  BY <1>0 DEF Tr!Place, Tr!Image, Tr!Kind
<1>2. Tr!Rel(p)' = Tr!Rel(p)
  BY <1>0 DEF Tr!Rel
<1>3. Tr!Text(p)' = Tr!Text(p)
  BY <1>0, <1>2 DEF Tr!Text
<1>4. Tr!Unnamed(p)' = Tr!Unnamed(p)
  BY <1>0, <1>3 DEF Tr!Unnamed
<1>5. Tr!FromOf(p)' = Tr!FromOf(p)
  BY <1>0, <1>2, <1>3 DEF Tr!FromOf
<1>6. Tr!JobOf(p)' = Tr!JobOf(p)
  BY <1>1 DEF Tr!JobOf
<1>7. ASSUME NEW x, NEW k PROVE Tr!Listed(x, k)' = Tr!Listed(x, k)
  BY <1>0 DEF Tr!Listed, Tr!RelName
<1>8. Tr!Listed(Tr!Text(p), Tr!Kind(p))' = Tr!Listed(Tr!Text(p), Tr!Kind(p))
  BY <1>0, <1>1, <1>3 DEF Tr!Listed, Tr!RelName
<1>9. Tr!WalkItem(p)' = Tr!WalkItem(p)
  BY <1>0, <1>6, <1>8 DEF Tr!WalkItem
<1>10. Tr!WorkItem(p)' = Tr!WorkItem(p)
  BY <1>1, <1>5 DEF Tr!WorkItem
<1>11. QED
  BY <1>1, <1>3, <1>4, <1>9, <1>10 DEF Tr!ItemOf

LEMMA ListedSteady ==
    ASSUME UNCHANGED <<v1, v3>>, NEW w, NEW l, l = v8', NEW p
    PROVE  (Tr!IsListed(w, l, p) => Tr!IsListed(w, v8, p)')
<1>1. Tr!ItemOf(w, p)' = Tr!ItemOf(w, p)
  BY ItemSteady
<1>2. QED
  BY <1>1 DEF Tr!IsListed

LEMMA ListingSteady ==
    ASSUME UNCHANGED <<v1, v3>>, NEW w, NEW l, l = v8', Tr!Listing(w, l)
    PROVE  Tr!Listing(w, v8)'
<1>0. v1' = v1 /\ v3' = v3 /\ Tr!Top' = Tr!Top /\ Tr!Copied' = Tr!Copied /\ Tr!Spooling' = Tr!Spooling
  BY Steady
<1>1. ASSUME NEW i \in DOMAIN l
      PROVE  \E p \in Tr!Copied : l[i] = Tr!ItemOf(w, p) /\ Tr!Follows(w, l, p, i) /\ (Tr!Spooling => v1[p] = "-")
  BY <1>1 DEF Tr!Listing
<1>2. ASSUME NEW i \in DOMAIN l
      PROVE  (\E p \in Tr!Copied : v8[i] = Tr!ItemOf(w, p) /\ Tr!Follows(w, v8, p, i) /\ (Tr!Spooling => v1[p] = "-"))'
  <2>1. PICK p \in Tr!Copied : l[i] = Tr!ItemOf(w, p) /\ Tr!Follows(w, l, p, i) /\ (Tr!Spooling => v1[p] = "-")
    BY <1>1
  <2>2. Tr!ItemOf(w, p)' = Tr!ItemOf(w, p)
    BY ItemSteady
  <2>3. Tr!Follows(w, v8, p, i)'
    <3>1. Tr!Unnamed(Tr!Parent(p))' = Tr!Unnamed(Tr!Parent(p)) /\ Tr!ItemOf(w, Tr!Parent(p))' = Tr!ItemOf(w, Tr!Parent(p))
      BY ItemSteady
    <3>2. \/ v3.op # "put" \/ p = Tr!Top \/ Tr!Unnamed(Tr!Parent(p))
          \/ \E j \in 1..(i - 1) : l[j] = Tr!ItemOf(w, Tr!Parent(p))
      BY <2>1 DEF Tr!Follows
    <3>3. QED
      BY <1>0, <3>1, <3>2 DEF Tr!Follows
  <2>4. QED
    BY <1>0, <2>1, <2>2, <2>3
<1>3. QED
  BY <1>2 DEF Tr!Listing

LEMMA ReachedSteady ==
    ASSUME UNCHANGED <<v1, v3>>, NEW t, t = v2', NEW l, l = v8', NEW p
    PROVE  (Tr!Reached(t, l, p) => Tr!Reached(v2, v8, p)')
<1>1. v1' = v1 /\ Tr!Spooling' = Tr!Spooling
  BY Steady
<1>2. Tr!Place(p)' = Tr!Place(p) /\ Tr!Unnamed(p)' = Tr!Unnamed(p)
  BY ItemSteady
<1>3. Tr!IsListed(FALSE, l, p) => Tr!IsListed(FALSE, v8, p)'
  BY ListedSteady
<1>4. QED
  BY <1>1, <1>2, <1>3 DEF Tr!Reached

LEMMA WalkSteady ==
    ASSUME UNCHANGED <<v1, v3>>, NEW t, t = v2', NEW l, l = v8', NEW s, s = v4', NEW d, d = v5',
           Tr!WalkRight(t, l, s, d)
    PROVE  Tr!WalkRight(v2, v8, v4, v5)'
<1>0. v1' = v1 /\ Tr!Top' = Tr!Top /\ Tr!Copied' = Tr!Copied /\ Tr!Below' = Tr!Below /\ Tr!Remote' = Tr!Remote
  BY Steady
<1>1. Tr!Good(v2)' /\ Tr!Listing(FALSE, v8)'
  BY GoodSteady, ListingSteady DEF Tr!WalkRight
<1>2. ASSUME NEW i \in DOMAIN s PROVE Tr!FrameRight(v2, v8, v4[i], Len(v4) - i)'
  <2>1. Tr!FrameRight(t, l, s[i], Len(s) - i)
    BY <1>2 DEF Tr!WalkRight
  <2>2. PICK f : f = s[i]
    OBVIOUS
  <2>3. Tr!Text(f.dir)' = Tr!Text(f.dir)
    BY ItemSteady
  <2>4. Tr!Reached(t, l, f.dir) => Tr!Reached(v2, v8, f.dir)'
    BY ReachedSteady
  <2>5. f = v4'[i] /\ Len(s) - i = Len(v4') - i
    BY <2>2
  <2>6. Tr!FrameRight(v2, v8, f, Len(s) - i)'
    BY <1>0, <2>1, <2>2, <2>3, <2>4 DEF Tr!FrameRight
  <2>7. QED
    BY <1>0, <2>5, <2>6, Steady
       DEF Tr!FrameRight, Tr!Text, Tr!Rel, Tr!Reached, Tr!Place, Tr!Unnamed, Tr!IsListed, Tr!ItemOf, Tr!WalkItem,
           Tr!JobOf, Tr!Listed, Tr!RelName, Tr!Kind
<1>3. (Tr!Remote /\ v5 > 0 => \E p \in Tr!Below : Len(p) >= Len(Tr!Top) + v5)'
  <2>1. Tr!Remote /\ d > 0 => \E p \in Tr!Below : Len(p) >= Len(Tr!Top) + d
    BY DEF Tr!WalkRight
  <2>2. QED
    BY <1>0, <2>1
<1>4. ASSUME NEW p \in Tr!Copied PROVE Tr!Reached(v2, v8, p)' \/ Tr!Ahead(v4, p)'
  <2>1. Tr!Reached(t, l, p) \/ Tr!Ahead(s, p)
    BY DEF Tr!WalkRight
  <2>2. Tr!Ahead(s, p) => Tr!Ahead(v4, p)'
    BY DEF Tr!Ahead, Tr!Waits
  <2>3. QED
    BY <2>1, <2>2, ReachedSteady
<1>5. QED
  BY <1>0, <1>1, <1>2, <1>3, <1>4 DEF Tr!WalkRight

LEMMA CourseSteady ==
    ASSUME UNCHANGED <<v1, v3>>, NEW t, t = v2', NEW l, l = v8', NEW k, k = v10', NEW o, o = v11',
           NEW f, f = v12', Tr!OnCourse(t, l, k, o, f)
    PROVE  Tr!OnCourse(v2, v8, v10, v11, v12)'
<1>0. v1' = v1 /\ v3' = v3 /\ Tr!Base' = Tr!Base /\ Tr!Copied' = Tr!Copied /\ Tr!ItemKind' = Tr!ItemKind /\ Tr!IsDir' = Tr!IsDir
  BY Steady
<1>1. Tr!Good(v2)'
  BY GoodSteady DEF Tr!OnCourse
<1>2. (Tr!IsDir => Tr!Listing(TRUE, v8) /\ \A p \in Tr!Copied : Tr!Unnamed(p) \/ Tr!IsListed(TRUE, v8, p))'
  <2>1. CASE Tr!IsDir
    <3>1. Tr!Listing(TRUE, v8)'
      BY <2>1, ListingSteady DEF Tr!OnCourse
    <3>2. ASSUME NEW p \in Tr!Copied PROVE Tr!Unnamed(p)' \/ Tr!IsListed(TRUE, v8, p)'
      <4>1. Tr!Unnamed(p) \/ Tr!IsListed(TRUE, l, p)
        BY <2>1 DEF Tr!OnCourse
      <4>2. Tr!Unnamed(p)' = Tr!Unnamed(p)
        BY ItemSteady
      <4>3. Tr!IsListed(TRUE, l, p) => Tr!IsListed(TRUE, v8, p)'
        BY ListedSteady
      <4>4. QED
        BY <4>1, <4>2, <4>3
    <3>3. QED
      BY <1>0, <3>1, <3>2
  <2>2. CASE ~Tr!IsDir
    BY <1>0, <2>2
  <2>3. QED
    BY <2>1, <2>2
<1>3. (~Tr!IsDir => v8 = Tr!Plain(v3.item, TargetDir \o Tr!Base))'
  BY <1>0 DEF Tr!OnCourse, Tr!Plain
<1>4. (v11 = "ok" /\ "link" \notin v12 => \A i \in 1..(v10 - 1) : Tr!Achieved(v2, v8[i]))'
  BY <1>0 DEF Tr!OnCourse, Tr!Achieved
<1>5. (v12 = {} /\ (Tr!IsDir \/ Tr!ItemKind = "-") => v11 = "ok")'
  BY <1>0 DEF Tr!OnCourse
<1>6. QED
  BY <1>1, <1>2, <1>3, <1>4, <1>5 DEF Tr!OnCourse

(***************************************************************************)
(* The call for an item: its types, and what it adds.                      *)
(***************************************************************************)
LEMMA FrontTyped == ASSUME NEW S, NEW p \in Seq(S) PROVE Tr!Parent(p) \in Seq(S)
<1>1. CASE p = <<>>
  <2>1. Tr!Parent(p) = SubSeq(p, 1, -1)
    BY <1>1 DEF Tr!Parent
  <2>2. SubSeq(p, 1, -1) = <<>>
    BY SubSeqEmpty
  <2>3. QED
    BY <2>1, <2>2
<1>2. CASE p # <<>>
  BY <1>2, ShrunkIs
<1>3. QED
  BY <1>1, <1>2

LEMMA FromTyped == ASSUME NEW d \in Seq(Tr!Comp), NEW p \in Seq(Tr!Comp) PROVE Tr!From(d, p) \in Seq(Tr!Comp)
<1>1. Tr!Compressed(p) \in Seq(Tr!Comp)
  BY CompressedTyped
<1>2. d \o Tr!Compressed(p) \in Seq(Tr!Comp)
  BY <1>1, ConcatProperties
<1>3. QED
  BY <1>1, <1>2 DEF Tr!From

LEMMA ToldTyped ==
    ASSUME Tr!Sane, NEW x \in Seq(Tr!Comp), x # <<>>, NEW k \in {"-", "d", "l"}
    PROVE  Tr!Listed(x, k) \in Tr!Entries
<1>1. v3.item \in Seq(Tr!Comp) /\ v3.item # <<>> /\ <<>> \in Seq(Tr!Comp) /\ Tail(x) \in Seq(Tr!Comp)
  BY TaskIs
<1>2. SubSeq(x, Len(v3.item), Len(x)) \in Seq(Tr!Comp)
  BY <1>1
<1>3. Tr!RelName(x) \in Seq(Tr!Comp)
  BY <1>1, <1>2 DEF Tr!RelName
<1>4. QED
  BY <1>1, <1>3 DEF Tr!Listed, Tr!Entries

LEMMA DirsTyped ==
    ASSUME Tr!Sane, NEW x \in Seq(Tr!Comp)
    PROVE  Tr!ThereDir(x) \in Seq(Tr!Comp) /\ Tr!HereDir(x) \in Seq(Tr!Comp)
<1>1. v3.item \in Seq(Tr!Comp) /\ v3.item # <<>> /\ SourceDir \in Seq(Tr!Comp) /\ TargetDir \in Seq(Tr!Comp)
  BY TaskIs, CompIs, NamesAreComp
<1>2. SubSeq(x, Len(v3.item), Len(x)) \in Seq(Tr!Comp)
  BY <1>1
<1>3. Tr!BaseRel(x) \in Seq(Tr!Comp) /\ Tr!Compressed(x) \in Seq(Tr!Comp)
  BY <1>2, CompressedTyped DEF Tr!BaseRel
<1>4. TargetDir \o Tr!BaseRel(x) \in Seq(Tr!Comp) /\ SourceDir \o Tr!Compressed(x) \in Seq(Tr!Comp) /\ Tr!From(SourceDir, x) \in Seq(Tr!Comp)
  BY <1>1, <1>3, ConcatProperties, FromTyped
<1>5. Tr!Parent(TargetDir \o Tr!BaseRel(x)) \in Seq(Tr!Comp) /\ Tr!Parent(SourceDir \o Tr!Compressed(x)) \in Seq(Tr!Comp) /\ Tr!Parent(Tr!From(SourceDir, x)) \in Seq(Tr!Comp)
  BY <1>4, FrontTyped
<1>6. QED
  BY <1>1, <1>5 DEF Tr!ThereDir, Tr!HereDir

LEMMA AddedIs ==
    ASSUME NEW S, NEW m \in Seq(S), NEW e \in S, NEW l, l = Append(m, e)
    PROVE  /\ l \in Seq(S) /\ Len(l) = Len(m) + 1 /\ l[Len(m) + 1] = e /\ \A i \in 1..Len(m) : l[i] = m[i]
           /\ DOMAIN l = 1..(Len(m) + 1) /\ DOMAIN m = 1..Len(m) /\ Len(m) \in Nat
  BY AppendProperties

LEMMA VisitTyped ==
    ASSUME Tr!Sane, Tr!Closed(v2), NEW x \in Seq(Tr!Comp), x # <<>>, NEW n \in Tr!Comp, NEW k \in {"-", "d", "l"}, Tr!Visit(x, n, k),
           v3' = v3
    PROVE  v8' \in Seq(Tr!Entries) /\ Tr!Closed(v2') /\ Len(v8') >= Len(v8)
<1>0. v8 \in Seq(Tr!Entries) /\ Len(v8) \in Nat
  BY DEF Tr!Sane
<1>1. Tr!ThereDir(x) \o <<n>> \in Seq(Tr!Comp) /\ Tr!HereDir(x) \o <<n>> \in Seq(Tr!Comp) /\ Tr!ThereDir(x) \o <<n>> # <<>>
  BY DirsTyped
<1>2. Tr!Listed(x, k) \in Tr!Entries
  BY ToldTyped
<1>3. Tr!JobFor(x, n) \in Tr!Entries
  BY <1>1 DEF Tr!JobFor, Tr!Entries
<1>4. CASE UNCHANGED v8
  <2>1. SUFFICES Tr!Closed(v2')
    BY <1>0, <1>4
  <2>2. CASE UNCHANGED v2
    BY <2>2 DEF Tr!Closed, Tr!What
  <2>3. CASE v2' = Tr!MkDirs(v2, Tr!Compressed(Tr!ThereDir(x) \o <<n>>))
    <3>1. PICK q \in Seq(Tr!Comp) : q = Tr!Compressed(Tr!ThereDir(x) \o <<n>>)
      BY <1>1, CompressedTyped
    <3>2. Tr!Closed(Tr!MkDirs(v2, q))
      BY MakesClosed
    <3>3. QED
      BY <2>3, <3>1, <3>2
  <2>4. CASE /\ Tr!What(v2, Tr!Parent(Tr!ThereDir(x) \o <<n>>)) = "d" /\ Tr!ThereDir(x) \o <<n>> \notin DOMAIN v2
             /\ v2' = Tr!Put(v2, Tr!ThereDir(x) \o <<n>>, <<"l">>)
    <3>1. PICK q : q = Tr!ThereDir(x) \o <<n>>
      OBVIOUS
    <3>2. Tr!What(v2, q) = "none"
      BY <2>4, <3>1 DEF Tr!What
    <3>3. Tr!HasParent(v2, q)
      BY <1>1, <2>4, <3>1, <3>2 DEF Tr!HasParent
    <3>4. QED
      BY <2>4, <3>1, <3>3, PutClosed
  <2>5. QED
    BY <1>4, <2>2, <2>3, <2>4 DEF Tr!Visit
<1>5. CASE UNCHANGED v2 /\ (v8' = Append(v8, Tr!Listed(x, k)) \/ v8' = Append(v8, Tr!JobFor(x, n)))
  <2>0. PICK e \in Tr!Entries : v8' = Append(v8, e)
    BY <1>2, <1>3, <1>5
  <2>1. PICK l : l = v8' /\ l = Append(v8, e)
    BY <2>0
  <2>2. l \in Seq(Tr!Entries) /\ Len(l) = Len(v8) + 1
    BY <1>0, <2>1, AddedIs
  <2>3. Tr!Closed(v2')
    BY <1>5 DEF Tr!Closed, Tr!What
  <2>4. QED
    BY <1>0, <2>1, <2>2, <2>3
<1>6. QED
  BY <1>4, <1>5 DEF Tr!Visit

LEMMA MoreListed ==
    ASSUME NEW S, NEW m \in Seq(S), NEW e \in S, NEW l, l = m \/ l = Append(m, e), NEW w, NEW q, Tr!IsListed(w, m, q)
    PROVE  Tr!IsListed(w, l, q)
<1>1. CASE l = m
  BY <1>1
<1>2. CASE l = Append(m, e)
  <2>1. PICK i \in DOMAIN m : m[i] = Tr!ItemOf(w, q)
    BY DEF Tr!IsListed
  <2>2. i \in DOMAIN l /\ l[i] = m[i]
    BY <1>2, AddedIs
  <2>3. QED
    BY <2>1, <2>2 DEF Tr!IsListed
<1>3. QED
  BY <1>1, <1>2

LEMMA MoreReached ==
    ASSUME NEW S, NEW m \in Seq(S), NEW e \in S, NEW l, l = m \/ l = Append(m, e),
           NEW t, NEW u, DOMAIN t \subseteq DOMAIN u, NEW q, Tr!Reached(t, m, q)
    PROVE  Tr!Reached(u, l, q)
<1>1. Tr!IsListed(FALSE, m, q) => Tr!IsListed(FALSE, l, q)
  BY MoreListed
<1>2. QED
  BY <1>1 DEF Tr!Reached

LEMMA MoreListing ==
    ASSUME NEW S, NEW m \in Seq(S), NEW w, Tr!Listing(w, m), NEW p \in Tr!Copied, NEW e \in S, e = Tr!ItemOf(w, p),
           NEW l, l = Append(m, e), Tr!Spooling => v1[p] = "-",
           v3.op # "put" \/ p = Tr!Top \/ Tr!Unnamed(Tr!Parent(p)) \/ Tr!IsListed(w, m, Tr!Parent(p))
    PROVE  Tr!Listing(w, l) /\ Tr!IsListed(w, l, p)
<1>1. /\ Len(l) = Len(m) + 1 /\ l[Len(m) + 1] = e /\ \A i \in 1..Len(m) : l[i] = m[i]
      /\ DOMAIN l = 1..(Len(m) + 1) /\ DOMAIN m = 1..Len(m) /\ Len(m) \in Nat
  BY AddedIs
<1>2. ASSUME NEW i \in DOMAIN l
      PROVE  \E q \in Tr!Copied : l[i] = Tr!ItemOf(w, q) /\ Tr!Follows(w, l, q, i) /\ (Tr!Spooling => v1[q] = "-")
  <2>1. CASE i = Len(m) + 1
    <3>1. Tr!Follows(w, l, p, i)
      <4>1. CASE Tr!IsListed(w, m, Tr!Parent(p))
        <5>1. PICK j \in DOMAIN m : m[j] = Tr!ItemOf(w, Tr!Parent(p))
          BY <4>1 DEF Tr!IsListed
        <5>2. j \in 1..(i - 1) /\ l[j] = Tr!ItemOf(w, Tr!Parent(p))
          BY <1>1, <2>1, <5>1
        <5>3. QED
          BY <5>2 DEF Tr!Follows
      <4>2. QED
        BY <4>1 DEF Tr!Follows
    <3>2. l[i] = Tr!ItemOf(w, p)
      BY <1>1, <2>1
    <3>3. QED
      BY <3>1, <3>2
  <2>2. CASE i # Len(m) + 1
    <3>1. i \in DOMAIN m /\ l[i] = m[i]
      BY <1>1, <2>2
    <3>2. PICK q \in Tr!Copied : m[i] = Tr!ItemOf(w, q) /\ Tr!Follows(w, m, q, i) /\ (Tr!Spooling => v1[q] = "-")
      BY <3>1 DEF Tr!Listing
    <3>3. \A j \in 1..(i - 1) : l[j] = m[j]
      BY <1>1, <3>1
    <3>4. Tr!Follows(w, l, q, i)
      BY <3>2, <3>3 DEF Tr!Follows
    <3>5. QED
      BY <3>1, <3>2, <3>4
  <2>3. QED
    BY <2>1, <2>2
<1>3. Tr!IsListed(w, l, p)
  BY <1>1 DEF Tr!IsListed
<1>4. QED
  BY <1>2, <1>3 DEF Tr!Listing

(* What the call for an item of the tree does, where its directory has     *)
(* been reached.                                                           *)
VisitIs(p, t, l) ==
  /\ Tr!Good(t) /\ Tr!Listing(FALSE, l) /\ (p \in Tr!Copied => Tr!Reached(t, l, p)) /\ DOMAIN v2 \subseteq DOMAIN t
  /\ \A q : Tr!Reached(v2, v8, q) => Tr!Reached(t, l, q)

LEMMA VisitRight ==
    ASSUME Tr!Sane, Tr!IsDir, v3.op # "bgfile", ~Tr!Misnamed, Tr!Good(v2), Tr!Listing(FALSE, v8),
           NEW p \in Tr!Below, v1[p] # "?", p # Tr!Top => Tr!Reached(v2, v8, Tr!Parent(p)),
           Tr!Visit(Tr!Text(p), Tr!Name(Tr!Text(p)), Tr!Kind(p)), NEW t, t = v2', NEW l, l = v8', v3' = v3
    PROVE  VisitIs(p, t, l)
<1>1. v8 \in Seq(Tr!Entries) /\ v1[p] \in {"d", "u", "-", "l"} /\ Tr!Kind(p) \in {"d", "-", "l"}
  <2>1. p \in DOMAIN v1
    BY BelowIs
  <2>2. QED
    BY <2>1, WorldIs DEF Tr!Kind, Tr!Sane
<1>2. Tr!Text(p) \in Seq(Tr!Comp) /\ Tr!Text(p) # <<>> /\ Tr!Name(Tr!Text(p)) \in Tr!Comp
  BY TextIs, ShrunkIs
<1>3. Tr!Top \in Tr!Below /\ v1[Tr!Top] = Tr!ItemKind /\ Tr!ItemKind \in {"d", "u"}
  BY TopBelow DEF Tr!IsDir
<1>4. ASSUME p # Tr!Top
      PROVE  /\ Tr!Parent(p) \in Tr!Below /\ v1[Tr!Parent(p)] = "d" /\ Tr!Name(p) \in Tr!NamesIn(v1, Tr!Parent(p)) /\ p = Append(Tr!Parent(p), Tr!Name(p))
             /\ Tr!Name(Tr!Text(p)) = Tr!Name(p) /\ Tr!Text(p) # <<".">> /\ Tr!Text(p) # <<"/">> /\ Tr!Parent(Tr!Place(p)) = Tr!Place(Tr!Parent(p))
             /\ Tr!Place(p) # <<>>
  <2>1. Tr!Parent(p) \in Tr!Below /\ v1[Tr!Parent(p)] = "d" /\ Tr!Name(p) \in Tr!NamesIn(v1, Tr!Parent(p)) /\ p = Append(Tr!Parent(p), Tr!Name(p))
    BY <1>4, ParentBelow
  <2>2. PICK d, n : d = Tr!Parent(p) /\ n = Tr!Name(p)
    OBVIOUS
  <2>3. d \in Tr!Below /\ v1[d] = "d" /\ n \in Tr!NamesIn(v1, d) /\ p = Append(d, n)
    BY <2>1, <2>2
  <2>4. Tr!Name(Tr!Text(p)) = n /\ Tr!Text(p) # <<".">> /\ Tr!Text(p) # <<"/">> /\ Tr!Parent(Tr!Place(p)) = Tr!Place(d) /\ Tr!Place(p) # <<>>
    BY <2>3, Downward
  <2>5. QED
    BY <2>1, <2>2, <2>4
<1>5. ASSUME Tr!Spooling, p # Tr!Top
      PROVE  /\ Tr!ThereDir(Tr!Text(p)) \o <<Tr!Name(Tr!Text(p))>> = Tr!Place(p)
             /\ Tr!HereDir(Tr!Text(p)) \o <<Tr!Name(Tr!Text(p))>> = p
  <2>1. PICK d, n : d = Tr!Parent(p) /\ n = Tr!Name(p)
    OBVIOUS
  <2>2. d \in Tr!Below /\ v1[d] = "d" /\ n \in Tr!NamesIn(v1, d) /\ p = Append(d, n) /\ Tr!Name(Tr!Text(p)) = n
    BY <1>4, <1>5, <2>1
  <2>3. v3.op \in {"bgget", "bgput"}
    BY <1>5 DEF Tr!Spooling
  <2>4. Tr!ThereDir(Tr!Text(p)) \o <<n>> = Tr!Place(p) /\ Tr!HereDir(Tr!Text(p)) \o <<n>> = p
    BY <1>5, <2>2, <2>3, ThereBelow, HereBelow
  <2>5. QED
    BY <2>2, <2>4
<1>6. CASE v3.op \in {"get", "put"}
  <2>1. ~Tr!Spooling /\ p \in Tr!Copied /\ t = v2
    BY <1>6 DEF Tr!Spooling, Tr!Copied, Tr!Visit
  <2>2. CASE Tr!Text(p) = <<".">>
    <3>1. l = v8
      BY <1>6, <2>1, <2>2 DEF Tr!Visit, Tr!Spooling
    <3>2. Tr!Reached(t, l, p)
      BY <2>1, <2>2 DEF Tr!Reached, Tr!Unnamed
    <3>3. QED
      BY <2>1, <3>1, <3>2 DEF VisitIs
  <2>3. CASE Tr!Text(p) # <<".">>
    <3>1. PICK e \in Tr!Entries : e = Tr!Listed(Tr!Text(p), Tr!Kind(p))
      BY <1>1, <1>2, ToldTyped
    <3>2. l = Append(v8, e)
      BY <1>6, <2>3, <3>1, <2>1 DEF Tr!Visit
    <3>3. e = Tr!ItemOf(FALSE, p)
      BY <2>1, <3>1 DEF Tr!ItemOf, Tr!WalkItem
    <3>4. p = Tr!Top \/ Tr!Unnamed(Tr!Parent(p)) \/ Tr!IsListed(FALSE, v8, Tr!Parent(p))
      BY <2>1 DEF Tr!Reached
    <3>5. Tr!Listing(FALSE, l) /\ Tr!IsListed(FALSE, l, p)
      BY <1>1, <2>1, <3>2, <3>3, <3>4, MoreListing
    <3>6. \A q : Tr!Reached(v2, v8, q) => Tr!Reached(t, l, q)
      BY <1>1, <2>1, <3>2, MoreReached
    <3>7. Tr!Reached(t, l, p)
      BY <2>1, <3>5 DEF Tr!Reached
    <3>8. QED
      BY <2>1, <3>5, <3>6, <3>7 DEF VisitIs
  <2>4. QED
    BY <2>2, <2>3
<1>7. CASE Tr!Spooling /\ Tr!Kind(p) = "-"
  <2>1. v1[p] = "-" /\ p # Tr!Top /\ p \in Tr!Copied /\ t = v2
    BY <1>1, <1>3, <1>7 DEF Tr!Kind, Tr!Copied, Tr!Visit, Tr!Spooling
  <2>2. Tr!JobFor(Tr!Text(p), Tr!Name(Tr!Text(p))) = Tr!JobOf(p)
    BY <1>5, <1>7, <2>1 DEF Tr!JobFor, Tr!JobOf
  <2>3. PICK e : e = Tr!JobOf(p)
    OBVIOUS
  <2>4. e \in Tr!Entries
    <3>1. p \in Seq(Tr!Comp) /\ Tr!Place(p) \in Seq(Tr!Comp)
      BY BelowIs, PlaceIs, NamesAreComp
    <3>2. QED
      BY <2>3, <3>1 DEF Tr!JobOf, Tr!Entries
  <2>5. l = Append(v8, e)
    BY <1>7, <2>2, <2>3 DEF Tr!Visit, Tr!Spooling
  <2>6. e = Tr!ItemOf(FALSE, p) /\ v3.op # "put"
    BY <1>7, <2>3 DEF Tr!ItemOf, Tr!WalkItem, Tr!Spooling
  <2>7. Tr!Listing(FALSE, l) /\ Tr!IsListed(FALSE, l, p)
    BY <1>1, <2>1, <2>4, <2>5, <2>6, MoreListing
  <2>8. \A q : Tr!Reached(v2, v8, q) => Tr!Reached(t, l, q)
    BY <1>1, <2>1, <2>4, <2>5, MoreReached
  <2>9. Tr!Reached(t, l, p)
    BY <2>1, <2>7 DEF Tr!Reached
  <2>10. QED
    BY <2>1, <2>7, <2>8, <2>9 DEF VisitIs
<1>8. CASE Tr!Spooling /\ Tr!Kind(p) = "d"
  <2>1. l = v8 /\ v1[p] \in {"d", "u"}
    BY <1>1, <1>8 DEF Tr!Visit, Tr!Spooling, Tr!Kind
  <2>2. Tr!Good(t) /\ DOMAIN v2 \subseteq DOMAIN t /\ Tr!Place(p) \in DOMAIN t
    <3>1. CASE Tr!Text(p) = <<"/">>
      <4>1. t = v2
        BY <1>8, <3>1 DEF Tr!Visit, Tr!Spooling
      <4>2. p = Tr!Top
        BY <1>4, <3>1
      <4>3. v3.item = <<"/">>
        BY <1>3, <1>8, <3>1, <4>2, ThereTop
      <4>4. Tr!Base = <<>> /\ Tr!Rel(p) = <<>> /\ Tr!Place(p) = TargetDir \o Tr!Base
        BY <1>3, <4>2, <4>3, MarkTop, TopPlace
      <4>5. Tr!Place(p) = TargetDir /\ TargetDir \in Seq(Tr!Names)
        BY <4>4, CompIs, ConcatEmptySeq
      <4>6. Tr!Place(p) \in Tr!Tops(TargetDir)
        BY <4>5, TopsHave
      <4>7. QED
        BY <4>1, <4>6 DEF Tr!Good
    <3>2. CASE Tr!Text(p) # <<"/">>
      <4>1. t = Tr!MkDirs(v2, Tr!Compressed(Tr!ThereDir(Tr!Text(p)) \o <<Tr!Name(Tr!Text(p))>>))
        BY <1>8, <3>2 DEF Tr!Visit, Tr!Spooling
      <4>2. Tr!Compressed(Tr!ThereDir(Tr!Text(p)) \o <<Tr!Name(Tr!Text(p))>>) = Tr!Place(p) /\ Tr!Place(p) \in Seq(Tr!Names)
        <5>0. Tr!Place(p) \in Seq(Tr!Names)
          BY PlaceIs
        <5>1. CASE p = Tr!Top
          BY <1>3, <1>8, <5>0, <5>1, ThereTop
        <5>2. CASE p # Tr!Top
          BY <1>5, <1>8, <5>0, <5>2, NamesPlain
        <5>3. QED
          BY <5>1, <5>2, <5>0
      <4>3. \A q \in Tr!Tops(Tr!Place(p)) : Tr!Right(q, <<"d">>)
        BY <1>3, <2>1, TopsRight
      <4>4. PICK d \in Seq(Tr!Names) : d = Tr!Place(p)
        BY <4>2
      <4>5. t = Tr!MkDirs(v2, d) /\ \A q \in Tr!Tops(d) : Tr!Right(q, <<"d">>)
        BY <4>1, <4>2, <4>3, <4>4
      <4>6. Tr!Good(t) /\ DOMAIN t = DOMAIN v2 \cup Tr!Tops(d) /\ d \in DOMAIN t
        BY <4>5, MakesRight
      <4>7. QED
        BY <4>4, <4>6
    <3>3. QED
      BY <3>1, <3>2
  <2>3. Tr!Reached(t, l, p)
    BY <1>8, <2>1, <2>2 DEF Tr!Reached
  <2>4. \A q : Tr!Reached(v2, v8, q) => Tr!Reached(t, l, q)
    BY <2>1, <2>2 DEF Tr!Reached
  <2>5. QED
    BY <2>1, <2>2, <2>3, <2>4 DEF VisitIs
<1>9. CASE Tr!Spooling /\ Tr!Kind(p) = "l"
  <2>1. l = v8 /\ v1[p] = "l" /\ p # Tr!Top
    BY <1>1, <1>3, <1>9 DEF Tr!Visit, Tr!Spooling, Tr!Kind
  <2>2. CASE v3.op = "bgput"
    <3>1. t = v2 /\ p \notin Tr!Copied
      BY <1>9, <2>1, <2>2 DEF Tr!Visit, Tr!Spooling, Tr!Copied
    <3>2. QED
      BY <2>1, <3>1 DEF VisitIs
  <2>3. CASE v3.op = "bgget"
    <3>1. p \in Tr!Copied
      BY <2>1, <2>3 DEF Tr!Copied
    <3>2. t = IF Tr!What(v2, Tr!Parent(Tr!Place(p))) = "d" /\ Tr!Place(p) \notin DOMAIN v2 THEN Tr!Put(v2, Tr!Place(p), <<"l">>) ELSE v2
      BY <1>5, <1>9, <2>1, <2>3 DEF Tr!Visit
    <3>3. Tr!What(v2, Tr!Parent(Tr!Place(p))) = "d"
      <4>1. Tr!Place(Tr!Parent(p)) \in DOMAIN v2
        BY <1>4, <1>9, <2>1 DEF Tr!Reached
      <4>2. QED
        BY <1>4, <2>1, <4>1, DirThere
    <3>4. Tr!Right(Tr!Place(p), <<"l">>)
      BY <2>1, <3>1, PlaceRight, ImageIs
    <3>5. Tr!Good(t) /\ DOMAIN v2 \subseteq DOMAIN t /\ Tr!Place(p) \in DOMAIN t
      <4>1. CASE Tr!Place(p) \in DOMAIN v2
        BY <3>2, <4>1
      <4>2. CASE Tr!Place(p) \notin DOMAIN v2
        <5>1. PICK d, k : d = Tr!Place(p) /\ k = <<"l">>
          OBVIOUS
        <5>2. t = Tr!Put(v2, d, k) /\ Tr!Right(d, k)
          BY <3>2, <3>3, <3>4, <4>2, <5>1
        <5>3. Tr!Good(Tr!Put(v2, d, k))
          BY <5>2, PutRight
        <5>4. DOMAIN Tr!Put(v2, d, k) = DOMAIN v2 \cup {d}
          BY <5>2, PutRight
        <5>5. QED
          BY <5>1, <5>2, <5>3, <5>4
      <4>3. QED
        BY <4>1, <4>2
    <3>6. \A q : Tr!Reached(v2, v8, q) => Tr!Reached(t, l, q)
      BY <2>1, <3>5 DEF Tr!Reached
    <3>7. Tr!Reached(t, l, p)
      BY <1>9, <2>1, <3>5 DEF Tr!Reached
    <3>8. QED
      BY <2>1, <3>5, <3>6, <3>7 DEF VisitIs
  <2>4. QED
    BY <1>9, <2>2, <2>3 DEF Tr!Spooling
<1>10. v3.op \in {"get", "put"} \/ Tr!Spooling
  BY TaskIs DEF Tr!Spooling
<1>11. QED
  BY <1>1, <1>6, <1>7, <1>8, <1>9, <1>10

LEMMA DoneSteady ==
    ASSUME UNCHANGED <<v1, v3>>, NEW t, t = v2', NEW l, l = v8', NEW o, o = v11', NEW f, f = v12',
           Tr!DoneRight(t, l, o, f)
    PROVE  Tr!DoneRight(v2, v8, v11, v12)'
<1>0. /\ v1' = v1 /\ v3' = v3 /\ Tr!Copied' = Tr!Copied /\ Tr!ItemKind' = Tr!ItemKind /\ Tr!IsDir' = Tr!IsDir /\ Tr!Spooling' = Tr!Spooling
      /\ v2' = t /\ v8' = l /\ v11' = o /\ v12' = f
  BY Steady
<1>1. CASE v3.op = "get" /\ "cwd" \in f
  BY <1>0, <1>1 DEF Tr!DoneRight
<1>2. CASE ~(v3.op = "get" /\ "cwd" \in f)
  <2>1. Tr!Good(v2)'
    BY <1>2, GoodSteady DEF Tr!DoneRight
  <2>2. (Tr!Spooling => Tr!Listing(FALSE, v8))'
    <3>1. CASE Tr!Spooling
      BY <1>2, <3>1, ListingSteady DEF Tr!DoneRight
    <3>2. CASE ~Tr!Spooling
      BY <1>0, <3>2
    <3>3. QED
      BY <3>1, <3>2
  <2>3. (v12 = {} /\ (Tr!IsDir \/ Tr!ItemKind = "-") => v11 = "ok")'
    BY <1>0, <1>2 DEF Tr!DoneRight
  <2>4. ASSUME v11' = "ok", "link" \notin v12', NEW p \in Tr!Copied
        PROVE  (IF Tr!Spooling THEN Tr!Reached(v2, v8, p) ELSE Tr!Place(p) \in DOMAIN v2)'
    <3>1. IF Tr!Spooling THEN Tr!Reached(t, l, p) ELSE Tr!Place(p) \in DOMAIN t
      BY <1>0, <1>2, <2>4 DEF Tr!DoneRight
    <3>2. Tr!Reached(t, l, p) => Tr!Reached(v2, v8, p)'
      BY ReachedSteady
    <3>3. Tr!Place(p)' = Tr!Place(p)
      BY ItemSteady
    <3>4. QED
      BY <1>0, <3>1, <3>2, <3>3
  <2>5. (v11 = "ok" /\ "link" \notin v12 => \A p \in Tr!Copied : IF Tr!Spooling THEN Tr!Reached(v2, v8, p) ELSE Tr!Place(p) \in DOMAIN v2)'
    BY <1>0, <2>4
  <2>6. QED
    BY <1>0, <1>2, <2>1, <2>2, <2>3, <2>5 DEF Tr!DoneRight
<1>3. QED
  BY <1>1, <1>2

(***************************************************************************)
(* The types and the excuses from one step to the next.                    *)
(***************************************************************************)
LEMMA SaneKept ==
    ASSUME Tr!Sane, UNCHANGED <<v1, v3>>, v5' \in Nat, v6' \in Nat, v6' >= PathSpace,
           v8' \in Seq(Tr!Entries), v4' \in Seq(Tr!Frames)
    PROVE  Tr!Sane'
  BY DEF Tr!Sane, Tr!Entries, Tr!Frames

LEMMA OddKept ==
    ASSUME UNCHANGED <<v1, v3>>, v6' = v6 \/ v6' # PathSpace, ~Tr!Odd'
    PROVE  ~Tr!Odd /\ v6' = v6
<1>1. /\ Tr!Deep' = Tr!Deep /\ Tr!Misnamed' = Tr!Misnamed /\ Tr!NamesOnly' = Tr!NamesOnly /\ Tr!Bare' = Tr!Bare /\ Tr!Unfit' = Tr!Unfit
  BY Steady
<1>2. v6' = PathSpace
  BY DEF Tr!Odd, Tr!Grew
<1>3. QED
  BY <1>1, <1>2 DEF Tr!Odd, Tr!Grew

LEMMA AllocIs == Tr!Sane => v6 \in Nat /\ v6 >= PathSpace /\ PathSpace \in Nat /\ PathSpare \in Nat /\ DepthLimit \in Nat
  BY TreeWalkAssumption DEF Tr!Sane, Tr!TrAssumption

(***************************************************************************)
(* The walk begins.                                                        *)
(***************************************************************************)
LEMMA RootIs ==
    ASSUME Tr!Sane, Tr!Top \in Tr!Below
    PROVE  /\ Tr!Text(Tr!Top) = Tr!TopText /\ Tr!TopText \in Seq(Tr!Comp) /\ Tr!TopText # <<>> /\ Tr!Name(Tr!TopText) \in Tr!Comp
           /\ Tr!From(IF v3.op = "get" THEN Tr!Top ELSE SourceDir, Tr!TopText) = Tr!Top
<1>1. Tr!Rel(Tr!Top) = <<>>
  BY TopPlace
<1>2. Tr!Text(Tr!Top) = Tr!TopText \o Tr!Rel(Tr!Top) /\ Tr!TopText \in Seq(Tr!Comp) /\ Tr!TopText # <<>> /\ Tr!From(IF v3.op = "get" THEN Tr!Top ELSE SourceDir, Tr!Text(Tr!Top)) = Tr!Top
  BY TextIs
<1>3. Tr!Text(Tr!Top) = Tr!TopText
  BY <1>1, <1>2, ConcatEmptySeq
<1>4. Tr!Name(Tr!TopText) \in Tr!Comp
  BY <1>2, ShrunkIs
<1>5. QED
  BY <1>2, <1>3, <1>4

LEMMA OpenedTyped ==
    ASSUME Tr!Sane, NEW d \in Seq(Tr!Names), NEW x \in Seq(Tr!Comp), x # <<>>
    PROVE  Tr!Opened(d, x) \in Tr!Frames
<1>1. Tr!NamesIn(v1, d) \in SUBSET Tr!Names
  BY InDir
<1>2. QED
  BY <1>1 DEF Tr!Opened, Tr!Frames

LEMMA BeginTyped ==
    ASSUME Tr!Sane, Tr!Closed(v2), Tr!Top \in Tr!Below, v7' = (IF v3.op = "get" THEN Tr!Top ELSE SourceDir), Tr!BeginWalk(Tr!TopText),
           UNCHANGED <<v1, v3>>
    PROVE  /\ v8' \in Seq(Tr!Entries) /\ Tr!Closed(v2') /\ Len(v8') >= Len(v8) /\ v6' = v6 /\ v5' \in Nat
           /\ v4' \in Seq(Tr!Frames) /\ Len(v4') <= 1 /\ v5' >= Len(v4') /\ v9' = "walk"
<1>1. /\ Tr!Text(Tr!Top) = Tr!TopText /\ Tr!TopText \in Seq(Tr!Comp) /\ Tr!TopText # <<>> /\ Tr!Name(Tr!TopText) \in Tr!Comp
      /\ Tr!From(IF v3.op = "get" THEN Tr!Top ELSE SourceDir, Tr!TopText) = Tr!Top
  BY RootIs
<1>2. /\ v4' = (IF Tr!Opens(Tr!Top) THEN <<Tr!Opened(Tr!Top, Tr!TopText)>> ELSE <<>>)
      /\ v5' = (IF Tr!Opens(Tr!Top) THEN 1 ELSE 0)
      /\ v9' = "walk" /\ Tr!Visit(Tr!TopText, Tr!Name(Tr!TopText), "d") /\ v6' = v6
  BY <1>1 DEF Tr!BeginWalk
<1>3. v8' \in Seq(Tr!Entries) /\ Tr!Closed(v2') /\ Len(v8') >= Len(v8)
  BY <1>1, <1>2, VisitTyped
<1>4. Tr!Opened(Tr!Top, Tr!TopText) \in Tr!Frames
  BY <1>1, TopIs, OpenedTyped
<1>5. PICK f \in Tr!Frames : f = Tr!Opened(Tr!Top, Tr!TopText)
  BY <1>4
<1>6. (v4' = <<f>> /\ v5' = 1) \/ (v4' = <<>> /\ v5' = 0)
  BY <1>2, <1>5
<1>7. QED
  BY <1>2, <1>3, <1>6

LEMMA FreshRight == ASSUME Tr!Fresh PROVE Tr!Good(v2)
<1>1. DOMAIN v2 = Tr!Tops(TargetDir) /\ \A q \in DOMAIN v2 : v2[q] = <<"d">>
  BY DEF Tr!Fresh
<1>2. QED
  BY <1>1 DEF Tr!Good, Tr!Right

LEMMA NoneListed == ASSUME NEW w PROVE Tr!Listing(w, <<>>)
<1>1. DOMAIN <<>> = {}
  OBVIOUS
<1>2. QED
  BY <1>1 DEF Tr!Listing

LEMMA OpensIs ==
    ASSUME Tr!Sane, NEW q \in Tr!Below, NEW p \in Tr!Below, Tr!Within(q, p), p # q
    PROVE  Tr!Opens(q) /\ v1[q] = "d" /\ \E m \in Tr!NamesIn(v1, q) : Tr!Within(Append(q, m), p)
<1>1. v1[q] = "d" /\ \E m \in Tr!NamesIn(v1, q) : Tr!Within(Append(q, m), p)
  BY NextBelow
<1>2. q \in DOMAIN v1
  BY BelowIs
<1>3. QED
  BY <1>1, <1>2 DEF Tr!Opens, Tr!KindOf

(* A directory that is opened is a frame that is right, and what is in it  *)
(* is ahead.                                                               *)
LEMMA OpenedRight ==
    ASSUME Tr!Sane, NEW d \in Tr!Below, Tr!Opens(d), NEW n, Len(d) = Len(Tr!Top) + n, NEW t, NEW l, Tr!Reached(t, l, d), NEW f, f = Tr!Opened(d, Tr!Text(d))
    PROVE  /\ Tr!FrameRight(t, l, f, n)
           /\ \A p \in Tr!Below : Tr!Within(d, p) /\ p # d => Tr!Waits(f, p)
           /\ Tr!Remote => \E p \in Tr!Below : Len(p) = Len(d) + 1
<1>1. v1[d] = "d" /\ (Tr!Remote => Tr!NamesIn(v1, d) # {})
  BY DEF Tr!Opens, Tr!KindOf
<1>2. f.dir = d /\ f.text = Tr!Text(d) /\ f.left = Tr!NamesIn(v1, d) /\ f.subs = <<>> /\ f.grown = FALSE
  BY DEF Tr!Opened
<1>3. Tr!Members(f.subs) = {}
  BY <1>2 DEF Tr!Members
<1>4. Tr!FrameRight(t, l, f, n)
  BY <1>1, <1>2, <1>3 DEF Tr!FrameRight
<1>5. ASSUME NEW p \in Tr!Below, Tr!Within(d, p), p # d PROVE Tr!Waits(f, p)
  <2>1. PICK m \in Tr!NamesIn(v1, d) : Tr!Within(Append(d, m), p)
    BY <1>5, OpensIs
  <2>2. QED
    BY <1>2, <2>1 DEF Tr!Waits
<1>6. ASSUME Tr!Remote PROVE \E p \in Tr!Below : Len(p) = Len(d) + 1
  <2>1. PICK m \in Tr!NamesIn(v1, d) : TRUE
    BY <1>1, <1>6
  <2>2. Append(d, m) \in Tr!Below /\ m \in Tr!Names /\ d \in Seq(Tr!Names)
    BY <1>1, ChildBelow, BelowIs
  <2>3. Len(Append(d, m)) = Len(d) + 1
    BY <2>2, GrownIs
  <2>4. QED
    BY <2>2, <2>3
<1>7. QED
  BY <1>4, <1>5, <1>6

LEMMA BeginRight ==
    ASSUME Tr!Sane, Tr!IsDir, v3.op # "bgfile", ~Tr!Odd, Tr!Fresh, v8 = <<>>, v7' = (IF v3.op = "get" THEN Tr!Top ELSE SourceDir),
           Tr!BeginWalk(Tr!TopText), UNCHANGED <<v1, v3>>, NEW t, t = v2', NEW l, l = v8', NEW s, s = v4', NEW d, d = v5'
    PROVE  Tr!WalkRight(t, l, s, d)
<1>1. Tr!Top \in Tr!Below /\ v1[Tr!Top] = Tr!ItemKind /\ Tr!ItemKind \in {"d", "u"}
  BY TopBelow DEF Tr!IsDir
<1>2. /\ Tr!Text(Tr!Top) = Tr!TopText /\ Tr!TopText \in Seq(Tr!Comp) /\ Tr!TopText # <<>> /\ Tr!Name(Tr!TopText) \in Tr!Comp
      /\ Tr!From(IF v3.op = "get" THEN Tr!Top ELSE SourceDir, Tr!TopText) = Tr!Top
  BY <1>1, RootIs
<1>3. /\ s = (IF Tr!Opens(Tr!Top) THEN <<Tr!Opened(Tr!Top, Tr!TopText)>> ELSE <<>>)
      /\ d = (IF Tr!Opens(Tr!Top) THEN 1 ELSE 0) /\ Tr!Visit(Tr!TopText, Tr!Name(Tr!TopText), "d")
  BY <1>2 DEF Tr!BeginWalk
<1>4. Tr!Kind(Tr!Top) = "d" /\ Tr!Top \in Tr!Copied /\ Len(Tr!Top) \in Nat /\ Len(Tr!Top) = Len(Tr!Top) + 0
  BY <1>1, ImageIs, DirCopied, TopIs
<1>5. Tr!Good(v2) /\ Tr!Listing(FALSE, v8)
  BY FreshRight, NoneListed
<1>6. VisitIs(Tr!Top, t, l)
  BY <1>1, <1>2, <1>3, <1>4, <1>5, VisitRight DEF Tr!Odd
<1>7. Tr!Good(t) /\ Tr!Listing(FALSE, l) /\ Tr!Reached(t, l, Tr!Top)
  BY <1>4, <1>6 DEF VisitIs
<1>8. CASE Tr!Opens(Tr!Top)
  <2>1. PICK f : f = Tr!Opened(Tr!Top, Tr!Text(Tr!Top))
    OBVIOUS
  <2>2. s = <<f>> /\ d = 1
    BY <1>2, <1>3, <1>8, <2>1
  <2>3. Len(s) = 1 /\ DOMAIN s = {1} /\ s[1] = f
    BY <2>2
  <2>4. /\ Tr!FrameRight(t, l, f, 0)
        /\ \A p \in Tr!Below : Tr!Within(Tr!Top, p) /\ p # Tr!Top => Tr!Waits(f, p)
        /\ Tr!Remote => \E p \in Tr!Below : Len(p) = Len(Tr!Top) + 1
    BY <1>1, <1>4, <1>7, <1>8, <2>1, OpenedRight
  <2>5. \A i \in DOMAIN s : Tr!FrameRight(t, l, s[i], Len(s) - i)
    BY <2>3, <2>4
  <2>6. Tr!Remote /\ d > 0 => \E p \in Tr!Below : Len(p) >= Len(Tr!Top) + d
    <3>1. ASSUME NEW p \in Tr!Below, Len(p) = Len(Tr!Top) + 1 PROVE Len(p) >= Len(Tr!Top) + d
      BY <1>4, <2>2, <3>1
    <3>2. QED
      BY <2>4, <3>1
  <2>7. ASSUME NEW p \in Tr!Copied PROVE Tr!Reached(t, l, p) \/ Tr!Ahead(s, p)
    <3>1. p \in Tr!Below /\ Tr!Within(Tr!Top, p)
      BY CopyNameIs, BelowIs
    <3>2. p = Tr!Top \/ Tr!Waits(f, p)
      BY <2>4, <3>1
    <3>3. QED
      BY <1>7, <2>3, <3>2 DEF Tr!Ahead
  <2>8. QED
    BY <1>7, <2>5, <2>6, <2>7 DEF Tr!WalkRight
<1>9. CASE ~Tr!Opens(Tr!Top)
  <2>1. s = <<>> /\ d = 0 /\ DOMAIN s = {}
    BY <1>3, <1>9
  <2>2. ASSUME NEW p \in Tr!Copied PROVE p = Tr!Top
    <3>1. p \in Tr!Below /\ Tr!Within(Tr!Top, p)
      BY CopyNameIs, BelowIs
    <3>2. QED
      BY <1>1, <1>9, <3>1, OpensIs
  <2>3. \A i \in DOMAIN s : Tr!FrameRight(t, l, s[i], Len(s) - i)
    BY <2>1
  <2>4. ~(d > 0)
    BY <2>1
  <2>5. \A p \in Tr!Copied : Tr!Reached(t, l, p) \/ Tr!Ahead(s, p)
    BY <1>7, <2>2
  <2>6. QED
    BY <1>7, <2>3, <2>4, <2>5 DEF Tr!WalkRight
<1>10. QED
  BY <1>8, <1>9

LEMMA AtStart ==
    ASSUME Tr!TrInv, v9 = "start"
    PROVE  /\ Tr!Sane /\ Tr!Closed(v2) /\ Tr!Fresh /\ Tr!Good(v2) /\ v8 = <<>> /\ v4 = <<>> /\ v7 = SourceDir
           /\ v2 = [q \in Tr!Tops(TargetDir) |-> <<"d">>] /\ v12 = {} /\ v11 = "ok" /\ v10 = 1
           /\ v5 \in Nat /\ v6 \in Nat /\ v6 >= PathSpace /\ v8 \in Seq(Tr!Entries) /\ v4 \in Seq(Tr!Frames)
<1>1. Tr!Fresh
  BY DEF Tr!TrInv, Tr!StartInv
<1>2. QED
  BY <1>1, FreshRight DEF Tr!TrInv, Tr!TrTypeOK, Tr!StartInv, Tr!Sane, Tr!Fresh

LEMMA WalkBegun ==
    ASSUME Tr!TrInv, v9 = "start", Tr!IsDir, v3.op # "bgfile", v7' = (IF v3.op = "get" THEN Tr!Top ELSE SourceDir),
           Tr!BeginWalk(Tr!TopText), UNCHANGED <<v1, v3, v10, v11, v12>>
    PROVE  Tr!TrInv'
<1>1. /\ Tr!Sane /\ Tr!Closed(v2) /\ Tr!Fresh /\ v8 = <<>> /\ v4 = <<>>
      /\ v12 = {} /\ v11 = "ok" /\ v10 = 1 /\ v5 \in Nat /\ v6 \in Nat /\ v6 >= PathSpace
  BY AtStart
<1>2. Tr!Top \in Tr!Below
  BY <1>1, TopBelow DEF Tr!IsDir
<1>3. /\ v8' \in Seq(Tr!Entries) /\ Tr!Closed(v2') /\ Len(v8') >= Len(v8) /\ v6' = v6 /\ v5' \in Nat
      /\ v4' \in Seq(Tr!Frames) /\ Len(v4') <= 1 /\ v5' >= Len(v4') /\ v9' = "walk"
  BY <1>1, <1>2, BeginTyped
<1>4. Tr!Sane'
  BY <1>1, <1>3, SaneKept
<1>5. Tr!TrTypeOK'
  <2>1. PICK m, s, c : m = v8' /\ s = v4' /\ c = v2'
    OBVIOUS
  <2>2. m \in Seq(Tr!Entries) /\ s \in Seq(Tr!Frames) /\ Len(s) <= 1
    BY <1>3, <2>1
  <2>3. 1 \in 1..(Len(m) + 1) /\ (1..(Len(s) - 1)) = {}
    BY <2>2
  <2>4. Tr!Closed(v2)'
    BY <1>3 DEF Tr!Closed, Tr!What
  <2>5. QED
    BY <1>1, <1>3, <2>1, <2>3, <2>4 DEF Tr!TrTypeOK
<1>6. Tr!WalkInv'
  <2>1. SUFFICES ASSUME ~Tr!Odd' PROVE Tr!WalkInv'
    BY DEF Tr!WalkInv
  <2>2. ~Tr!Odd
    BY <1>3, <2>1, OddKept
  <2>3. PICK t, l, s, d : t = v2' /\ l = v8' /\ s = v4' /\ d = v5'
    OBVIOUS
  <2>4. Tr!WalkRight(t, l, s, d)
    BY <1>1, <2>2, <2>3, BeginRight
  <2>5. Tr!WalkRight(v2, v8, v4, v5)'
    BY <2>3, <2>4, WalkSteady
  <2>6. (Tr!IsDir /\ v3.op # "bgfile" /\ v7 = (IF v3.op = "get" THEN Tr!Top ELSE SourceDir) /\ v12 = {} /\ v11 = "ok" /\ v10 = 1)'
    BY <1>1, Steady
  <2>7. QED
    BY <2>5, <2>6 DEF Tr!WalkInv
<1>7. QED
  BY <1>3, <1>4, <1>5, <1>6 DEF Tr!TrInv, Tr!StartInv, Tr!AbortedInv, Tr!ListedInv, Tr!WorkInv, Tr!DoneInv

LEMMA PlainTyped ==
    ASSUME NEW a \in Seq(Tr!Comp), NEW b \in Seq(Tr!Comp)
    PROVE  /\ Tr!Plain(a, b) \in Seq(Tr!Entries) /\ Len(Tr!Plain(a, b)) = 1 /\ Tr!Plain(a, b) # <<>>
           /\ Tr!Plain(a, b)[1] = [kind |-> "-", from |-> a, to |-> b] /\ DOMAIN Tr!Plain(a, b) = {1}
<1>1. PICK e : e = [kind |-> "-", from |-> a, to |-> b]
  OBVIOUS
<1>2. e \in Tr!Entries
  BY <1>1 DEF Tr!Entries
<1>3. Tr!Plain(a, b) = <<e>>
  BY <1>1 DEF Tr!Plain
<1>4. <<e>> \in Seq(Tr!Entries) /\ Len(<<e>>) = 1 /\ <<e>>[1] = e /\ <<e>> # <<>> /\ DOMAIN <<e>> = {1}
  BY <1>2
<1>5. QED
  BY <1>1, <1>3, <1>4

LEMMA PathsTyped ==
    ASSUME Tr!Sane
    PROVE  /\ v3.item \in Seq(Tr!Comp) /\ Tr!Base \in Seq(Tr!Comp) /\ TargetDir \o Tr!Base \in Seq(Tr!Comp) /\ Tr!NoName \in Seq(Tr!Comp)
           /\ TargetDir \o Tr!Base \o Tr!Compressed(v3.item) \in Seq(Tr!Comp) /\ Tr!From(SourceDir, v3.item) \in Seq(Tr!Comp)
<1>1. v3.item \in Seq(Tr!Comp) /\ Tr!Compressed(v3.item) \in Seq(Tr!Names) /\ Tr!Base \in Seq(Tr!Names) /\ TargetDir \in Seq(Tr!Names) /\ Tr!Top \in Seq(Tr!Names)
  BY TaskIs, ItemNames, BaseIs, CompIs, TopIs
<1>2. TargetDir \o Tr!Base \in Seq(Tr!Names)
  BY <1>1, ConcatProperties
<1>3. (TargetDir \o Tr!Base) \o Tr!Compressed(v3.item) \in Seq(Tr!Names)
  BY <1>1, <1>2, ConcatProperties
<1>4. "none" \in Tr!Comp
  BY CompIs
<1>5. Tr!NoName \in Seq(Tr!Comp)
  BY <1>4 DEF Tr!NoName
<1>6. QED
  BY <1>1, <1>2, <1>3, <1>5, NamesAreComp DEF Tr!Top

(* A call that has not walked: its types.                                  *)
LEMMA NotWalked ==
    ASSUME Tr!TrInv, v9 = "start", UNCHANGED <<v1, v3, v4, v5, v6, v10, v2>>,
           v9' \in {"listed", "work", "done", "wild"}, v11' \in {"ok", "bad"}, v8' \in Seq(Tr!Entries)
    PROVE  Tr!Sane' /\ Tr!TrTypeOK' /\ Tr!Good(v2)'
<1>1. /\ Tr!Sane /\ Tr!Closed(v2) /\ Tr!Good(v2) /\ v8 = <<>> /\ v4 = <<>> /\ v10 = 1
      /\ v5 \in Nat /\ v6 \in Nat /\ v6 >= PathSpace /\ v4 \in Seq(Tr!Frames)
  BY AtStart
<1>2. Tr!Sane'
  BY <1>1, SaneKept
<1>3. Tr!Closed(v2)'
  BY <1>1 DEF Tr!Closed, Tr!What
<1>4. PICK m \in Seq(Tr!Entries) : m = v8'
  OBVIOUS
<1>5. 1 \in 1..(Len(m) + 1)
  OBVIOUS
<1>6. v4' = <<>> /\ v5' \in Nat
  BY <1>1
<1>7. Tr!TrTypeOK'
  <2>1. (\A i \in 1..(Len(v4) - 1) : Tr!Within(v4[i + 1].dir, v4[i].dir))'
    BY <1>6
  <2>2. QED
    BY <1>1, <1>3, <1>4, <1>5, <1>6, <2>1 DEF Tr!TrTypeOK
<1>8. Tr!Good(v2)'
  BY <1>1, GoodSteady
<1>9. QED
  BY <1>2, <1>7, <1>8

LEMMA GetTreeStep == ASSUME Tr!TrInv, Tr!GetTree PROVE Tr!TrInv'
<1>1. /\ Tr!Sane /\ v8 = <<>> /\ v4 = <<>> /\ v7 = SourceDir /\ v12 = {} /\ v11 = "ok" /\ v10 = 1
      /\ v2 = [q \in Tr!Tops(TargetDir) |-> <<"d">>] /\ v8 \in Seq(Tr!Entries)
  BY AtStart DEF Tr!GetTree
<1>2. v9 = "start" /\ v3.op = "get" /\ Tr!IsDir /\ UNCHANGED <<v1, v3>> /\ v11' = v11
  BY DEF Tr!GetTree, Tr!Steps
<1>3. CASE v12' = v12 /\ v7' = Tr!From(SourceDir, v3.item) /\ Tr!BeginWalk(<<".">>) /\ v10' = v10
  <2>1. Tr!TopText = <<".">> /\ v7' = (IF v3.op = "get" THEN Tr!Top ELSE SourceDir) /\ v3.op # "bgfile"
    BY <1>2, <1>3 DEF Tr!TopText, Tr!Top
  <2>2. Tr!BeginWalk(Tr!TopText)
    BY <1>3, <2>1
  <2>3. UNCHANGED <<v1, v3, v10, v11, v12>>
    BY <1>2, <1>3
  <2>4. QED
    BY <1>2, <2>1, <2>2, <2>3, WalkBegun
<1>4. CASE v9' = "wild" /\ UNCHANGED <<v4, v5, v6, v7, v8, v10, v2>>
  <2>1. UNCHANGED <<v1, v3, v4, v5, v6, v10, v2>> /\ v8' \in Seq(Tr!Entries) /\ v11' \in {"ok", "bad"}
    BY <1>1, <1>2, <1>4
  <2>2. Tr!Sane' /\ Tr!TrTypeOK'
    BY <1>2, <1>4, <2>1, NotWalked
  <2>3. QED
    BY <1>4, <2>2 DEF Tr!TrInv, Tr!StartInv, Tr!WalkInv, Tr!AbortedInv, Tr!ListedInv, Tr!WorkInv, Tr!DoneInv
<1>5. CASE /\ v12' = v12 \cup {"cwd"} /\ v9' = "work" /\ v8' = Tr!Plain(Tr!NoName, TargetDir \o Tr!Base \o Tr!Compressed(v3.item))
           /\ UNCHANGED <<v4, v5, v6, v7, v10, v2>>
  <2>1. PICK b \in Seq(Tr!Comp) : b = TargetDir \o Tr!Base \o Tr!Compressed(v3.item)
    BY <1>1, PathsTyped
  <2>2. Tr!NoName \in Seq(Tr!Comp)
    BY <1>1, PathsTyped
  <2>3. PICK l \in Seq(Tr!Entries) : l = Tr!Plain(Tr!NoName, b)
    BY <2>2, PlainTyped
  <2>4. v8' = l /\ Len(l) = 1 /\ l[1] = [kind |-> "-", from |-> Tr!NoName, to |-> b]
    BY <1>5, <2>1, <2>2, <2>3, PlainTyped
  <2>5. Tr!Sane' /\ Tr!TrTypeOK'
    BY <1>1, <1>2, <1>5, <2>4, NotWalked
  <2>6. l[1].kind = "-" /\ l[1].from = Tr!NoName
    BY <2>4
  <2>7. Tr!Astray(v2, v8, v10, v11)'
    <3>1. \A q \in DOMAIN v2 : v2[q] = <<"d">>
      BY <1>1
    <3>2. v10' = 1 /\ v2' = v2
      BY <1>1, <1>5
    <3>3. QED
      BY <1>2, <2>4, <2>6, <3>1, <3>2 DEF Tr!Astray
  <2>8. Tr!WorkInv'
    BY <1>1, <1>2, <1>5, <2>7 DEF Tr!WorkInv
  <2>9. QED
    BY <1>5, <2>5, <2>8 DEF Tr!TrInv, Tr!StartInv, Tr!WalkInv, Tr!AbortedInv, Tr!ListedInv, Tr!DoneInv
<1>6. QED
  BY <1>2, <1>3, <1>4, <1>5 DEF Tr!GetTree, Tr!Untroubled, Tr!Happens, Tr!walkvars, Tr!workvars

LEMMA GetFileStep == ASSUME Tr!TrInv, Tr!GetFile PROVE Tr!TrInv'
<1>1. /\ Tr!Sane /\ v8 = <<>> /\ v7 = SourceDir /\ v12 = {} /\ v11 = "ok" /\ v10 = 1 /\ Tr!Good(v2)
  BY AtStart DEF Tr!GetFile
<1>2. /\ v9 = "start" /\ v3.op = "get" /\ ~Tr!IsDir /\ UNCHANGED <<v1, v3>> /\ v9' = "work"
      /\ v8' = Tr!Plain(v3.item, TargetDir \o Tr!Base) /\ UNCHANGED <<v4, v5, v6, v7, v10, v2, v11, v12>>
  BY DEF Tr!GetFile, Tr!Steps, Tr!Untroubled, Tr!walkvars
<1>3. PICK a \in Seq(Tr!Comp), b \in Seq(Tr!Comp) : a = v3.item /\ b = TargetDir \o Tr!Base
  BY <1>1, PathsTyped
<1>4. v8' \in Seq(Tr!Entries)
  BY <1>2, <1>3, PlainTyped
<1>5. Tr!Sane' /\ Tr!TrTypeOK'
  BY <1>1, <1>2, <1>4, NotWalked
<1>7. PICK t, l : t = v2' /\ l = v8'
  OBVIOUS
<1>8. Tr!OnCourse(t, l, 1, "ok", {})
  <2>1. Tr!Good(t) /\ l = Tr!Plain(v3.item, TargetDir \o Tr!Base)
    BY <1>1, <1>2, <1>7
  <2>2. \A i \in 1..(1 - 1) : Tr!Achieved(t, l[i])
    OBVIOUS
  <2>3. QED
    BY <1>2, <2>1, <2>2 DEF Tr!OnCourse
<1>9. v10' = 1 /\ v11' = "ok" /\ v12' = {}
  BY <1>1, <1>2
<1>10. Tr!OnCourse(v2, v8, v10, v11, v12)'
  BY <1>2, <1>7, <1>8, <1>9, CourseSteady
<1>11. Tr!WorkInv'
  BY <1>1, <1>2, <1>9, <1>10 DEF Tr!WorkInv
<1>12. QED
  BY <1>2, <1>5, <1>11 DEF Tr!TrInv, Tr!StartInv, Tr!WalkInv, Tr!AbortedInv, Tr!ListedInv, Tr!DoneInv

LEMMA PutTreeStep == ASSUME Tr!TrInv, Tr!PutTree PROVE Tr!TrInv'
<1>1. /\ Tr!Sane /\ v8 = <<>> /\ v7 = SourceDir /\ v12 = {} /\ v11 = "ok" /\ v10 = 1 /\ Tr!Good(v2) /\ v8 \in Seq(Tr!Entries)
      /\ v2 = [q \in Tr!Tops(TargetDir) |-> <<"d">>]
  BY AtStart DEF Tr!PutTree
<1>2. v9 = "start" /\ v3.op = "put" /\ UNCHANGED <<v1, v3>> /\ v10' = v10 /\ v12' = v12
  BY DEF Tr!PutTree, Tr!Steps, Tr!Untroubled
<1>3. CASE Tr!IsDir /\ v7' = v7 /\ Tr!BeginWalk(v3.item) /\ v11' = v11
  <2>1. Tr!TopText = v3.item /\ v7' = (IF v3.op = "get" THEN Tr!Top ELSE SourceDir) /\ v3.op # "bgfile"
    BY <1>1, <1>2, <1>3 DEF Tr!TopText
  <2>2. Tr!BeginWalk(Tr!TopText)
    BY <1>3, <2>1
  <2>3. UNCHANGED <<v1, v3, v10, v11, v12>>
    BY <1>2, <1>3
  <2>4. QED
    BY <1>2, <1>3, <2>1, <2>2, <2>3, WalkBegun
<1>4. CASE /\ Tr!ItemKind \in {"-", "?"} /\ v8' = Tr!Plain(v3.item, Tr!Base) /\ v9' = "listed"
           /\ UNCHANGED <<v4, v5, v6, v7, v2, v11>>
  <2>1. PICK a \in Seq(Tr!Comp), b \in Seq(Tr!Comp) : a = v3.item /\ b = Tr!Base
    BY <1>1, PathsTyped
  <2>2. v8' \in Seq(Tr!Entries)
    BY <1>4, <2>1, PlainTyped
  <2>3. Tr!Sane' /\ Tr!TrTypeOK'
    BY <1>1, <1>2, <1>4, <2>2, NotWalked
  <2>4. Tr!ItemKind' = Tr!ItemKind /\ Tr!IsDir' = Tr!IsDir /\ Tr!Base' = Tr!Base
    BY <1>2, Steady
  <2>5. ~Tr!IsDir
    BY <1>4 DEF Tr!IsDir
  <2>6. Tr!Fresh'
    BY <1>1, <1>2, <1>4 DEF Tr!Fresh
  <2>7. (v8 = Tr!Plain(v3.item, Tr!Base))'
    BY <1>2, <1>4, <2>4 DEF Tr!Plain
  <2>8. Tr!ListedInv'
    BY <1>1, <1>2, <1>4, <2>4, <2>5, <2>6, <2>7 DEF Tr!ListedInv
  <2>9. QED
    BY <1>4, <2>3, <2>8 DEF Tr!TrInv, Tr!StartInv, Tr!WalkInv, Tr!AbortedInv, Tr!WorkInv, Tr!DoneInv
<1>5. CASE /\ Tr!ItemKind \in {"l", "none"} /\ v9' = "done" /\ v11' = "bad"
           /\ UNCHANGED <<v4, v5, v6, v7, v8, v2>>
  <2>1. Tr!Sane' /\ Tr!TrTypeOK'
    BY <1>1, <1>2, <1>5, NotWalked
  <2>2. PICK t, l : t = v2' /\ l = v8'
    OBVIOUS
  <2>3. Tr!DoneRight(t, l, "bad", {})
    BY <1>1, <1>2, <1>5, <2>2 DEF Tr!DoneRight, Tr!IsDir, Tr!Spooling
  <2>4. v11' = "bad" /\ v12' = {}
    BY <1>1, <1>2, <1>5
  <2>5. Tr!DoneRight(v2, v8, v11, v12)'
    BY <1>2, <2>2, <2>3, <2>4, DoneSteady
  <2>6. QED
    BY <1>5, <2>1, <2>5 DEF Tr!TrInv, Tr!StartInv, Tr!WalkInv, Tr!AbortedInv, Tr!ListedInv, Tr!WorkInv, Tr!DoneInv
<1>6. QED
  BY <1>3, <1>4, <1>5 DEF Tr!PutTree, Tr!walkvars

LEMMA SpoolTreeStep == ASSUME Tr!TrInv, Tr!SpoolTree PROVE Tr!TrInv'
<1>1. Tr!Sane /\ v7 = SourceDir /\ v8 \in Seq(Tr!Entries)
  BY AtStart DEF Tr!SpoolTree
<1>2. v9 = "start" /\ v3.op \in {"bgget", "bgput"} /\ UNCHANGED <<v1, v3>> /\ v12' = v12 /\ v7' = v7 /\ v10' = v10
  BY DEF Tr!SpoolTree, Tr!Steps, Tr!Untroubled
<1>3. CASE Tr!IsDir /\ Tr!BeginWalk(v3.item) /\ v11' = v11
  <2>1. Tr!TopText = v3.item /\ v7' = (IF v3.op = "get" THEN Tr!Top ELSE SourceDir) /\ v3.op # "bgfile"
    BY <1>1, <1>2 DEF Tr!TopText
  <2>2. Tr!BeginWalk(Tr!TopText)
    BY <1>3, <2>1
  <2>3. UNCHANGED <<v1, v3, v10, v11, v12>>
    BY <1>2, <1>3
  <2>4. QED
    BY <1>2, <1>3, <2>1, <2>2, <2>3, WalkBegun
<1>4. CASE ~Tr!IsDir /\ v9' = "done" /\ v11' = "bad" /\ UNCHANGED <<v4, v5, v6, v8, v2>>
  <2>1. Tr!Sane' /\ Tr!TrTypeOK'
    BY <1>1, <1>2, <1>4, NotWalked
  <2>2. Tr!Unfit
    BY <1>2, <1>4 DEF Tr!Unfit, Tr!Spooling
  <2>3. Tr!Odd'
    BY <1>2, <2>2, Steady DEF Tr!Odd
  <2>4. QED
    BY <1>4, <2>1, <2>3 DEF Tr!TrInv, Tr!StartInv, Tr!WalkInv, Tr!AbortedInv, Tr!ListedInv, Tr!WorkInv, Tr!DoneInv
<1>5. QED
  BY <1>3, <1>4 DEF Tr!SpoolTree, Tr!walkvars

LEMMA SpoolFileStep == ASSUME Tr!TrInv, Tr!SpoolFile PROVE Tr!TrInv'
<1>1. /\ Tr!Sane /\ v7 = SourceDir /\ v12 = {} /\ v11 = "ok" /\ v10 = 1 /\ Tr!Good(v2)
  BY AtStart DEF Tr!SpoolFile
<1>2. /\ v9 = "start" /\ v3.op = "bgfile" /\ UNCHANGED <<v1, v3>> /\ v9' = "done"
      /\ v8' = Tr!Plain(Tr!From(SourceDir, v3.item), TargetDir \o Tr!Base) /\ UNCHANGED <<v4, v5, v6, v7, v10, v2, v11, v12>>
  BY DEF Tr!SpoolFile, Tr!Steps, Tr!Untroubled, Tr!walkvars
<1>3. PICK a \in Seq(Tr!Comp), b \in Seq(Tr!Comp) : a = Tr!Top /\ b = TargetDir \o Tr!Base
  BY <1>1, PathsTyped DEF Tr!Top
<1>4. PICK l \in Seq(Tr!Entries) : l = Tr!Plain(a, b)
  BY <1>3, PlainTyped
<1>5. v8' = l /\ DOMAIN l = {1} /\ l[1] = [kind |-> "-", from |-> a, to |-> b]
  BY <1>2, <1>3, <1>4, PlainTyped DEF Tr!Top
<1>6. Tr!Sane' /\ Tr!TrTypeOK'
  BY <1>1, <1>2, <1>5, NotWalked
<1>7. ASSUME ~Tr!Odd' PROVE Tr!DoneRight(v2, v8, v11, v12)'
  <2>1. ~Tr!Unfit
    BY <1>2, <1>7, Steady DEF Tr!Odd
  <2>2. Tr!Spooling /\ Tr!ItemKind = "-"
    BY <1>2, <2>1 DEF Tr!Unfit, Tr!Spooling
  <2>3. Tr!Top \in Tr!Below /\ v1[Tr!Top] = "-"
    BY <1>1, <2>2, TopBelow
  <2>4. Tr!Top \in Tr!Copied
    BY <2>3 DEF Tr!Copied
  <2>5. Tr!Place(Tr!Top) = TargetDir \o Tr!Base
    BY <1>1, <2>3, TopPlace
  <2>6. l[1] = Tr!ItemOf(FALSE, Tr!Top)
    BY <1>3, <1>5, <2>2, <2>5 DEF Tr!ItemOf, Tr!WalkItem, Tr!JobOf
  <2>7. \A i : Tr!Follows(FALSE, l, Tr!Top, i)
    BY DEF Tr!Follows
  <2>8. Tr!Listing(FALSE, l)
    BY <1>5, <2>3, <2>4, <2>6, <2>7 DEF Tr!Listing
  <2>9. \A p \in Tr!Copied : p = Tr!Top
    <3>1. ASSUME NEW p \in Tr!Copied PROVE p = Tr!Top
      <4>1. p \in Tr!Below /\ Tr!Within(Tr!Top, p)
        BY <1>1, CopyNameIs, BelowIs
      <4>2. QED
        BY <1>1, <2>3, <4>1, NextBelow
    <3>2. QED
      BY <3>1
  <2>10. PICK t : t = v2'
    OBVIOUS
  <2>11. Tr!Reached(t, l, Tr!Top)
    BY <1>5, <2>3, <2>6 DEF Tr!Reached, Tr!IsListed
  <2>12. Tr!DoneRight(t, l, "ok", {})
    BY <1>1, <1>2, <2>2, <2>8, <2>9, <2>10, <2>11 DEF Tr!DoneRight
  <2>13. v11' = "ok" /\ v12' = {}
    BY <1>1, <1>2
  <2>14. QED
    BY <1>2, <1>5, <2>10, <2>12, <2>13, DoneSteady
<1>8. QED
  BY <1>2, <1>6, <1>7 DEF Tr!TrInv, Tr!StartInv, Tr!WalkInv, Tr!AbortedInv, Tr!ListedInv, Tr!WorkInv, Tr!DoneInv

(***************************************************************************)
(* The frames.                                                             *)
(***************************************************************************)
Chained(s) == \A i \in 1..(Len(s) - 1) : Tr!Within(s[i + 1].dir, s[i].dir)

LEMMA FrontFrame ==
    ASSUME NEW S, NEW s \in Seq(S), s # <<>>
    PROVE  /\ Head(s) = s[1] /\ Head(s) \in S /\ Len(s) \in Nat /\ Len(s) >= 1 /\ DOMAIN s = 1..Len(s)
           /\ Tail(s) \in Seq(S) /\ Len(Tail(s)) = Len(s) - 1 /\ DOMAIN Tail(s) = 1..(Len(s) - 1)
           /\ \A i \in 1..(Len(s) - 1) : Tail(s)[i] = s[i + 1]
  OBVIOUS

LEMMA Pushed ==
    ASSUME NEW S, NEW s \in Seq(S), NEW f \in S, NEW u, u = <<f>> \o s
    PROVE  /\ u \in Seq(S) /\ Len(u) = Len(s) + 1 /\ u[1] = f /\ DOMAIN u = 1..(Len(s) + 1) /\ Len(s) \in Nat
           /\ \A i \in 1..Len(s) : u[i + 1] = s[i]
<1>1. <<f>> \in Seq(S) /\ Len(<<f>>) = 1 /\ <<f>>[1] = f /\ Len(s) \in Nat
  OBVIOUS
<1>2. PICK a \in Seq(S) : a = <<f>>
  BY <1>1
<1>3. u = a \o s /\ Len(a) = 1 /\ a[1] = f
  BY <1>1, <1>2
<1>4. u \in Seq(S) /\ Len(u) = 1 + Len(s) /\ \A i \in 1..(1 + Len(s)) : u[i] = IF i <= 1 THEN a[i] ELSE s[i - 1]
  BY <1>3, ConcatProperties
<1>5. \A i \in 1..Len(s) : u[i + 1] = s[i]
  <2>1. ASSUME NEW i \in 1..Len(s) PROVE u[i + 1] = s[i]
    <3>1. i + 1 \in 1..(1 + Len(s)) /\ ~(i + 1 <= 1) /\ (i + 1) - 1 = i
      BY <1>1, <2>1
    <3>2. QED
      BY <1>4, <3>1
  <2>2. QED
    BY <2>1
<1>6. u[1] = f
  <2>1. 1 \in 1..(1 + Len(s)) /\ 1 <= 1
    BY <1>1
  <2>2. QED
    BY <1>3, <1>4, <2>1
<1>7. DOMAIN u = 1..(Len(s) + 1)
  BY <1>1, <1>4
<1>8. QED
  BY <1>1, <1>4, <1>5, <1>6, <1>7

LEMMA ChainedPush ==
    ASSUME NEW S, NEW s \in Seq(S), Chained(s), NEW f \in S, s # <<>> => Tr!Within(s[1].dir, f.dir), NEW u, u = <<f>> \o s
    PROVE  Chained(u)
<1>1. /\ Len(u) = Len(s) + 1 /\ u[1] = f /\ Len(s) \in Nat /\ \A i \in 1..Len(s) : u[i + 1] = s[i]
  BY Pushed
<1>2. ASSUME NEW i \in 1..(Len(u) - 1) PROVE Tr!Within(u[i + 1].dir, u[i].dir)
  <2>1. i \in 1..Len(s) /\ u[i + 1] = s[i]
    BY <1>1
  <2>2. CASE i = 1
    BY <1>1, <2>1, <2>2
  <2>3. CASE i # 1
    <3>1. i - 1 \in 1..Len(s) /\ i - 1 \in 1..(Len(s) - 1) /\ (i - 1) + 1 = i
      BY <2>1, <2>3
    <3>2. u[i] = s[i - 1]
      BY <1>1, <3>1
    <3>3. Tr!Within(s[(i - 1) + 1].dir, s[i - 1].dir)
      BY <3>1 DEF Chained
    <3>4. QED
      BY <2>1, <3>1, <3>2, <3>3
  <2>4. QED
    BY <2>2, <2>3
<1>3. QED
  BY <1>2 DEF Chained

LEMMA ChainedPop == ASSUME NEW S, NEW s \in Seq(S), s # <<>>, Chained(s) PROVE Chained(Tail(s))
<1>1. PICK u : u = Tail(s)
  OBVIOUS
<1>2. Len(u) = Len(s) - 1 /\ Len(s) \in Nat /\ \A i \in 1..(Len(s) - 1) : u[i] = s[i + 1]
  BY <1>1, FrontFrame
<1>3. ASSUME NEW i \in 1..(Len(u) - 1) PROVE Tr!Within(u[i + 1].dir, u[i].dir)
  <2>1. i \in 1..(Len(s) - 1) /\ i + 1 \in 1..(Len(s) - 1)
    BY <1>2
  <2>2. u[i] = s[i + 1] /\ u[i + 1] = s[(i + 1) + 1]
    BY <1>2, <2>1
  <2>3. QED
    BY <2>1, <2>2 DEF Chained
<1>4. QED
  BY <1>1, <1>3 DEF Chained

(* The innermost frame is replaced.                                        *)
LEMMA ChainedSwap ==
    ASSUME NEW S, NEW s \in Seq(S), s # <<>>, Chained(s), NEW g \in S, g.dir = s[1].dir, NEW u, u = <<g>> \o Tail(s)
    PROVE  /\ u \in Seq(S) /\ Len(u) = Len(s) /\ u[1] = g /\ DOMAIN u = DOMAIN s /\ u # <<>> /\ Chained(u)
           /\ \A i \in DOMAIN s : i # 1 => u[i] = s[i]
<1>1. /\ Tail(s) \in Seq(S) /\ Len(Tail(s)) = Len(s) - 1 /\ Len(s) \in Nat /\ Len(s) >= 1 /\ DOMAIN s = 1..Len(s)
      /\ \A i \in 1..(Len(s) - 1) : Tail(s)[i] = s[i + 1]
  BY FrontFrame
<1>2. PICK r \in Seq(S) : r = Tail(s)
  BY <1>1
<1>3. u \in Seq(S) /\ Len(u) = Len(r) + 1 /\ u[1] = g /\ DOMAIN u = 1..(Len(r) + 1) /\ \A i \in 1..Len(r) : u[i + 1] = r[i]
  BY <1>2, Pushed
<1>4. Len(r) = Len(s) - 1 /\ \A i \in 1..(Len(s) - 1) : r[i] = s[i + 1]
  BY <1>1, <1>2
<1>5. Len(u) = Len(s) /\ DOMAIN u = DOMAIN s /\ u # <<>>
  BY <1>1, <1>3, <1>4
<1>6. ASSUME NEW i \in DOMAIN s, i # 1 PROVE u[i] = s[i]
  <2>1. i - 1 \in 1..Len(r) /\ i - 1 \in 1..(Len(s) - 1) /\ (i - 1) + 1 = i
    BY <1>1, <1>4, <1>6
  <2>2. QED
    BY <1>3, <1>4, <2>1
<1>7. Chained(r)
  BY <1>2, ChainedPop
<1>8. r # <<>> => Tr!Within(r[1].dir, g.dir)
  <2>1. SUFFICES ASSUME r # <<>> PROVE Tr!Within(r[1].dir, g.dir)
    OBVIOUS
  <2>2. 1 \in 1..(Len(s) - 1)
    BY <1>1, <1>4, <2>1
  <2>3. Tr!Within(s[1 + 1].dir, s[1].dir) /\ r[1] = s[1 + 1]
    BY <1>4, <2>2 DEF Chained
  <2>4. QED
    BY <2>3
<1>9. Chained(u)
  BY <1>2, <1>7, <1>8, ChainedPush
<1>10. QED
  BY <1>3, <1>5, <1>6, <1>9

LEMMA FrameKept ==
    ASSUME NEW t, NEW l, NEW f, NEW n, Tr!FrameRight(t, l, f, n), NEW u, NEW m, \A q : Tr!Reached(t, l, q) => Tr!Reached(u, m, q)
    PROVE  Tr!FrameRight(u, m, f, n)
  BY DEF Tr!FrameRight

LEMMA AtWalk ==
    ASSUME Tr!TrInv, Tr!Walking
    PROVE  /\ Tr!Sane /\ Tr!Closed(v2) /\ v4 \in Seq(Tr!Frames) /\ v4 # <<>> /\ Chained(v4) /\ v5 \in Nat
           /\ v5 >= Len(v4) /\ Len(v4) >= 1 /\ Len(v4) \in Nat /\ v8 \in Seq(Tr!Entries) /\ v10 \in 1..(Len(v8) + 1)
           /\ v11 \in {"ok", "bad"} /\ v6 \in Nat /\ v6 >= PathSpace /\ Tr!Frame = v4[1] /\ Tr!Frame \in Tr!Frames
<1>1. Tr!Sane /\ Tr!TrTypeOK /\ v4 # <<>> /\ v4 \in Seq(Tr!Frames)
  BY DEF Tr!TrInv, Tr!Walking, Tr!Sane
<1>2. Head(v4) = v4[1] /\ Head(v4) \in Tr!Frames /\ Len(v4) \in Nat /\ Len(v4) >= 1
  BY <1>1, FrontFrame
<1>3. QED
  BY <1>1, <1>2 DEF Tr!TrTypeOK, Chained, Tr!Sane, Tr!Frame

(* A step of the walk: its types.                                          *)
LEMMA WalkTyped ==
    ASSUME Tr!TrInv, Tr!Walking, UNCHANGED <<v1, v3, v10, v11>>, v5' \in Nat, v6' \in Nat, v6' >= PathSpace,
           v8' \in Seq(Tr!Entries), Len(v8') >= Len(v8), Tr!Closed(v2'), v4' \in Seq(Tr!Frames), Chained(v4'),
           v4' # <<>> => v5' >= Len(v4'), v9' \in {"walk", "aborted"}
    PROVE  Tr!Sane' /\ Tr!TrTypeOK'
<1>1. Tr!Sane /\ v10 \in 1..(Len(v8) + 1) /\ v11 \in {"ok", "bad"} /\ v8 \in Seq(Tr!Entries)
  BY AtWalk
<1>2. Tr!Sane'
  BY <1>1, SaneKept
<1>3. PICK n \in Nat, k \in Nat : n = Len(v8') /\ k = Len(v8)
  <2>1. PICK m \in Seq(Tr!Entries) : m = v8'
    OBVIOUS
  <2>2. Len(m) \in Nat /\ Len(v8) \in Nat
    BY <1>1
  <2>3. QED
    BY <2>1, <2>2
<1>4. v10 \in 1..(n + 1)
  <2>1. v10 \in 1..(k + 1) /\ n >= k
    BY <1>1, <1>3
  <2>2. QED
    BY <2>1
<1>5. v10' \in 1..(Len(v8') + 1)
  BY <1>3, <1>4
<1>6. Tr!Closed(v2)'
  BY DEF Tr!Closed, Tr!What
<1>7. (\A i \in 1..(Len(v4) - 1) : Tr!Within(v4[i + 1].dir, v4[i].dir))'
  BY DEF Chained
<1>8. QED
  BY <1>1, <1>2, <1>5, <1>6, <1>7 DEF Tr!TrTypeOK

LEMMA FrameTyped ==
    ASSUME NEW f \in Tr!Frames
    PROVE  /\ f.dir \in Seq(Tr!Names) /\ f.text \in Seq(Tr!Comp) /\ f.text # <<>> /\ f.left \subseteq Tr!Names /\ f.subs \in Seq(Tr!Names)
           /\ f.grown \in BOOLEAN
           /\ f = [dir |-> f.dir, text |-> f.text, left |-> f.left, subs |-> f.subs, grown |-> f.grown]
  BY DEF Tr!Frames

LEMMA FrameMade ==
    ASSUME NEW d \in Seq(Tr!Names), NEW x \in Seq(Tr!Comp), x # <<>>, NEW a \in SUBSET Tr!Names, NEW b \in Seq(Tr!Names), NEW g \in BOOLEAN
    PROVE  [dir |-> d, text |-> x, left |-> a, subs |-> b, grown |-> g] \in Tr!Frames
  BY DEF Tr!Frames

LEMMA EntryPathTyped ==
    ASSUME Tr!Sane, NEW f \in Tr!Frames, NEW n \in Tr!Names
    PROVE  /\ Append(f.text, n) \in Seq(Tr!Comp) /\ Append(f.text, n) # <<>> /\ n \in Tr!Comp
           /\ Append(f.dir, n) \in Seq(Tr!Names) /\ Tr!Within(f.dir, Append(f.dir, n)) /\ Len(Append(f.dir, n)) = Len(f.dir) + 1
           /\ Append(f.text, "cut") \in Seq(Tr!Comp) /\ Append(f.text, "cut") # <<>>
<1>1. PICK d \in Seq(Tr!Names), x \in Seq(Tr!Comp), c \in Tr!Comp : d = f.dir /\ x = f.text /\ c = "cut" /\ n \in Tr!Comp
  BY FrameTyped, CompIs
<1>2. Append(x, n) \in Seq(Tr!Comp) /\ Append(x, n) # <<>>
  BY <1>1, GrownIs
<1>3. Append(d, n) \in Seq(Tr!Names) /\ Tr!Within(d, Append(d, n)) /\ Len(Append(d, n)) = Len(d) + 1
  BY GrownIs
<1>4. Append(x, c) \in Seq(Tr!Comp) /\ Append(x, c) # <<>>
  BY GrownIs
<1>5. QED
  BY <1>1, <1>2, <1>3, <1>4

(* What an entry of a directory makes of its frame.                        *)
NextFrame(f, n, k, g) == [f EXCEPT !.left = @ \ {n}, !.grown = @ \/ g, !.subs = IF k = "d" THEN Append(@, n) ELSE @]
NextSub(f) == [f EXCEPT !.subs = Tail(@), !.grown = FALSE]

LEMMA NextFrameIs ==
    ASSUME NEW f \in Tr!Frames, NEW n \in Tr!Names, NEW k, NEW g \in BOOLEAN, NEW h, h = NextFrame(f, n, k, g)
    PROVE  /\ h \in Tr!Frames /\ h.dir = f.dir /\ h.text = f.text /\ h.left = f.left \ {n} /\ h.grown = (f.grown \/ g)
           /\ h.subs = IF k = "d" THEN Append(f.subs, n) ELSE f.subs
<1>1. PICK d, x, a, b, c : d = f.dir /\ x = f.text /\ a = f.left /\ b = f.subs /\ c = f.grown
  OBVIOUS
<1>2. d \in Seq(Tr!Names) /\ x \in Seq(Tr!Comp) /\ x # <<>> /\ a \subseteq Tr!Names /\ b \in Seq(Tr!Names) /\ c \in BOOLEAN
  BY <1>1, FrameTyped
<1>3. f = [dir |-> d, text |-> x, left |-> a, subs |-> b, grown |-> c]
  BY <1>1, FrameTyped
<1>4. PICK y : y = IF k = "d" THEN Append(b, n) ELSE b
  OBVIOUS
<1>5. y \in Seq(Tr!Names)
  <2>1. Append(b, n) \in Seq(Tr!Names)
    BY <1>2, AppendProperties
  <2>2. QED
    BY <1>2, <1>4, <2>1
<1>6. PICK z \in BOOLEAN : z = (c \/ g)
  BY <1>2
<1>7. h = [dir |-> d, text |-> x, left |-> a \ {n}, subs |-> y, grown |-> z]
  BY <1>1, <1>3, <1>4, <1>6 DEF NextFrame
<1>8. h \in Tr!Frames
  <2>1. PICK e \in SUBSET Tr!Names : e = a \ {n}
    BY <1>2
  <2>2. [dir |-> d, text |-> x, left |-> e, subs |-> y, grown |-> z] \in Tr!Frames
    BY <1>2, <1>5, FrameMade
  <2>3. QED
    BY <1>7, <2>1, <2>2
<1>9. QED
  BY <1>1, <1>4, <1>6, <1>7, <1>8

LEMMA NextSubIs ==
    ASSUME NEW f \in Tr!Frames, f.subs # <<>>, NEW h, h = NextSub(f)
    PROVE  /\ h \in Tr!Frames /\ h.dir = f.dir /\ h.text = f.text /\ h.left = f.left /\ h.grown = FALSE /\ h.subs = Tail(f.subs)
           /\ Head(f.subs) \in Tr!Names /\ Tr!Members(f.subs) = {Head(f.subs)} \cup Tr!Members(h.subs)
<1>1. PICK d, x, a, b, c : d = f.dir /\ x = f.text /\ a = f.left /\ b = f.subs /\ c = f.grown
  OBVIOUS
<1>2. d \in Seq(Tr!Names) /\ x \in Seq(Tr!Comp) /\ x # <<>> /\ a \subseteq Tr!Names /\ b \in Seq(Tr!Names) /\ b # <<>> /\ c \in BOOLEAN
  BY <1>1, FrameTyped
<1>3. f = [dir |-> d, text |-> x, left |-> a, subs |-> b, grown |-> c]
  BY <1>1, FrameTyped
<1>4. PICK y : y = Tail(b)
  OBVIOUS
<1>5. /\ y \in Seq(Tr!Names) /\ Head(b) \in Tr!Names /\ Head(b) = b[1] /\ Len(b) \in Nat /\ Len(b) >= 1 /\ DOMAIN b = 1..Len(b)
      /\ DOMAIN y = 1..(Len(b) - 1) /\ \A i \in 1..(Len(b) - 1) : y[i] = b[i + 1]
  BY <1>2, <1>4, FrontFrame
<1>6. h = [dir |-> d, text |-> x, left |-> a, subs |-> y, grown |-> FALSE]
  BY <1>1, <1>3, <1>4 DEF NextSub
<1>7. h \in Tr!Frames
  <2>1. PICK e \in SUBSET Tr!Names, g \in BOOLEAN : e = a /\ g = FALSE
    BY <1>2
  <2>2. [dir |-> d, text |-> x, left |-> e, subs |-> y, grown |-> g] \in Tr!Frames
    BY <1>2, <1>5, FrameMade
  <2>3. QED
    BY <1>6, <2>1, <2>2
<1>8. Tr!Members(b) = {Head(b)} \cup Tr!Members(y)
  <2>1. ASSUME NEW i \in DOMAIN b PROVE b[i] \in {Head(b)} \cup Tr!Members(y)
    <3>1. CASE i = 1
      BY <1>5, <3>1
    <3>2. CASE i # 1
      <4>1. i - 1 \in DOMAIN y /\ y[i - 1] = b[(i - 1) + 1] /\ (i - 1) + 1 = i
        BY <1>5, <2>1, <3>2
      <4>2. QED
        BY <4>1 DEF Tr!Members
    <3>3. QED
      BY <3>1, <3>2
  <2>2. ASSUME NEW i \in DOMAIN y PROVE y[i] \in Tr!Members(b)
    <3>1. i + 1 \in DOMAIN b /\ y[i] = b[i + 1]
      BY <1>5, <2>2
    <3>2. QED
      BY <3>1 DEF Tr!Members
  <2>3. Head(b) \in Tr!Members(b)
    BY <1>5 DEF Tr!Members
  <2>4. QED
    BY <2>1, <2>2, <2>3 DEF Tr!Members
<1>9. QED
  BY <1>1, <1>4, <1>5, <1>6, <1>7, <1>8

(***************************************************************************)
(* An entry of a directory.                                                *)
(***************************************************************************)
EntryDone(f, n, x, k, g) ==
  /\ \/ /\ k \in {"-", "l"} /\ Tr!TooDeep /\ Tr!Abort
     \/ /\ k \in {"-", "l"} /\ ~Tr!TooDeep /\ Tr!Visit(x, n, k) /\ v4' = <<NextFrame(f, n, k, g)>> \o Tail(v4) /\ v9' = v9
     \/ k \notin {"-", "l"} /\ v4' = <<NextFrame(f, n, k, g)>> \o Tail(v4) /\ UNCHANGED <<v8, v2, v9>>
  /\ \/ v6' = v6 /\ g = FALSE
     \/ v6' \in Nat /\ v6' > v6 /\ g = TRUE

LEMMA ListEntryIs ==
    ASSUME Tr!TrInv, Tr!WalkEntry, NEW f, f = Tr!Frame
    PROVE  \E n \in f.left, g \in BOOLEAN : EntryDone(f, n, Append(f.text, n), Tr!Seen(Append(f.text, n), Append(f.dir, n)), g)
<1>1. Tr!Sane /\ f \in Tr!Frames /\ v6 \in Nat /\ PathSpare \in Nat
  BY AtWalk, AllocIs DEF Tr!WalkEntry
<1>2. PICK n \in f.left :
        LET path  == Append(f.text, n)
            k     == Tr!Seen(path, Append(f.dir, n))
            need  == Tr!DirLen(f.text) + NameLengths[n] + 1
            grows == need > v6
            next  == [f EXCEPT !.left = @ \ {n}, !.grown = @ \/ grows, !.subs = IF k = "d" THEN Append(@, n) ELSE @]
        IN /\ v6' = IF grows THEN need + PathSpare ELSE v6
           /\ \/ k \in {"-", "l"} /\ Tr!TooDeep /\ Tr!Abort
              \/ /\ k \in {"-", "l"} /\ ~Tr!TooDeep
                 /\ Tr!Visit(path, n, k) /\ v4' = <<next>> \o Tail(v4) /\ UNCHANGED v9
              \/ k \notin {"-", "l"} /\ v4' = <<next>> \o Tail(v4) /\ UNCHANGED <<v8, v2, v9>>
  BY DEF Tr!WalkEntry
<1>3. n \in Tr!Names /\ f.text \in Seq(Tr!Comp) /\ n \in Tr!Comp
  BY <1>1, FrameTyped, CompIs
<1>4. Tr!DirLen(f.text) \in Nat
  BY <1>3, DirLenTyped
<1>5. NameLengths[n] \in Nat
  BY <1>3, TreeWalkAssumption DEF Tr!TrAssumption, Tr!Comp
<1>6. PICK need \in Nat : need = Tr!DirLen(f.text) + NameLengths[n] + 1
  BY <1>4, <1>5
<1>7. PICK g \in BOOLEAN : (need > v6 /\ g = TRUE) \/ (~(need > v6) /\ g = FALSE)
  OBVIOUS
<1>8. PICK x, k : x = Append(f.text, n) /\ k = Tr!Seen(x, Append(f.dir, n))
  OBVIOUS
<1>9. PICK next : next = [f EXCEPT !.left = @ \ {n}, !.grown = @ \/ need > v6, !.subs = IF k = "d" THEN Append(@, n) ELSE @]
  OBVIOUS
<1>10. next = NextFrame(f, n, k, g)
  BY <1>7, <1>9 DEF NextFrame
<1>11. v6' = IF g THEN need + PathSpare ELSE v6
  BY <1>2, <1>6, <1>7
<1>12. \/ k \in {"-", "l"} /\ Tr!TooDeep /\ Tr!Abort
       \/ k \in {"-", "l"} /\ ~Tr!TooDeep /\ Tr!Visit(x, n, k) /\ v4' = <<next>> \o Tail(v4) /\ v9' = v9
       \/ k \notin {"-", "l"} /\ v4' = <<next>> \o Tail(v4) /\ UNCHANGED <<v8, v2, v9>>
  BY <1>2, <1>6, <1>7, <1>8, <1>9
<1>13. (v6' = v6 /\ g = FALSE) \/ (v6' \in Nat /\ v6' > v6 /\ g = TRUE)
  <2>1. CASE g
    <3>1. PICK a : a = v6'
      OBVIOUS
    <3>2. a = need + PathSpare /\ need > v6
      BY <1>7, <1>11, <2>1, <3>1
    <3>3. a \in Nat /\ a > v6
      BY <1>1, <1>6, <3>2
    <3>4. QED
      BY <2>1, <3>1, <3>3
  <2>2. CASE ~g
    BY <1>11, <2>2
  <2>3. QED
    BY <2>1, <2>2
<1>14. EntryDone(f, n, x, k, g)
  BY <1>10, <1>12, <1>13 DEF EntryDone
<1>15. QED
  BY <1>8, <1>14

LEMMA EntryTyped == ASSUME Tr!TrInv, Tr!WalkEntry PROVE Tr!Sane' /\ Tr!TrTypeOK'
<1>1. Tr!Walking /\ UNCHANGED <<v1, v3, v5, v10, v11>>
  BY DEF Tr!WalkEntry, Tr!Steps
<1>2. /\ Tr!Sane /\ Tr!Closed(v2) /\ v4 \in Seq(Tr!Frames) /\ v4 # <<>> /\ Chained(v4) /\ v5 \in Nat
      /\ v5 >= Len(v4) /\ Len(v4) >= 1 /\ Len(v4) \in Nat /\ v8 \in Seq(Tr!Entries)
      /\ v6 \in Nat /\ v6 >= PathSpace /\ PathSpace \in Nat /\ Tr!Frame = v4[1] /\ Tr!Frame \in Tr!Frames
  BY <1>1, AtWalk, AllocIs
<1>3. PICK f \in Tr!Frames : f = Tr!Frame
  BY <1>2
<1>4. PICK n \in f.left, g \in BOOLEAN : EntryDone(f, n, Append(f.text, n), Tr!Seen(Append(f.text, n), Append(f.dir, n)), g)
  BY <1>3, ListEntryIs
<1>5. n \in Tr!Names
  BY <1>3, FrameTyped
<1>6. PICK x, k : x = Append(f.text, n) /\ k = Tr!Seen(Append(f.text, n), Append(f.dir, n))
  OBVIOUS
<1>7. EntryDone(f, n, x, k, g)
  BY <1>4, <1>6
<1>8. x \in Seq(Tr!Comp) /\ x # <<>> /\ n \in Tr!Comp
  BY <1>2, <1>5, <1>6, EntryPathTyped
<1>9. v6' \in Nat /\ v6' >= PathSpace
  <2>1. PICK a : a = v6'
    OBVIOUS
  <2>2. a = v6 \/ (a \in Nat /\ a > v6)
    BY <1>7, <2>1 DEF EntryDone
  <2>3. a \in Nat /\ a >= PathSpace
    BY <1>2, <2>2
  <2>4. QED
    BY <2>1, <2>3
<1>10. PICK h \in Tr!Frames : h = NextFrame(f, n, k, g) /\ h.dir = f.dir
  BY <1>5, NextFrameIs
<1>11. PICK u \in Seq(Tr!Frames) : u = <<h>> \o Tail(v4) /\ Len(u) = Len(v4) /\ Chained(u)
  BY <1>2, <1>3, <1>10, ChainedSwap
<1>12. v8' \in Seq(Tr!Entries) /\ Len(v8') >= Len(v8) /\ Tr!Closed(v2')
  <2>1. CASE UNCHANGED <<v8, v2>>
    BY <1>2, <2>1 DEF Tr!Closed, Tr!What
  <2>2. CASE k \in {"-", "l"} /\ Tr!Visit(x, n, k)
    BY <1>1, <1>2, <1>8, <2>2, VisitTyped
  <2>3. QED
    BY <1>7, <2>1, <2>2 DEF EntryDone, Tr!Abort
<1>13. (v4' = <<>> /\ v9' = "aborted") \/ (v4' = u /\ v9' = "walk")
  BY <1>1, <1>7, <1>10, <1>11 DEF EntryDone, Tr!Abort, Tr!Walking
<1>14. /\ v4' \in Seq(Tr!Frames) /\ Chained(v4') /\ v9' \in {"walk", "aborted"}
       /\ v4' # <<>> => v5' >= Len(v4')
  <2>1. <<>> \in Seq(Tr!Frames) /\ Chained(<<>>)
    BY DEF Chained
  <2>2. CASE v4' = <<>> /\ v9' = "aborted"
    BY <2>1, <2>2
  <2>3. CASE v4' = u /\ v9' = "walk"
    BY <1>1, <1>2, <1>11, <2>3
  <2>4. QED
    BY <1>13, <2>2, <2>3
<1>15. QED
  BY <1>1, <1>2, <1>9, <1>12, <1>14, WalkTyped

LEMMA DeepEnough ==
    ASSUME Tr!Sane, Tr!TooDeep, v5 > 0, v5 \in Nat, Tr!Remote /\ v5 > 0 => \E p \in Tr!Below : Len(p) >= Len(Tr!Top) + v5
    PROVE  Tr!Deep
<1>1. PICK p \in Tr!Below : Len(p) >= Len(Tr!Top) + v5
  BY DEF Tr!TooDeep
<1>2. v5 >= DepthLimit /\ DepthLimit \in Nat /\ Len(Tr!Top) \in Nat /\ Len(p) \in Nat
  BY AllocIs, TopIs, BelowIs DEF Tr!TooDeep
<1>3. Len(p) > Len(Tr!Top) + DepthLimit - 1
  BY <1>1, <1>2
<1>4. QED
  BY <1>3 DEF Tr!Deep

LEMMA FrameItem ==
    ASSUME Tr!Sane, NEW t, NEW l, NEW f \in Tr!Frames, NEW m, Tr!FrameRight(t, l, f, m), NEW n \in Tr!NamesIn(v1, f.dir),
           v7 = (IF v3.op = "get" THEN Tr!Top ELSE SourceDir), NEW p, p = Append(f.dir, n)
    PROVE  /\ p \in Tr!Below /\ n \in Tr!Names /\ p # Tr!Top /\ Tr!Parent(p) = f.dir /\ Append(f.text, n) = Tr!Text(p) /\ Tr!Name(Tr!Text(p)) = n
           /\ Tr!From(v7, Tr!Text(p)) = p /\ Len(p) = Len(f.dir) + 1 /\ v1[f.dir] = "d" /\ f.dir \in Tr!Below
<1>1. PICK d \in Tr!Below : d = f.dir /\ v1[d] = "d" /\ f.text = Tr!Text(d)
  BY DEF Tr!FrameRight
<1>2. n \in Tr!NamesIn(v1, d) /\ p = Append(d, n)
  BY <1>1
<1>3. p \in Tr!Below /\ n \in Tr!Names /\ p # Tr!Top /\ Tr!Parent(p) = d
  BY <1>1, <1>2, ChildBelow
<1>4. Tr!Text(p) = Append(Tr!Text(d), n) /\ Tr!Name(Tr!Text(p)) = n
  BY <1>1, <1>2, Downward
<1>5. Tr!From(v7, Tr!Text(p)) = p
  BY <1>3, TextIs
<1>6. Len(p) = Len(d) + 1
  BY <1>1, <1>2, <1>3, BelowIs, GrownIs
<1>7. QED
  BY <1>1, <1>3, <1>4, <1>5, <1>6

LEMMA MetIs ==
    ASSUME Tr!Sane, ~Tr!NamesOnly, NEW p \in Tr!Below, Tr!From(v7, Tr!Text(p)) = p
    PROVE  Tr!Seen(Tr!Text(p), p) = Tr!Kind(p)
<1>1. p \in DOMAIN v1 /\ Tr!KindOf(v1, p) = v1[p]
  BY BelowIs DEF Tr!KindOf
<1>2. CASE Tr!Remote /\ v3.lists = "kinds"
  BY <1>1, <1>2 DEF Tr!Seen, Tr!Kind
<1>3. CASE ~(Tr!Remote /\ v3.lists = "kinds")
  <2>1. Tr!Remote => v1[p] \notin {"l", "?"}
    BY <1>3, TaskIs DEF Tr!NamesOnly
  <2>2. QED
    BY <1>1, <1>3, <2>1 DEF Tr!Seen, Tr!Kind
<1>4. QED
  BY <1>2, <1>3

NextIs(h, f, n, k) ==
  /\ h.dir = f.dir /\ h.text = f.text /\ h.left = f.left \ {n} /\ (~f.grown => ~h.grown)
  /\ h.subs = IF k = "d" THEN Append(f.subs, n) ELSE f.subs
Swapped(u, s, h) == Len(u) = Len(s) /\ u[1] = h /\ DOMAIN u = DOMAIN s /\ \A i \in DOMAIN s : i # 1 => u[i] = s[i]
Keeps(t, l) == \A q : Tr!Reached(v2, v8, q) => Tr!Reached(t, l, q)

(* The walk, where the entry has been dealt with.                          *)
LEMMA EntryRight ==
    ASSUME Tr!Sane, Tr!WalkRight(v2, v8, v4, v5), v4 \in Seq(Tr!Frames), v4 # <<>>,
           NEW f \in Tr!Frames, f = v4[1], NEW n \in f.left, NEW p, p = Append(f.dir, n), NEW h, NextIs(h, f, n, Tr!Kind(p)),
           NEW u, Swapped(u, v4, h), NEW t, NEW l, Tr!Good(t), Tr!Listing(FALSE, l), Keeps(t, l),
           Tr!Kind(p) # "d" /\ p \in Tr!Copied => Tr!Reached(t, l, p), v7 = (IF v3.op = "get" THEN Tr!Top ELSE SourceDir)
    PROVE  Tr!WalkRight(t, l, u, v5)
<1>1. Len(v4) \in Nat /\ Len(v4) >= 1 /\ DOMAIN v4 = 1..Len(v4)
  BY FrontFrame
<1>2. Tr!FrameRight(v2, v8, f, Len(v4) - 1)
  BY <1>1 DEF Tr!WalkRight
<1>3. n \in Tr!NamesIn(v1, f.dir) /\ ~f.grown
  BY <1>2 DEF Tr!FrameRight
<1>4. p \in Tr!Below /\ n \in Tr!Names /\ v1[f.dir] = "d"
  BY <1>2, <1>3, FrameItem
<1>5. /\ h.dir = f.dir /\ h.text = f.text /\ h.left = f.left \ {n} /\ (~f.grown => ~h.grown)
      /\ h.subs = IF Tr!Kind(p) = "d" THEN Append(f.subs, n) ELSE f.subs
  BY DEF NextIs
<1>6. Tr!Members(h.subs) = IF Tr!Kind(p) = "d" THEN Tr!Members(f.subs) \cup {n} ELSE Tr!Members(f.subs)
  <2>1. CASE Tr!Kind(p) = "d"
    <3>1. PICK b \in Seq(Tr!Names) : b = f.subs
      BY FrameTyped
    <3>2. PICK c : c = Append(b, n)
      OBVIOUS
    <3>3. /\ Len(c) = Len(b) + 1 /\ c[Len(b) + 1] = n /\ \A i \in 1..Len(b) : c[i] = b[i]
          /\ DOMAIN c = 1..(Len(b) + 1) /\ DOMAIN b = 1..Len(b) /\ Len(b) \in Nat
      BY <1>4, <3>2, AddedIs
    <3>4. \A i \in DOMAIN c : c[i] \in Tr!Members(b) \cup {n}
      <4>1. ASSUME NEW i \in DOMAIN c PROVE c[i] \in Tr!Members(b) \cup {n}
        <5>1. i = Len(b) + 1 \/ i \in 1..Len(b)
          BY <3>3
        <5>2. QED
          BY <3>3, <5>1 DEF Tr!Members
      <4>2. QED
        BY <4>1
    <3>5. \A i \in DOMAIN b : b[i] \in Tr!Members(c)
      BY <3>3 DEF Tr!Members
    <3>6. n \in Tr!Members(c)
      <4>1. Len(b) + 1 \in DOMAIN c
        BY <3>3
      <4>2. QED
        BY <3>3, <4>1 DEF Tr!Members
    <3>7. Tr!Members(c) = Tr!Members(b) \cup {n}
      BY <3>4, <3>5, <3>6 DEF Tr!Members
    <3>8. QED
      BY <1>5, <2>1, <3>1, <3>2, <3>7
  <2>2. CASE Tr!Kind(p) # "d"
    BY <1>5, <2>2
  <2>3. QED
    BY <2>1, <2>2
<1>7. Tr!FrameRight(t, l, h, Len(v4) - 1)
  <2>1. Tr!FrameRight(t, l, f, Len(v4) - 1)
    BY <1>2, FrameKept DEF Keeps
  <2>2. Tr!Kind(p) = "d" => v1[Append(f.dir, n)] \in {"d", "u"}
    BY DEF Tr!Kind
  <2>3. \A m \in Tr!Members(h.subs) : m \in Tr!NamesIn(v1, h.dir) /\ v1[Append(h.dir, m)] \in {"d", "u"}
    BY <1>3, <1>5, <1>6, <2>1, <2>2 DEF Tr!FrameRight
  <2>4. ~h.grown
    BY <1>3, <1>5
  <2>5. QED
    BY <1>5, <2>1, <2>3, <2>4 DEF Tr!FrameRight
<1>8. Len(u) = Len(v4) /\ u[1] = h /\ DOMAIN u = DOMAIN v4 /\ \A i \in DOMAIN v4 : i # 1 => u[i] = v4[i]
  BY DEF Swapped
<1>9. ASSUME NEW i \in DOMAIN u PROVE Tr!FrameRight(t, l, u[i], Len(u) - i)
  <2>1. CASE i = 1
    BY <1>7, <1>8, <2>1
  <2>2. CASE i # 1
    <3>1. u[i] = v4[i] /\ i \in DOMAIN v4
      BY <1>8, <2>2
    <3>2. Tr!FrameRight(v2, v8, v4[i], Len(v4) - i)
      BY <3>1 DEF Tr!WalkRight
    <3>3. Tr!FrameRight(t, l, v4[i], Len(v4) - i)
      BY <3>2, FrameKept DEF Keeps
    <3>4. QED
      BY <1>8, <3>1, <3>3
  <2>3. QED
    BY <2>1, <2>2
<1>10. ASSUME NEW q \in Tr!Copied PROVE Tr!Reached(t, l, q) \/ Tr!Ahead(u, q)
  <2>0. q \in Tr!Below /\ 1 \in DOMAIN u
    BY <1>1, <1>8, CopyNameIs
  <2>1. CASE Tr!Reached(v2, v8, q)
    BY <2>1 DEF Keeps
  <2>2. CASE Tr!Ahead(v4, q)
    <3>1. PICK i \in DOMAIN v4 : Tr!Waits(v4[i], q)
      BY <2>2 DEF Tr!Ahead
    <3>2. CASE i # 1
      BY <1>8, <3>1, <3>2 DEF Tr!Ahead
    <3>3. CASE i = 1
      <4>1. PICK m \in f.left \cup Tr!Members(f.subs) : Tr!Within(Append(f.dir, m), q)
        BY <3>1, <3>3 DEF Tr!Waits
      <4>2. CASE m \in h.left \cup Tr!Members(h.subs)
        <5>1. Tr!Waits(h, q)
          BY <1>5, <4>1, <4>2 DEF Tr!Waits
        <5>2. QED
          BY <1>8, <2>0, <5>1 DEF Tr!Ahead
      <4>3. CASE m \notin h.left \cup Tr!Members(h.subs)
        <5>1. m = n /\ Tr!Kind(p) # "d"
          BY <1>5, <1>6, <4>1, <4>3
        <5>2. Tr!Within(p, q)
          BY <4>1, <5>1
        <5>3. p = q
          <6>1. SUFFICES ASSUME p # q PROVE FALSE
            OBVIOUS
          <6>2. v1[p] = "d"
            BY <1>4, <2>0, <5>2, <6>1, NextBelow
          <6>3. QED
            BY <5>1, <6>2 DEF Tr!Kind
        <5>4. QED
          BY <5>1, <5>3
      <4>4. QED
        BY <4>2, <4>3
    <3>4. QED
      BY <3>2, <3>3
  <2>3. QED
    BY <2>1, <2>2 DEF Tr!WalkRight
<1>11. Tr!Remote /\ v5 > 0 => \E q \in Tr!Below : Len(q) >= Len(Tr!Top) + v5
  BY DEF Tr!WalkRight
<1>12. QED
  BY <1>9, <1>10, <1>11 DEF Tr!WalkRight

LEMMA AtWalkRight ==
    ASSUME Tr!TrInv, v9 = "walk", ~Tr!Odd
    PROVE  /\ Tr!Sane /\ Tr!IsDir /\ v3.op # "bgfile" /\ v7 = (IF v3.op = "get" THEN Tr!Top ELSE SourceDir)
           /\ v12 = {} /\ v11 = "ok" /\ v10 = 1 /\ Tr!WalkRight(v2, v8, v4, v5)
           /\ ~Tr!Misnamed /\ ~Tr!NamesOnly /\ ~Tr!Deep /\ ~Tr!Bare
  BY DEF Tr!TrInv, Tr!WalkInv, Tr!Odd

LEMMA StillWalking ==
    ASSUME Tr!TrInv, v9 = "walk", ~Tr!Odd, UNCHANGED <<v1, v3, v7, v10, v11, v12>>, Tr!Sane', Tr!TrTypeOK', v9' = "walk",
           NEW t, t = v2', NEW l, l = v8', NEW s, s = v4', NEW d, d = v5', Tr!WalkRight(t, l, s, d)
    PROVE  Tr!TrInv'
<1>1. /\ Tr!Sane /\ Tr!IsDir /\ v3.op # "bgfile" /\ v7 = (IF v3.op = "get" THEN Tr!Top ELSE SourceDir)
      /\ v12 = {} /\ v11 = "ok" /\ v10 = 1
  BY AtWalkRight
<1>2. Tr!WalkRight(v2, v8, v4, v5)'
  BY WalkSteady
<1>3. (Tr!IsDir /\ v3.op # "bgfile" /\ v7 = (IF v3.op = "get" THEN Tr!Top ELSE SourceDir) /\ v12 = {} /\ v11 = "ok" /\ v10 = 1)'
  BY <1>1, Steady
<1>4. Tr!WalkInv'
  BY <1>2, <1>3 DEF Tr!WalkInv
<1>5. QED
  BY <1>4 DEF Tr!TrInv, Tr!StartInv, Tr!AbortedInv, Tr!ListedInv, Tr!WorkInv, Tr!DoneInv

LEMMA OddStep ==
    ASSUME Tr!Sane', Tr!TrTypeOK', Tr!Odd', v9' \in {"walk", "aborted", "work", "done"}
    PROVE  Tr!TrInv'
  BY DEF Tr!TrInv, Tr!StartInv, Tr!WalkInv, Tr!AbortedInv, Tr!ListedInv, Tr!WorkInv, Tr!DoneInv

LEMMA WalkEntryStep == ASSUME Tr!TrInv, Tr!WalkEntry PROVE Tr!TrInv'
<1>1. v9 = "walk" /\ Tr!Walking /\ UNCHANGED <<v1, v3, v7, v10, v11, v12, v5>>
  BY DEF Tr!WalkEntry, Tr!Steps, Tr!Untroubled, Tr!Walking
<1>2. Tr!Sane' /\ Tr!TrTypeOK'
  BY EntryTyped
<1>3. /\ v4 \in Seq(Tr!Frames) /\ v4 # <<>> /\ Chained(v4) /\ v8 \in Seq(Tr!Entries) /\ Tr!Sane /\ v5 \in Nat
      /\ v5 >= Len(v4) /\ Len(v4) >= 1 /\ Len(v4) \in Nat /\ Tr!Frame = v4[1] /\ Tr!Frame \in Tr!Frames /\ v6 \in Nat
      /\ v6 >= PathSpace /\ PathSpace \in Nat
  BY <1>1, AtWalk, AllocIs
<1>4. PICK f \in Tr!Frames : f = Tr!Frame
  BY <1>3
<1>5. PICK n \in f.left, g \in BOOLEAN : EntryDone(f, n, Append(f.text, n), Tr!Seen(Append(f.text, n), Append(f.dir, n)), g)
  BY <1>4, ListEntryIs
<1>6. PICK x, k, p : x = Append(f.text, n) /\ p = Append(f.dir, n) /\ k = Tr!Seen(x, p)
  OBVIOUS
<1>7. EntryDone(f, n, x, k, g)
  BY <1>5, <1>6
<1>8. v9' \in {"walk", "aborted"}
  BY <1>1, <1>7 DEF EntryDone, Tr!Abort
<1>9. CASE Tr!Odd'
  BY <1>2, <1>8, <1>9, OddStep
<1>10. CASE ~Tr!Odd'
  <2>1. ~Tr!Odd /\ v6' = v6 /\ g = FALSE
    <3>1. PICK a : a = v6'
      OBVIOUS
    <3>2. (a = v6 /\ g = FALSE) \/ (a \in Nat /\ a > v6)
      BY <1>7, <3>1 DEF EntryDone
    <3>3. a = v6 \/ a # PathSpace
      BY <1>3, <3>2
    <3>4. ~Tr!Odd /\ v6' = v6
      BY <1>1, <1>10, <3>1, <3>3, OddKept
    <3>5. QED
      BY <1>3, <3>1, <3>2, <3>4
  <2>2. /\ Tr!IsDir /\ v3.op # "bgfile" /\ v7 = (IF v3.op = "get" THEN Tr!Top ELSE SourceDir)
        /\ Tr!WalkRight(v2, v8, v4, v5) /\ ~Tr!Misnamed /\ ~Tr!NamesOnly /\ ~Tr!Deep
    BY <1>1, <2>1, AtWalkRight
  <2>3. Tr!FrameRight(v2, v8, f, Len(v4) - 1)
    <3>1. 1 \in DOMAIN v4
      BY <1>3
    <3>2. QED
      BY <1>3, <1>4, <2>2, <3>1 DEF Tr!WalkRight
  <2>4. n \in Tr!NamesIn(v1, f.dir)
    BY <2>3 DEF Tr!FrameRight
  <2>5. /\ p \in Tr!Below /\ n \in Tr!Names /\ p # Tr!Top /\ Tr!Parent(p) = f.dir /\ x = Tr!Text(p) /\ Tr!Name(Tr!Text(p)) = n
        /\ Tr!From(v7, Tr!Text(p)) = p
    <3>1. PICK d \in Tr!Below : d = f.dir /\ v1[d] = "d" /\ f.text = Tr!Text(d)
      BY <2>3 DEF Tr!FrameRight
    <3>2. n \in Tr!NamesIn(v1, d) /\ p = Append(d, n) /\ x = Append(Tr!Text(d), n)
      BY <1>6, <2>4, <3>1
    <3>3. Tr!Sane /\ v7 = (IF v3.op = "get" THEN Tr!Top ELSE SourceDir)
      BY <1>3, <2>2
    <3>4. p \in Tr!Below /\ n \in Tr!Names /\ p # Tr!Top /\ Tr!Parent(p) = d
      BY <3>1, <3>2, <3>3, ChildBelow
    <3>5. Tr!Text(p) = Append(Tr!Text(d), n) /\ Tr!Name(Tr!Text(p)) = n
      BY <3>1, <3>2, <3>3, Downward
    <3>6. Tr!From(v7, Tr!Text(p)) = p
      BY <3>3, <3>4, TextIs
    <3>7. QED
      BY <3>1, <3>2, <3>4, <3>5, <3>6
  <2>6. k = Tr!Kind(p)
    BY <1>3, <1>6, <2>2, <2>5, MetIs
  <2>7. ~Tr!TooDeep
    <3>1. SUFFICES ASSUME Tr!TooDeep PROVE FALSE
      OBVIOUS
    <3>2. v5 > 0
      BY <1>3
    <3>3. Tr!Remote /\ v5 > 0 => \E q \in Tr!Below : Len(q) >= Len(Tr!Top) + v5
      BY <2>2 DEF Tr!WalkRight
    <3>4. QED
      BY <1>3, <2>2, <3>1, <3>2, <3>3, DeepEnough
  <2>8. PICK t, l : t = v2' /\ l = v8'
    OBVIOUS
  <2>9. Tr!Good(v2) /\ Tr!Listing(FALSE, v8)
    BY <2>2 DEF Tr!WalkRight
  <2>10. Tr!Good(t) /\ Tr!Listing(FALSE, l) /\ Keeps(t, l) /\ (Tr!Kind(p) # "d" /\ p \in Tr!Copied => Tr!Reached(t, l, p))
    <3>1. CASE k \in {"-", "l"} /\ Tr!Visit(x, n, k)
      <4>1. Tr!Visit(Tr!Text(p), Tr!Name(Tr!Text(p)), Tr!Kind(p)) /\ v1[p] # "?"
        BY <2>5, <2>6, <3>1 DEF Tr!Kind
      <4>2. Tr!Reached(v2, v8, Tr!Parent(p))
        BY <2>3, <2>5 DEF Tr!FrameRight
      <4>3. VisitIs(p, t, l)
        BY <1>1, <1>3, <2>2, <2>5, <2>8, <2>9, <4>1, <4>2, VisitRight
      <4>4. QED
        BY <4>3 DEF VisitIs, Keeps
    <3>2. CASE k \notin {"-", "l"} /\ UNCHANGED <<v8, v2>>
      <4>1. p \in Tr!Copied => Tr!Kind(p) = "d"
        BY <1>3, <2>6, <3>2, CopyNameIs
      <4>2. QED
        BY <2>8, <2>9, <3>2, <4>1 DEF Keeps
    <3>3. QED
      BY <1>7, <2>7, <3>1, <3>2 DEF EntryDone
  <2>11. PICK h : h = NextFrame(f, n, k, g)
    OBVIOUS
  <2>12. h \in Tr!Frames /\ h.dir = f.dir /\ NextIs(h, f, n, Tr!Kind(p))
    BY <2>1, <2>5, <2>6, <2>11, NextFrameIs DEF NextIs
  <2>13. PICK u : u = <<h>> \o Tail(v4)
    OBVIOUS
  <2>14. Swapped(u, v4, h)
    <3>1. h.dir = v4[1].dir
      BY <1>3, <1>4, <2>12
    <3>2. QED
      <4>1. v4 \in Seq(Tr!Frames) /\ v4 # <<>> /\ Chained(v4) /\ h \in Tr!Frames
        BY <1>3, <2>12
      <4>2. QED
        BY <2>13, <3>1, <4>1, ChainedSwap DEF Swapped
  <2>15. Tr!WalkRight(t, l, u, v5)
    BY <1>3, <1>4, <1>6, <2>2, <2>10, <2>12, <2>14, EntryRight
  <2>16. v9' = "walk" /\ v4' = u
    BY <1>1, <1>7, <2>7, <2>11, <2>13 DEF EntryDone
  <2>17. PICK d : d = v5 /\ d = v5'
    BY <1>1
  <2>18. Tr!WalkRight(t, l, u, d)
    BY <2>15, <2>17
  <2>19. QED
    BY <1>1, <1>2, <2>1, <2>8, <2>16, <2>17, <2>18, StillWalking
<1>11. QED
  BY <1>9, <1>10

(***************************************************************************)
(* A subdirectory.                                                         *)
(***************************************************************************)
SubDone(f, n, x, p, h) ==
  \/ Tr!TooDeep /\ Tr!Abort /\ UNCHANGED v5
  \/ /\ ~Tr!TooDeep /\ Tr!Visit(x, n, "d") /\ v9' = v9
     /\ LET opens == Tr!From(v7, x) = p /\ Tr!Opens(p) IN
        /\ v4' = IF opens THEN <<Tr!Opened(p, Tr!Entered(f, n))>> \o (<<h>> \o Tail(v4)) ELSE <<h>> \o Tail(v4)
        /\ v5' = IF opens THEN Len(v4) + 1 ELSE v5

LEMMA SubIs ==
    ASSUME Tr!TrInv, Tr!WalkSub, NEW f, f = Tr!Frame
    PROVE  /\ f.left = {} /\ f.subs # <<>>
           /\ SubDone(f, Head(f.subs), Append(f.text, Head(f.subs)), Append(f.dir, Head(f.subs)), NextSub(f))
<1>1. /\ Tr!Sane /\ f \in Tr!Frames /\ v4 \in Seq(Tr!Frames) /\ v4 # <<>> /\ f.left = {} /\ f.subs # <<>>
  BY AtWalk DEF Tr!WalkSub
<1>2. PICK h \in Tr!Frames : h = NextSub(f)
  BY <1>1, NextSubIs
<1>3. PICK n \in Tr!Names : n = Head(f.subs)
  BY <1>1, NextSubIs
<1>4. PICK x, p : x = Append(f.text, n) /\ p = Append(f.dir, n)
  OBVIOUS
<1>5. \/ Tr!TooDeep /\ Tr!Abort /\ UNCHANGED v5
      \/ /\ ~Tr!TooDeep /\ Tr!Visit(x, n, "d") /\ v9' = v9
         /\ LET opens == Tr!From(v7, x) = p /\ Tr!Opens(p) IN
            /\ v4' = (IF opens THEN <<Tr!Opened(p, Tr!Entered(f, n))>> ELSE <<>>) \o <<h>> \o Tail(v4)
            /\ v5' = IF opens THEN Len(v4) + 1 ELSE v5
  BY <1>2, <1>3, <1>4 DEF Tr!WalkSub, NextSub
<1>6. PICK r \in Seq(Tr!Frames) : r = Tail(v4)
  BY <1>1, FrontFrame
<1>7. <<>> \o <<h>> \o r = <<h>> \o r
  OBVIOUS
<1>8. Tr!Opened(p, Tr!Entered(f, n)) \in Tr!Frames
  <2>1. Append(f.text, n) \in Seq(Tr!Comp) /\ Append(f.text, n) # <<>> /\ Append(f.text, "cut") \in Seq(Tr!Comp) /\ Append(f.text, "cut") # <<>>
        /\ Append(f.dir, n) \in Seq(Tr!Names)
    BY <1>1, EntryPathTyped
  <2>2. Tr!Entered(f, n) \in Seq(Tr!Comp) /\ Tr!Entered(f, n) # <<>>
    BY <2>1 DEF Tr!Entered
  <2>3. QED
    BY <1>1, <1>4, <2>1, <2>2, OpenedTyped
<1>9. PICK o \in Tr!Frames : o = Tr!Opened(p, Tr!Entered(f, n))
  BY <1>8
<1>10. <<o>> \o <<h>> \o r = <<o>> \o (<<h>> \o r)
  <2>0. <<o>> \in Seq(Tr!Frames) /\ <<h>> \in Seq(Tr!Frames)
    OBVIOUS
  <2>1. PICK a \in Seq(Tr!Frames), b \in Seq(Tr!Frames) : a = <<o>> /\ b = <<h>>
    BY <2>0
  <2>2. (a \o b) \o r = a \o (b \o r)
    BY ConcatAssociative
  <2>3. QED
    BY <2>1, <2>2
<1>11. SubDone(f, n, x, p, h)
  BY <1>5, <1>6, <1>7, <1>9, <1>10 DEF SubDone
<1>12. QED
  BY <1>1, <1>2, <1>3, <1>4, <1>11

LEMMA SubFacts ==
    ASSUME Tr!TrInv, Tr!WalkSub
    PROVE  \E f \in Tr!Frames, n \in Tr!Names, h \in Tr!Frames : \E x, p :
             /\ f = Tr!Frame /\ f = v4[1] /\ f.left = {} /\ f.subs # <<>> /\ n = Head(f.subs) /\ x = Append(f.text, n) /\ p = Append(f.dir, n)
             /\ SubDone(f, n, x, p, h)
             /\ h.dir = f.dir /\ h.text = f.text /\ h.left = f.left /\ h.grown = FALSE /\ Tr!Members(f.subs) = {n} \cup Tr!Members(h.subs)
<1>1. /\ Tr!Frame \in Tr!Frames /\ Tr!Frame = v4[1]
  BY AtWalk DEF Tr!WalkSub
<1>2. PICK f \in Tr!Frames : f = Tr!Frame
  BY <1>1
<1>3. /\ f.left = {} /\ f.subs # <<>>
      /\ SubDone(f, Head(f.subs), Append(f.text, Head(f.subs)), Append(f.dir, Head(f.subs)), NextSub(f))
  BY <1>2, SubIs
<1>4. PICK h : h = NextSub(f)
  OBVIOUS
<1>5. /\ h \in Tr!Frames /\ h.dir = f.dir /\ h.text = f.text /\ h.left = f.left /\ h.grown = FALSE
      /\ Head(f.subs) \in Tr!Names /\ Tr!Members(f.subs) = {Head(f.subs)} \cup Tr!Members(h.subs)
  BY <1>3, <1>4, NextSubIs
<1>6. PICK n \in Tr!Names : n = Head(f.subs)
  BY <1>5
<1>7. PICK x, p : x = Append(f.text, n) /\ p = Append(f.dir, n)
  OBVIOUS
<1>8. SubDone(f, n, x, p, h)
  BY <1>3, <1>4, <1>6, <1>7
<1>9. QED
  BY <1>1, <1>2, <1>3, <1>5, <1>6, <1>7, <1>8

LEMMA SubTyped == ASSUME Tr!TrInv, Tr!WalkSub PROVE Tr!Sane' /\ Tr!TrTypeOK'
<1>1. Tr!Walking /\ UNCHANGED <<v1, v3, v6, v10, v11>>
  BY DEF Tr!WalkSub, Tr!Steps
<1>2. /\ Tr!Sane /\ Tr!Closed(v2) /\ v4 \in Seq(Tr!Frames) /\ v4 # <<>> /\ Chained(v4) /\ v5 \in Nat
      /\ v5 >= Len(v4) /\ Len(v4) \in Nat /\ v8 \in Seq(Tr!Entries) /\ v6 \in Nat /\ v6 >= PathSpace
  BY <1>1, AtWalk
<1>3. PICK f \in Tr!Frames, n \in Tr!Names, h \in Tr!Frames : \E x, p :
             /\ f = Tr!Frame /\ f = v4[1] /\ f.left = {} /\ f.subs # <<>> /\ n = Head(f.subs) /\ x = Append(f.text, n) /\ p = Append(f.dir, n)
             /\ SubDone(f, n, x, p, h)
             /\ h.dir = f.dir /\ h.text = f.text /\ h.left = f.left /\ h.grown = FALSE /\ Tr!Members(f.subs) = {n} \cup Tr!Members(h.subs)
  BY SubFacts
<1>4. PICK x, p : f = v4[1] /\ x = Append(f.text, n) /\ p = Append(f.dir, n) /\ SubDone(f, n, x, p, h) /\ h.dir = f.dir
  BY <1>3
<1>5. /\ x \in Seq(Tr!Comp) /\ x # <<>> /\ n \in Tr!Comp /\ p \in Seq(Tr!Names) /\ Tr!Within(f.dir, p)
      /\ Append(f.text, "cut") \in Seq(Tr!Comp) /\ Append(f.text, "cut") # <<>>
  BY <1>2, <1>4, EntryPathTyped
<1>6. PICK u \in Seq(Tr!Frames) : u = <<h>> \o Tail(v4) /\ Len(u) = Len(v4) /\ u[1] = h /\ Chained(u) /\ u # <<>>
  <2>1. h.dir = v4[1].dir
    BY <1>4
  <2>2. v4 \in Seq(Tr!Frames) /\ v4 # <<>> /\ Chained(v4)
    BY <1>2
  <2>3. PICK u : u = <<h>> \o Tail(v4)
    OBVIOUS
  <2>4. u \in Seq(Tr!Frames) /\ Len(u) = Len(v4) /\ u[1] = h /\ Chained(u) /\ u # <<>>
    <3>1. PICK s \in Seq(Tr!Frames) : s = v4
      BY <2>2
    <3>2. s # <<>> /\ Chained(s) /\ h.dir = s[1].dir /\ u = <<h>> \o Tail(s)
      BY <2>1, <2>2, <2>3, <3>1
    <3>3. u \in Seq(Tr!Frames) /\ Len(u) = Len(s) /\ u[1] = h /\ u # <<>> /\ Chained(u)
      <4>1. u \in Seq(Tr!Frames)
        BY <3>2, ChainedSwap
      <4>2. Len(u) = Len(s)
        BY <3>2, ChainedSwap
      <4>3. u[1] = h
        BY <3>2, ChainedSwap
      <4>4. u # <<>>
        BY <3>2, ChainedSwap
      <4>5. Chained(u)
        BY <3>2, ChainedSwap
      <4>6. QED
        BY <4>1, <4>2, <4>3, <4>4, <4>5
    <3>4. QED
      BY <3>1, <3>3
  <2>5. QED
    BY <2>3, <2>4
<1>7. Tr!Opened(p, Tr!Entered(f, n)) \in Tr!Frames
  <2>1. Tr!Entered(f, n) \in Seq(Tr!Comp) /\ Tr!Entered(f, n) # <<>>
    BY <1>4, <1>5 DEF Tr!Entered
  <2>2. QED
    BY <1>2, <1>5, <2>1, OpenedTyped
<1>8. PICK o \in Tr!Frames : o = Tr!Opened(p, Tr!Entered(f, n)) /\ o.dir = p
  BY <1>7 DEF Tr!Opened
<1>9. PICK v \in Seq(Tr!Frames) : v = <<o>> \o u /\ Len(v) = Len(u) + 1 /\ Chained(v)
  <2>1. Tr!Within(u[1].dir, o.dir)
    BY <1>4, <1>5, <1>6, <1>8
  <2>2. PICK v : v = <<o>> \o u
    OBVIOUS
  <2>3. v \in Seq(Tr!Frames) /\ Len(v) = Len(u) + 1
    BY <2>2, Pushed
  <2>4. Chained(v)
    BY <1>6, <2>1, <2>2, ChainedPush
  <2>5. QED
    BY <2>2, <2>3, <2>4
<1>10. v8' \in Seq(Tr!Entries) /\ Len(v8') >= Len(v8) /\ Tr!Closed(v2')
  <2>1. CASE UNCHANGED <<v8, v2>>
    BY <1>2, <2>1 DEF Tr!Closed, Tr!What
  <2>2. CASE Tr!Visit(x, n, "d")
    BY <1>1, <1>2, <1>5, <2>2, VisitTyped
  <2>3. QED
    BY <1>4, <2>1, <2>2 DEF SubDone, Tr!Abort
<1>11. \/ v4' = <<>> /\ v9' = "aborted" /\ v5' = v5
       \/ v4' = u /\ v9' = "walk" /\ v5' = v5
       \/ v4' = v /\ v9' = "walk" /\ v5' = Len(v4) + 1
  BY <1>1, <1>4, <1>6, <1>8, <1>9 DEF SubDone, Tr!Abort, Tr!Walking
<1>12. /\ v4' \in Seq(Tr!Frames) /\ Chained(v4') /\ v9' \in {"walk", "aborted"}
       /\ v4' # <<>> => v5' >= Len(v4')
       /\ v5' \in Nat
  <2>1. <<>> \in Seq(Tr!Frames) /\ Chained(<<>>)
    BY DEF Chained
  <2>2. CASE v4' = <<>> /\ v9' = "aborted" /\ v5' = v5
    BY <1>2, <2>1, <2>2
  <2>3. CASE v4' = u /\ v9' = "walk" /\ v5' = v5
    BY <1>2, <1>6, <2>3
  <2>4. CASE v4' = v /\ v9' = "walk" /\ v5' = Len(v4) + 1
    <3>1. Len(v) = Len(v4) + 1 /\ Len(v4) + 1 \in Nat
      BY <1>2, <1>6, <1>9
    <3>2. QED
      BY <1>9, <2>4, <3>1
  <2>5. QED
    BY <1>11, <2>2, <2>3, <2>4
<1>13. QED
  BY <1>1, <1>2, <1>10, <1>12, WalkTyped

(* The walk, when a subdirectory has been called for: the frames u with    *)
(* the next one, and a new one if it opens.                                *)
LEMMA SubKept ==
    ASSUME Tr!Sane, Tr!WalkRight(v2, v8, v4, v5), v4 \in Seq(Tr!Frames), v4 # <<>>,
           NEW f \in Tr!Frames, f = v4[1], f.left = {}, NEW n, NEW p \in Tr!Below, p = Append(f.dir, n),
           NEW h, h.dir = f.dir, h.text = f.text, h.left = f.left, h.grown = FALSE, Tr!Members(f.subs) = {n} \cup Tr!Members(h.subs),
           NEW u, Swapped(u, v4, h), NEW t, NEW l, Keeps(t, l), Tr!Reached(t, l, p)
    PROVE  /\ \A i \in DOMAIN u : Tr!FrameRight(t, l, u[i], Len(u) - i)
           /\ \A q \in Tr!Copied : Tr!Reached(t, l, q) \/ Tr!Ahead(u, q) \/ (Tr!Within(p, q) /\ p # q)
<1>1. Len(v4) \in Nat /\ Len(v4) >= 1 /\ DOMAIN v4 = 1..Len(v4)
  BY FrontFrame
<1>2. Len(u) = Len(v4) /\ u[1] = h /\ DOMAIN u = DOMAIN v4 /\ \A i \in DOMAIN v4 : i # 1 => u[i] = v4[i]
  BY DEF Swapped
<1>3. ASSUME NEW i \in DOMAIN u PROVE Tr!FrameRight(t, l, u[i], Len(u) - i)
  <2>1. Tr!FrameRight(v2, v8, v4[i], Len(v4) - i)
    BY <1>2 DEF Tr!WalkRight
  <2>2. Tr!FrameRight(t, l, v4[i], Len(v4) - i)
    BY <2>1, FrameKept DEF Keeps
  <2>3. CASE i # 1
    BY <1>2, <2>2, <2>3
  <2>4. CASE i = 1
    <3>1. Tr!FrameRight(t, l, f, Len(v4) - 1)
      BY <2>2, <2>4
    <3>2. Tr!FrameRight(t, l, h, Len(v4) - 1)
      BY <3>1 DEF Tr!FrameRight
    <3>3. QED
      BY <1>2, <2>4, <3>2
  <2>5. QED
    BY <2>3, <2>4
<1>4. ASSUME NEW q \in Tr!Copied PROVE Tr!Reached(t, l, q) \/ Tr!Ahead(u, q) \/ (Tr!Within(p, q) /\ p # q)
  <2>1. CASE Tr!Reached(v2, v8, q)
    BY <2>1 DEF Keeps
  <2>2. CASE Tr!Ahead(v4, q)
    <3>1. PICK i \in DOMAIN v4 : Tr!Waits(v4[i], q)
      BY <2>2 DEF Tr!Ahead
    <3>2. CASE i # 1
      BY <1>2, <3>1, <3>2 DEF Tr!Ahead
    <3>3. CASE i = 1
      <4>1. PICK m \in f.left \cup Tr!Members(f.subs) : Tr!Within(Append(f.dir, m), q)
        BY <3>1, <3>3 DEF Tr!Waits
      <4>2. CASE m \in Tr!Members(h.subs)
        <5>1. Tr!Waits(h, q)
          BY <4>1, <4>2 DEF Tr!Waits
        <5>2. 1 \in DOMAIN u
          BY <1>1, <1>2
        <5>3. QED
          BY <1>2, <5>1, <5>2 DEF Tr!Ahead
      <4>3. CASE m = n
        BY <4>1, <4>3
      <4>4. QED
        BY <4>1, <4>2, <4>3
    <3>4. QED
      BY <3>2, <3>3
  <2>3. QED
    BY <2>1, <2>2 DEF Tr!WalkRight
<1>5. QED
  BY <1>3, <1>4

(* A frame more.                                                           *)
LEMMA MoreAhead ==
    ASSUME NEW S, NEW u \in Seq(S), NEW o \in S, NEW v, v = <<o>> \o u
    PROVE  v[1] = o /\ 1 \in DOMAIN v /\ \A q : Tr!Ahead(u, q) => Tr!Ahead(v, q)
<1>1. Len(v) = Len(u) + 1 /\ v[1] = o /\ DOMAIN v = 1..(Len(u) + 1) /\ Len(u) \in Nat
  BY Pushed
<1>2. \A i \in 1..Len(u) : v[i + 1] = u[i]
  BY Pushed
<1>3. DOMAIN u = 1..Len(u)
  OBVIOUS
<1>4. ASSUME NEW q, Tr!Ahead(u, q) PROVE Tr!Ahead(v, q)
  <2>1. PICK i \in DOMAIN u : Tr!Waits(u[i], q)
    BY <1>4 DEF Tr!Ahead
  <2>2. i + 1 \in DOMAIN v /\ v[i + 1] = u[i]
    BY <1>1, <1>2, <1>3
  <2>3. QED
    BY <2>1, <2>2 DEF Tr!Ahead
<1>5. QED
  BY <1>1, <1>4

LEMMA MoreFrames ==
    ASSUME NEW S, NEW u \in Seq(S), NEW o \in S, NEW t, NEW l, Tr!FrameRight(t, l, o, Len(u)),
           \A i \in DOMAIN u : Tr!FrameRight(t, l, u[i], Len(u) - i), NEW v, v = <<o>> \o u
    PROVE  \A i \in DOMAIN v : Tr!FrameRight(t, l, v[i], Len(v) - i)
<1>1. Len(v) = Len(u) + 1 /\ v[1] = o /\ DOMAIN v = 1..(Len(u) + 1) /\ Len(u) \in Nat
  BY Pushed
<1>2. \A i \in 1..Len(u) : v[i + 1] = u[i]
  BY Pushed
<1>3. DOMAIN u = 1..Len(u)
  OBVIOUS
<1>4. ASSUME NEW i \in DOMAIN v PROVE Tr!FrameRight(t, l, v[i], Len(v) - i)
  <2>1. CASE i = 1
    <3>1. Len(v) - i = Len(u)
      BY <1>1, <2>1
    <3>2. QED
      BY <1>1, <2>1, <3>1
  <2>2. CASE i # 1
    <3>1. PICK j \in 1..Len(u) : i = j + 1
      <4>1. i - 1 \in 1..Len(u) /\ i = (i - 1) + 1
        BY <1>1, <2>2
      <4>2. QED
        BY <4>1
    <3>2. v[i] = u[j] /\ Len(v) - i = Len(u) - j
      BY <1>1, <1>2, <3>1
    <3>3. QED
      BY <1>3, <3>2
  <2>3. QED
    BY <2>1, <2>2
<1>5. QED
  BY <1>4

LEMMA WalkSubStep == ASSUME Tr!TrInv, Tr!WalkSub PROVE Tr!TrInv'
<1>1. v9 = "walk" /\ Tr!Walking /\ UNCHANGED <<v1, v3, v7, v10, v11, v12, v6>>
  BY DEF Tr!WalkSub, Tr!Steps, Tr!Untroubled, Tr!Walking
<1>2. Tr!Sane' /\ Tr!TrTypeOK'
  BY SubTyped
<1>3. /\ Tr!Sane /\ v4 \in Seq(Tr!Frames) /\ v4 # <<>> /\ Chained(v4) /\ v8 \in Seq(Tr!Entries) /\ v5 \in Nat
      /\ v5 >= Len(v4) /\ Len(v4) >= 1 /\ Len(v4) \in Nat
  BY <1>1, AtWalk
<1>4. PICK f \in Tr!Frames, n \in Tr!Names, h \in Tr!Frames : \E x, p :
             /\ f = Tr!Frame /\ f = v4[1] /\ f.left = {} /\ f.subs # <<>> /\ n = Head(f.subs) /\ x = Append(f.text, n) /\ p = Append(f.dir, n)
             /\ SubDone(f, n, x, p, h)
             /\ h.dir = f.dir /\ h.text = f.text /\ h.left = f.left /\ h.grown = FALSE /\ Tr!Members(f.subs) = {n} \cup Tr!Members(h.subs)
  BY SubFacts
<1>5. PICK x, p :
             /\ f = v4[1] /\ f.left = {} /\ x = Append(f.text, n) /\ p = Append(f.dir, n) /\ SubDone(f, n, x, p, h)
             /\ h.dir = f.dir /\ h.text = f.text /\ h.left = f.left /\ h.grown = FALSE /\ Tr!Members(f.subs) = {n} \cup Tr!Members(h.subs)
  BY <1>4
<1>6. v9' \in {"walk", "aborted"}
  BY <1>1, <1>5 DEF SubDone, Tr!Abort
<1>7. CASE Tr!Odd'
  BY <1>2, <1>6, <1>7, OddStep
<1>8. CASE ~Tr!Odd'
  <2>1. ~Tr!Odd
    BY <1>1, <1>8, OddKept
  <2>2. /\ Tr!IsDir /\ v3.op # "bgfile" /\ v7 = (IF v3.op = "get" THEN Tr!Top ELSE SourceDir)
        /\ Tr!WalkRight(v2, v8, v4, v5) /\ ~Tr!Misnamed /\ ~Tr!Deep
    BY <1>1, <2>1, AtWalkRight
  <2>3. Tr!FrameRight(v2, v8, f, Len(v4) - 1)
    <3>1. 1 \in DOMAIN v4
      BY <1>3
    <3>2. QED
      BY <1>5, <2>2, <3>1 DEF Tr!WalkRight
  <2>4. n \in Tr!NamesIn(v1, f.dir) /\ v1[p] \in {"d", "u"} /\ ~f.grown /\ Len(f.dir) = Len(Tr!Top) + (Len(v4) - 1)
    BY <1>5, <2>3 DEF Tr!FrameRight
  <2>5. /\ p \in Tr!Below /\ p # Tr!Top /\ Tr!Parent(p) = f.dir /\ x = Tr!Text(p) /\ Tr!Name(Tr!Text(p)) = n
        /\ Tr!From(v7, Tr!Text(p)) = p /\ Len(p) = Len(f.dir) + 1
    <3>1. PICK t, l, m : Tr!FrameRight(t, l, f, m)
      BY <2>3
    <3>2. Tr!Sane /\ v7 = (IF v3.op = "get" THEN Tr!Top ELSE SourceDir) /\ p = Append(f.dir, n)
      BY <1>3, <1>5, <2>2
    <3>3. /\ p \in Tr!Below /\ p # Tr!Top /\ Tr!Parent(p) = f.dir /\ Append(f.text, n) = Tr!Text(p) /\ Tr!Name(Tr!Text(p)) = n
          /\ Tr!From(v7, Tr!Text(p)) = p /\ Len(p) = Len(f.dir) + 1
      BY <2>4, <3>1, <3>2, FrameItem
    <3>4. QED
      BY <1>5, <3>3
  <2>6. ~Tr!TooDeep
    <3>1. SUFFICES ASSUME Tr!TooDeep PROVE FALSE
      OBVIOUS
    <3>2. v5 > 0
      BY <1>3
    <3>3. Tr!Remote /\ v5 > 0 => \E q \in Tr!Below : Len(q) >= Len(Tr!Top) + v5
      BY <2>2 DEF Tr!WalkRight
    <3>4. QED
      BY <1>3, <2>2, <3>1, <3>2, <3>3, DeepEnough
  <2>7. PICK t, l : t = v2' /\ l = v8'
    OBVIOUS
  <2>8. Tr!Good(v2) /\ Tr!Listing(FALSE, v8)
    BY <2>2 DEF Tr!WalkRight
  <2>9. Tr!Kind(p) = "d" /\ p \in Tr!Copied
    BY <2>4, <2>5, ImageIs, DirCopied
  <2>10. VisitIs(p, t, l)
    <3>1. Tr!Visit(Tr!Text(p), Tr!Name(Tr!Text(p)), Tr!Kind(p)) /\ v1[p] # "?"
      BY <1>5, <2>4, <2>5, <2>6, <2>9 DEF SubDone
    <3>2. Tr!Reached(v2, v8, Tr!Parent(p))
      BY <2>3, <2>5 DEF Tr!FrameRight
    <3>3. QED
      BY <1>1, <1>3, <2>2, <2>5, <2>7, <2>8, <3>1, <3>2, VisitRight
  <2>11. Tr!Good(t) /\ Tr!Listing(FALSE, l) /\ Keeps(t, l) /\ Tr!Reached(t, l, p)
    BY <2>9, <2>10 DEF VisitIs, Keeps
  <2>12. PICK u : u = <<h>> \o Tail(v4)
    OBVIOUS
  <2>13. Swapped(u, v4, h) /\ u \in Seq(Tr!Frames)
    <3>1. h.dir = v4[1].dir
      BY <1>5
    <3>2. v4 \in Seq(Tr!Frames) /\ v4 # <<>> /\ Chained(v4)
      BY <1>3
    <3>3. PICK s \in Seq(Tr!Frames) : s = v4
      BY <3>2
    <3>4. s # <<>> /\ Chained(s) /\ h.dir = s[1].dir /\ u = <<h>> \o Tail(s)
      BY <2>12, <3>1, <3>2, <3>3
    <3>5. u \in Seq(Tr!Frames)
      BY <3>4, ChainedSwap
    <3>6. Len(u) = Len(s) /\ u[1] = h
      BY <3>4, ChainedSwap
    <3>7. DOMAIN u = DOMAIN s /\ \A i \in DOMAIN s : i # 1 => u[i] = s[i]
      BY <3>4, ChainedSwap
    <3>8. QED
      BY <3>3, <3>5, <3>6, <3>7 DEF Swapped
  <2>14. /\ \A i \in DOMAIN u : Tr!FrameRight(t, l, u[i], Len(u) - i)
         /\ \A q \in Tr!Copied : Tr!Reached(t, l, q) \/ Tr!Ahead(u, q) \/ (Tr!Within(p, q) /\ p # q)
    <3>1. Tr!Sane /\ v4 \in Seq(Tr!Frames) /\ v4 # <<>> /\ Tr!WalkRight(v2, v8, v4, v5)
      BY <1>3, <2>2
    <3>2. /\ f = v4[1] /\ f.left = {} /\ p = Append(f.dir, n) /\ h.dir = f.dir /\ h.text = f.text /\ h.left = f.left /\ h.grown = FALSE
          /\ Tr!Members(f.subs) = {n} \cup Tr!Members(h.subs)
      BY <1>5
    <3>3. QED
      BY <2>5, <2>11, <2>13, <3>1, <3>2, SubKept
  <2>15. /\ v9' = "walk"
         /\ v4' = IF Tr!Opens(p) THEN <<Tr!Opened(p, Tr!Entered(f, n))>> \o u ELSE u
         /\ v5' = IF Tr!Opens(p) THEN Len(v4) + 1 ELSE v5
    BY <1>1, <1>5, <2>5, <2>6, <2>12 DEF SubDone
  <2>16. CASE ~Tr!Opens(p)
    <3>1. ASSUME NEW q \in Tr!Copied PROVE Tr!Reached(t, l, q) \/ Tr!Ahead(u, q)
      <4>1. q \in Tr!Below
        BY <1>3, CopyNameIs
      <4>2. ~(Tr!Within(p, q) /\ p # q)
        BY <1>3, <2>5, <2>16, <4>1, OpensIs
      <4>3. QED
        BY <2>14, <4>2
    <3>2. PICK d : d = v5 /\ d = v5'
      BY <2>15, <2>16
    <3>3. Tr!Remote /\ d > 0 => \E q \in Tr!Below : Len(q) >= Len(Tr!Top) + d
      BY <2>2, <3>2 DEF Tr!WalkRight
    <3>4. Tr!WalkRight(t, l, u, d)
      BY <2>11, <2>14, <3>1, <3>3 DEF Tr!WalkRight
    <3>5. v4' = u
      BY <2>15, <2>16
    <3>6. QED
      BY <1>1, <1>2, <2>1, <2>7, <2>15, <3>2, <3>4, <3>5, StillWalking
  <2>17. CASE Tr!Opens(p)
    <3>1. PICK o : o = Tr!Opened(p, Tr!Text(p))
      OBVIOUS
    <3>2. o \in Tr!Frames
      BY <1>3, <2>5, <3>1, BelowIs, TextIs, OpenedTyped
    <3>3. Tr!Entered(f, n) = Tr!Text(p)
      BY <1>5, <2>4, <2>5 DEF Tr!Entered
    <3>4. PICK v : v = <<o>> \o u
      OBVIOUS
    <3>5. v4' = v /\ v5' = Len(v4) + 1
      BY <2>15, <2>17, <3>1, <3>3, <3>4
    <3>6. Len(u) = Len(v4) /\ Len(u) \in Nat
      BY <1>3, <2>13 DEF Swapped
    <3>7. PICK a \in Nat, b \in Nat, c \in Nat : a = Len(Tr!Top) /\ b = Len(p) /\ c = Len(v4)
      BY <1>3, <2>5, TopIs, BelowIs
    <3>8. b = a + c
      <4>1. Len(f.dir) = a + (c - 1) /\ b = Len(f.dir) + 1
        BY <2>4, <2>5, <3>7
      <4>2. QED
        BY <3>7, <4>1
    <3>9. /\ Tr!FrameRight(t, l, o, c)
          /\ \A q \in Tr!Below : Tr!Within(p, q) /\ q # p => Tr!Waits(o, q)
          /\ Tr!Remote => \E q \in Tr!Below : Len(q) = Len(p) + 1
      <4>1. Len(p) = Len(Tr!Top) + c
        BY <3>7, <3>8
      <4>2. QED
        BY <1>3, <2>5, <2>11, <2>17, <3>1, <4>1, OpenedRight
    <3>10. /\ \A i \in DOMAIN v : Tr!FrameRight(t, l, v[i], Len(v) - i)
           /\ v[1] = o /\ 1 \in DOMAIN v /\ \A q : Tr!Ahead(u, q) => Tr!Ahead(v, q)
      <4>1. Tr!FrameRight(t, l, o, Len(u))
        BY <3>6, <3>7, <3>9
      <4>2. QED
        <5>1. u \in Seq(Tr!Frames) /\ \A i \in DOMAIN u : Tr!FrameRight(t, l, u[i], Len(u) - i)
          BY <2>13, <2>14
        <5>2. \A i \in DOMAIN v : Tr!FrameRight(t, l, v[i], Len(v) - i)
          BY <3>2, <3>4, <4>1, <5>1, MoreFrames
        <5>3. v[1] = o /\ 1 \in DOMAIN v
          BY <3>2, <3>4, <5>1, MoreAhead
        <5>4. \A q : Tr!Ahead(u, q) => Tr!Ahead(v, q)
          BY <3>2, <3>4, <5>1, MoreAhead
        <5>5. QED
          BY <5>2, <5>3, <5>4
    <3>11. ASSUME NEW q \in Tr!Copied PROVE Tr!Reached(t, l, q) \/ Tr!Ahead(v, q)
      <4>1. q \in Tr!Below
        BY <1>3, CopyNameIs
      <4>2. CASE Tr!Within(p, q) /\ p # q
        <5>1. Tr!Waits(o, q)
          BY <3>9, <4>1, <4>2
        <5>2. QED
          BY <3>10, <5>1 DEF Tr!Ahead
      <4>3. QED
        BY <2>14, <3>10, <4>2
    <3>12. PICK d : d = c + 1
      OBVIOUS
    <3>13. Tr!Remote /\ d > 0 => \E q \in Tr!Below : Len(q) >= Len(Tr!Top) + d
      <4>1. SUFFICES ASSUME Tr!Remote PROVE \E q \in Tr!Below : Len(q) >= Len(Tr!Top) + d
        OBVIOUS
      <4>2. PICK q \in Tr!Below : Len(q) = Len(p) + 1
        BY <3>9, <4>1
      <4>3. Len(q) = b + 1
        BY <3>7, <4>2
      <4>4. Len(q) >= Len(Tr!Top) + d
        BY <3>7, <3>8, <3>12, <4>3
      <4>5. QED
        BY <4>4
    <3>14. Tr!WalkRight(t, l, v, d)
      BY <2>11, <3>10, <3>11, <3>13 DEF Tr!WalkRight
    <3>15. d = v5'
      BY <3>5, <3>7, <3>12
    <3>16. QED
      BY <1>1, <1>2, <2>1, <2>7, <2>15, <3>5, <3>14, <3>15, StillWalking
  <2>18. QED
    BY <2>16, <2>17
<1>9. QED
  BY <1>7, <1>8

LEMMA WalkRefusedStep == ASSUME Tr!TrInv, Tr!WalkRefused PROVE Tr!TrInv'
<1>1. /\ v9 = "walk" /\ Tr!Walking /\ v3.op = "bgput" /\ UNCHANGED <<v1, v3, v10, v11, v6, v5, v8, v2>>
      /\ v12' = v12 \cup {"mkdir"} /\ v4' = <<>> /\ v9' = "aborted"
  BY DEF Tr!WalkRefused, Tr!Steps, Tr!Happens, Tr!Abort, Tr!Walking
<1>2. /\ Tr!Sane /\ Tr!Closed(v2) /\ v8 \in Seq(Tr!Entries) /\ v5 \in Nat /\ v6 \in Nat /\ v6 >= PathSpace
      /\ Len(v8) \in Nat
  BY <1>1, AtWalk
<1>3. Tr!Sane' /\ Tr!TrTypeOK'
  <2>1. <<>> \in Seq(Tr!Frames) /\ Chained(<<>>)
    BY DEF Chained
  <2>2. Tr!Closed(v2')
    BY <1>1, <1>2 DEF Tr!Closed, Tr!What
  <2>3. Len(v8') >= Len(v8)
    BY <1>1, <1>2
  <2>4. QED
    BY <1>1, <1>2, <2>1, <2>2, <2>3, WalkTyped
<1>4. CASE Tr!Odd'
  BY <1>1, <1>3, <1>4, OddStep
<1>5. CASE ~Tr!Odd'
  <2>1. ~Tr!Odd
    BY <1>1, <1>5, OddKept
  <2>2. PICK t, l : t = v2' /\ l = v8'
    OBVIOUS
  <2>3. Tr!Good(t) /\ Tr!Listing(FALSE, l)
    BY <1>1, <2>1, <2>2, AtWalkRight DEF Tr!WalkRight
  <2>4. Tr!Good(v2)' /\ Tr!Listing(FALSE, v8)'
    BY <1>1, <2>2, <2>3, GoodSteady, ListingSteady
  <2>5. Tr!AbortedInv'
    BY <1>1, <2>4 DEF Tr!AbortedInv
  <2>6. QED
    BY <1>1, <1>3, <2>5 DEF Tr!TrInv, Tr!StartInv, Tr!WalkInv, Tr!ListedInv, Tr!WorkInv, Tr!DoneInv
<1>6. QED
  BY <1>4, <1>5

LEMMA WalkUpStep == ASSUME Tr!TrInv, Tr!WalkUp PROVE Tr!TrInv'
<1>1. /\ v9 = "walk" /\ Tr!Walking /\ UNCHANGED <<v1, v3, v7, v10, v11, v12, v6, v5, v8, v2, v9>>
      /\ v4' = Tail(v4) /\ Tr!Frame.left = {} /\ Tr!Frame.subs = <<>>
  BY DEF Tr!WalkUp, Tr!Steps, Tr!Untroubled, Tr!Walking
<1>2. /\ Tr!Sane /\ Tr!Closed(v2) /\ v8 \in Seq(Tr!Entries) /\ v5 \in Nat /\ v6 \in Nat /\ v6 >= PathSpace
      /\ v4 \in Seq(Tr!Frames) /\ v4 # <<>> /\ Chained(v4)
      /\ v5 >= Len(v4) /\ Len(v4) >= 1 /\ Len(v4) \in Nat /\ Len(v8) \in Nat /\ Tr!Frame = v4[1]
  BY <1>1, AtWalk
<1>3. PICK u : u = Tail(v4)
  OBVIOUS
<1>4. /\ u \in Seq(Tr!Frames) /\ Len(u) = Len(v4) - 1 /\ DOMAIN u = 1..(Len(v4) - 1) /\ DOMAIN v4 = 1..Len(v4)
      /\ \A i \in 1..(Len(v4) - 1) : u[i] = v4[i + 1]
  BY <1>2, <1>3, FrontFrame
<1>5. Chained(u)
  BY <1>2, <1>3, ChainedPop
<1>6. Tr!Sane' /\ Tr!TrTypeOK'
  <2>1. Tr!Closed(v2')
    BY <1>1, <1>2 DEF Tr!Closed, Tr!What
  <2>2. Len(v8') >= Len(v8) /\ v5' >= Len(v4')
    BY <1>1, <1>2, <1>3, <1>4
  <2>3. QED
    BY <1>1, <1>2, <1>3, <1>4, <1>5, <2>1, <2>2, WalkTyped
<1>7. CASE Tr!Odd'
  BY <1>1, <1>6, <1>7, OddStep
<1>8. CASE ~Tr!Odd'
  <2>1. ~Tr!Odd
    BY <1>1, <1>8, OddKept
  <2>2. Tr!WalkRight(v2, v8, v4, v5)
    BY <1>1, <2>1, AtWalkRight
  <2>3. PICK t, l, d : t = v2 /\ l = v8 /\ d = v5
    OBVIOUS
  <2>4. Tr!WalkRight(t, l, v4, d)
    BY <2>2, <2>3
  <2>5. ASSUME NEW i \in DOMAIN u PROVE Tr!FrameRight(t, l, u[i], Len(u) - i)
    <3>1. i + 1 \in DOMAIN v4 /\ u[i] = v4[i + 1] /\ Len(u) - i = Len(v4) - (i + 1)
      BY <1>2, <1>4
    <3>2. Tr!FrameRight(t, l, v4[i + 1], Len(v4) - (i + 1))
      BY <2>4, <3>1 DEF Tr!WalkRight
    <3>3. QED
      BY <3>1, <3>2
  <2>6. ASSUME NEW q \in Tr!Copied PROVE Tr!Reached(t, l, q) \/ Tr!Ahead(u, q)
    <3>1. CASE Tr!Ahead(v4, q)
      <4>1. PICK i \in DOMAIN v4 : Tr!Waits(v4[i], q)
        BY <3>1 DEF Tr!Ahead
      <4>2. i # 1
        <5>1. Tr!Members(<<>>) = {}
          BY DEF Tr!Members
        <5>2. QED
          BY <1>1, <1>2, <4>1, <5>1 DEF Tr!Waits
      <4>3. i - 1 \in DOMAIN u /\ u[i - 1] = v4[(i - 1) + 1] /\ (i - 1) + 1 = i
        BY <1>2, <1>4, <4>1, <4>2
      <4>4. QED
        BY <4>1, <4>3 DEF Tr!Ahead
    <3>2. QED
      BY <2>4, <3>1 DEF Tr!WalkRight
  <2>7. Tr!WalkRight(t, l, u, d)
    BY <2>4, <2>5, <2>6 DEF Tr!WalkRight
  <2>8. t = v2' /\ l = v8' /\ u = v4' /\ d = v5'
    BY <1>1, <1>3, <2>3
  <2>9. QED
    BY <1>1, <1>6, <2>1, <2>7, <2>8, StillWalking
<1>9. QED
  BY <1>7, <1>8

(***************************************************************************)
(* The list, with the names it is worked through by.                       *)
(***************************************************************************)
LEMMA LaterTyped ==
    ASSUME Tr!Sane, Tr!TrTypeOK, UNCHANGED <<v1, v3, v4, v5, v6>>, v8' \in Seq(Tr!Entries), Len(v8') = Len(v8),
           v10' \in 1..(Len(v8) + 1), Tr!Closed(v2'), v11' \in {"ok", "bad"}, v9' \in {"work", "done"}
    PROVE  Tr!Sane' /\ Tr!TrTypeOK'
<1>1. v5 \in Nat /\ v6 \in Nat /\ v6 >= PathSpace /\ v4 \in Seq(Tr!Frames)
  BY DEF Tr!Sane
<1>2. Tr!Sane'
  BY <1>1, SaneKept
<1>3. Tr!Closed(v2)'
  BY DEF Tr!Closed, Tr!What
<1>4. /\ (\A i \in 1..(Len(v4) - 1) : Tr!Within(v4[i + 1].dir, v4[i].dir))'
      /\ (v4 # <<>> => v5 >= Len(v4))'
  BY DEF Tr!TrTypeOK
<1>5. v10' \in 1..(Len(v8') + 1)
  OBVIOUS
<1>6. QED
  BY <1>2, <1>3, <1>4, <1>5 DEF Tr!TrTypeOK

LEMMA MappedTyped ==
    ASSUME NEW S, NEW m \in Seq(S), NEW l, DOMAIN l = DOMAIN m, l = [i \in DOMAIN l |-> l[i]], \A i \in DOMAIN m : l[i] \in S
    PROVE  l \in Seq(S) /\ Len(l) = Len(m)
<1>1. DOMAIN m = 1..Len(m) /\ Len(m) \in Nat
  OBVIOUS
<1>2. l \in [1..Len(m) -> S]
  BY <1>1
<1>3. QED
  BY <1>1, <1>2

LEMMA NamedTyped ==
    ASSUME Tr!Sane, NEW e \in Tr!Entries
    PROVE  /\ Tr!GetNames(e) \in Tr!Entries /\ Tr!GetUnnamed(e) \in Tr!Entries
           /\ [e EXCEPT !.to = TargetDir \o Tr!Compressed(@)] \in Tr!Entries
<1>1. PICK k \in {"-", "d", "l"}, a \in Seq(Tr!Comp), b \in Seq(Tr!Comp) : e = [kind |-> k, from |-> a, to |-> b]
  BY DEF Tr!Entries
<1>2. e.kind = k /\ e.from = a /\ e.to = b
  BY <1>1
<1>3. /\ v3.item \in Seq(Tr!Comp) /\ TargetDir \o Tr!Base \in Seq(Tr!Comp) /\ Tr!NoName \in Seq(Tr!Comp) /\ TargetDir \in Seq(Tr!Comp) /\ Tr!Compressed(b) \in Seq(Tr!Comp)
  BY PathsTyped, CompIs, NamesAreComp, CompressedTyped
<1>4. v3.item \o b \in Seq(Tr!Comp) /\ (TargetDir \o Tr!Base) \o Tr!Compressed(b) \in Seq(Tr!Comp) /\ TargetDir \o Tr!Compressed(b) \in Seq(Tr!Comp)
  BY <1>3, ConcatProperties
<1>5. Tr!GetNames(e) \in Tr!Entries /\ Tr!GetUnnamed(e) \in Tr!Entries
  BY <1>2, <1>3, <1>4 DEF Tr!GetNames, Tr!GetUnnamed, Tr!Entries
<1>6. [e EXCEPT !.to = TargetDir \o Tr!Compressed(@)] = [kind |-> k, from |-> a, to |-> TargetDir \o Tr!Compressed(b)]
  <2>1. PICK y : y = TargetDir \o Tr!Compressed(e.to)
    OBVIOUS
  <2>2. [e EXCEPT !.to = y] = [kind |-> k, from |-> a, to |-> y]
    BY <1>1, EntryWith
  <2>3. QED
    BY <1>2, <2>1, <2>2
<1>7. [e EXCEPT !.to = TargetDir \o Tr!Compressed(@)] \in Tr!Entries
  BY <1>3, <1>4, <1>6 DEF Tr!Entries
<1>8. QED
  BY <1>5, <1>7

LEMMA NamedRight ==
    ASSUME Tr!Sane, v3.op \in {"get", "put"}, NEW S, NEW m \in Seq(S), Tr!Listing(FALSE, m), NEW l, DOMAIN l = DOMAIN m,
           \A i \in DOMAIN m : \A p \in Tr!Below : m[i] = Tr!ItemOf(FALSE, p) => l[i] = Tr!ItemOf(TRUE, p)
    PROVE  Tr!Listing(TRUE, l) /\ \A p \in Tr!Copied : Tr!IsListed(FALSE, m, p) => Tr!IsListed(TRUE, l, p)
<1>1. ASSUME NEW i \in DOMAIN l
      PROVE  \E p \in Tr!Copied : l[i] = Tr!ItemOf(TRUE, p) /\ Tr!Follows(TRUE, l, p, i) /\ (Tr!Spooling => v1[p] = "-")
  <2>1. PICK p \in Tr!Copied : m[i] = Tr!ItemOf(FALSE, p) /\ Tr!Follows(FALSE, m, p, i) /\ (Tr!Spooling => v1[p] = "-")
    BY DEF Tr!Listing
  <2>2. p \in Tr!Below
    BY CopyNameIs
  <2>3. l[i] = Tr!ItemOf(TRUE, p)
    BY <2>1, <2>2
  <2>4. Tr!Follows(TRUE, l, p, i)
    <3>1. CASE p # Tr!Top /\ \E j \in 1..(i - 1) : m[j] = Tr!ItemOf(FALSE, Tr!Parent(p))
      <4>1. Tr!Parent(p) \in Tr!Below
        BY <2>2, <3>1, ParentBelow
      <4>2. PICK j \in 1..(i - 1) : m[j] = Tr!ItemOf(FALSE, Tr!Parent(p))
        BY <3>1
      <4>3. j \in DOMAIN m
        <5>1. i \in 1..Len(m) /\ DOMAIN m = 1..Len(m) /\ Len(m) \in Nat
          OBVIOUS
        <5>2. QED
          BY <4>2, <5>1
      <4>4. l[j] = Tr!ItemOf(TRUE, Tr!Parent(p))
        BY <4>1, <4>2, <4>3
      <4>5. QED
        BY <4>4 DEF Tr!Follows
    <3>2. QED
      BY <2>1, <3>1 DEF Tr!Follows
  <2>5. QED
    BY <2>1, <2>3, <2>4
<1>2. ASSUME NEW p \in Tr!Copied, Tr!IsListed(FALSE, m, p) PROVE Tr!IsListed(TRUE, l, p)
  <2>1. PICK i \in DOMAIN m : m[i] = Tr!ItemOf(FALSE, p)
    BY <1>2 DEF Tr!IsListed
  <2>2. p \in Tr!Below
    BY CopyNameIs
  <2>3. QED
    BY <2>1, <2>2 DEF Tr!IsListed
<1>3. QED
  BY <1>1, <1>2 DEF Tr!Listing

LEMMA WalkOver ==
    ASSUME Tr!TrInv, v9 = "walk", v4 = <<>>, ~Tr!Odd
    PROVE  /\ Tr!Good(v2) /\ Tr!Listing(FALSE, v8) /\ \A p \in Tr!Copied : Tr!Reached(v2, v8, p)
<1>1. Tr!WalkRight(v2, v8, v4, v5)
  BY AtWalkRight
<1>2. \A p : ~Tr!Ahead(v4, p)
  BY DEF Tr!Ahead
<1>3. QED
  BY <1>1, <1>2 DEF Tr!WalkRight

LEMMA Anywhere ==
    ASSUME Tr!TrInv
    PROVE  /\ Tr!Sane /\ Tr!TrTypeOK /\ Tr!Closed(v2) /\ v8 \in Seq(Tr!Entries) /\ v10 \in 1..(Len(v8) + 1) /\ v11 \in {"ok", "bad"}
           /\ Len(v8) \in Nat /\ DOMAIN v8 = 1..Len(v8) /\ 1 \in 1..(Len(v8) + 1)
<1>1. Tr!Sane /\ Tr!TrTypeOK
  BY DEF Tr!TrInv
<1>2. v8 \in Seq(Tr!Entries)
  BY <1>1 DEF Tr!Sane
<1>3. QED
  BY <1>1, <1>2 DEF Tr!TrTypeOK

LEMMA CourseBegun ==
    ASSUME Tr!IsDir, NEW t, NEW l, Tr!Good(t), Tr!Listing(TRUE, l), \A p \in Tr!Copied : Tr!Unnamed(p) \/ Tr!IsListed(TRUE, l, p)
    PROVE  Tr!OnCourse(t, l, 1, "ok", {})
<1>1. \A i \in 1..(1 - 1) : Tr!Achieved(t, l[i])
  OBVIOUS
<1>2. QED
  BY <1>1 DEF Tr!OnCourse

LEMMA AtWorkRight ==
    ASSUME Tr!TrInv, UNCHANGED <<v1, v3>>, Tr!Sane', Tr!TrTypeOK', v9' = "work", v3.op \in {"get", "put"},
           NEW t, t = v2', NEW l, l = v8', NEW k, k = v10', NEW o, o = v11', NEW f, f = v12',
           ~Tr!Odd' /\ "back" \notin f => v7' = SourceDir /\ "cwd" \notin f /\ Tr!OnCourse(t, l, k, o, f)
    PROVE  Tr!TrInv'
<1>1. SUFFICES ASSUME ~Tr!Odd', "back" \notin f PROVE Tr!WorkInv'
  BY DEF Tr!TrInv, Tr!StartInv, Tr!WalkInv, Tr!AbortedInv, Tr!ListedInv, Tr!DoneInv, Tr!WorkInv
<1>2. Tr!OnCourse(v2, v8, v10, v11, v12)'
  BY <1>1, CourseSteady
<1>3. QED
  BY <1>1, <1>2 DEF Tr!WorkInv

LEMMA AtDoneRight ==
    ASSUME Tr!TrInv, UNCHANGED <<v1, v3>>, Tr!Sane', Tr!TrTypeOK', v9' = "done",
           NEW t, t = v2', NEW l, l = v8', NEW o, o = v11', NEW f, f = v12',
           ~Tr!Odd' /\ "back" \notin f => Tr!DoneRight(t, l, o, f)
    PROVE  Tr!TrInv'
<1>1. SUFFICES ASSUME ~Tr!Odd', "back" \notin f PROVE Tr!DoneInv'
  BY DEF Tr!TrInv, Tr!StartInv, Tr!WalkInv, Tr!AbortedInv, Tr!ListedInv, Tr!DoneInv, Tr!WorkInv
<1>2. Tr!DoneRight(v2, v8, v11, v12)'
  BY <1>1, DoneSteady
<1>3. QED
  BY <1>1, <1>2 DEF Tr!DoneInv

LEMMA GetListedStep == ASSUME Tr!TrInv, Tr!GetListed PROVE Tr!TrInv'
<1>1. /\ v3.op = "get" /\ ((v9 = "walk" /\ v4 = <<>>) \/ v9 = "aborted") /\ v9' = "work"
      /\ UNCHANGED <<v1, v3, v4, v5, v6, v10, v2, v11>>
      /\ v8' = [i \in DOMAIN v8 |-> IF v9 = "aborted" THEN Tr!GetUnnamed(v8[i]) ELSE Tr!GetNames(v8[i])]
      /\ (v7' = SourceDir /\ v12' = v12) \/ "back" \in v12'
  BY DEF Tr!GetListed, Tr!Steps, Tr!Untroubled, Tr!Happens, Tr!walkvars
<1>2. /\ Tr!Sane /\ Tr!TrTypeOK /\ Tr!Closed(v2) /\ v8 \in Seq(Tr!Entries) /\ v10 \in 1..(Len(v8) + 1) /\ v11 \in {"ok", "bad"}
  BY Anywhere
<1>3. PICK l : l = v8'
  OBVIOUS
<1>4. /\ DOMAIN l = DOMAIN v8 /\ l = [i \in DOMAIN l |-> l[i]]
      /\ \A i \in DOMAIN v8 : l[i] = IF v9 = "aborted" THEN Tr!GetUnnamed(v8[i]) ELSE Tr!GetNames(v8[i])
  BY <1>1, <1>3
<1>5. l \in Seq(Tr!Entries) /\ Len(l) = Len(v8)
  <2>1. ASSUME NEW i \in DOMAIN v8 PROVE l[i] \in Tr!Entries
    <3>1. v8[i] \in Tr!Entries
      BY <1>2
    <3>2. Tr!GetNames(v8[i]) \in Tr!Entries /\ Tr!GetUnnamed(v8[i]) \in Tr!Entries
      BY <1>2, <3>1, NamedTyped
    <3>3. QED
      BY <1>4, <3>2
  <2>2. QED
    BY <1>2, <1>4, <2>1, MappedTyped
<1>6. Tr!Sane' /\ Tr!TrTypeOK'
  <2>1. Tr!Closed(v2')
    BY <1>1, <1>2 DEF Tr!Closed, Tr!What
  <2>2. QED
    BY <1>1, <1>2, <1>3, <1>5, <2>1, LaterTyped
<1>7. PICK t, k, o, f : t = v2' /\ k = v10' /\ o = v11' /\ f = v12'
  OBVIOUS
<1>8. ASSUME ~Tr!Odd', "back" \notin f PROVE v7' = SourceDir /\ "cwd" \notin f /\ Tr!OnCourse(t, l, k, o, f)
  <2>1. ~Tr!Odd
    BY <1>1, <1>8, OddKept
  <2>2. v7' = SourceDir /\ f = v12
    BY <1>1, <1>7, <1>8
  <2>3. v9 = "walk" /\ v4 = <<>>
    BY <1>1, <2>1 DEF Tr!TrInv, Tr!AbortedInv
  <2>4. Tr!IsDir /\ v12 = {} /\ v11 = "ok" /\ v10 = 1
    BY <2>1, <2>3, AtWalkRight
  <2>5. Tr!Good(v2) /\ Tr!Listing(FALSE, v8) /\ \A p \in Tr!Copied : Tr!Reached(v2, v8, p)
    BY <2>1, <2>3, WalkOver
  <2>6. ~Tr!Spooling
    BY <1>1 DEF Tr!Spooling
  <2>7. \A i \in DOMAIN v8 : \A p \in Tr!Below : v8[i] = Tr!ItemOf(FALSE, p) => l[i] = Tr!ItemOf(TRUE, p)
    <3>1. ASSUME NEW i \in DOMAIN v8, NEW p \in Tr!Below, v8[i] = Tr!ItemOf(FALSE, p) PROVE l[i] = Tr!ItemOf(TRUE, p)
      <4>1. v8[i] = Tr!Listed(Tr!Text(p), Tr!Kind(p))
        BY <2>6, <3>1 DEF Tr!ItemOf, Tr!WalkItem
      <4>2. Tr!GetNames(Tr!Listed(Tr!Text(p), Tr!Kind(p))) = Tr!WorkItem(p)
        BY <1>1, <1>2, GetNamesAre
      <4>3. l[i] = Tr!GetNames(v8[i])
        BY <1>4, <2>3
      <4>4. QED
        BY <4>1, <4>2, <4>3 DEF Tr!ItemOf
    <3>2. QED
      BY <3>1
  <2>8. Tr!Listing(TRUE, l) /\ \A p \in Tr!Copied : Tr!IsListed(FALSE, v8, p) => Tr!IsListed(TRUE, l, p)
    BY <1>1, <1>2, <1>4, <2>5, <2>7, NamedRight
  <2>9. \A p \in Tr!Copied : Tr!Unnamed(p) \/ Tr!IsListed(TRUE, l, p)
    BY <2>5, <2>6, <2>8 DEF Tr!Reached
  <2>10. Tr!Good(t) /\ k = 1 /\ o = "ok" /\ f = {}
    BY <1>1, <1>7, <2>2, <2>4, <2>5
  <2>11. QED
    BY <2>2, <2>4, <2>8, <2>9, <2>10, CourseBegun
<1>9. QED
  BY <1>1, <1>3, <1>6, <1>7, <1>8, AtWorkRight

LEMMA SpoolEndsStep == ASSUME Tr!TrInv, Tr!SpoolEnds PROVE Tr!TrInv'
<1>1. /\ Tr!Spooling /\ ((v9 = "walk" /\ v4 = <<>>) \/ v9 = "aborted") /\ v9' = "done"
      /\ v11' = (IF v9 = "aborted" THEN "bad" ELSE v11)
      /\ UNCHANGED <<v1, v3, v4, v5, v6, v10, v8, v2, v12>>
  BY DEF Tr!SpoolEnds, Tr!Steps, Tr!Untroubled, Tr!walkvars, Tr!workvars
<1>2. /\ Tr!Sane /\ Tr!TrTypeOK /\ Tr!Closed(v2) /\ v8 \in Seq(Tr!Entries) /\ v10 \in 1..(Len(v8) + 1) /\ v11 \in {"ok", "bad"}
  BY Anywhere
<1>3. Tr!Sane' /\ Tr!TrTypeOK'
  <2>1. Tr!Closed(v2')
    BY <1>1, <1>2 DEF Tr!Closed, Tr!What
  <2>2. QED
    BY <1>1, <1>2, <2>1, LaterTyped
<1>4. PICK t, l, o, f : t = v2' /\ l = v8' /\ o = v11' /\ f = v12'
  OBVIOUS
<1>5. ASSUME ~Tr!Odd', "back" \notin f PROVE Tr!DoneRight(t, l, o, f)
  <2>1. ~Tr!Odd
    BY <1>1, <1>5, OddKept
  <2>2. v3.op # "get"
    BY <1>1 DEF Tr!Spooling
  <2>3. t = v2 /\ l = v8 /\ f = v12
    BY <1>1, <1>4
  <2>4. CASE v9 = "walk"
    <3>1. v12 = {} /\ v11 = "ok"
      BY <2>1, <2>4, AtWalkRight
    <3>2. Tr!Good(v2) /\ Tr!Listing(FALSE, v8) /\ \A p \in Tr!Copied : Tr!Reached(v2, v8, p)
      BY <1>1, <2>1, <2>4, WalkOver
    <3>3. o = "ok"
      BY <1>1, <1>4, <2>4, <3>1
    <3>4. QED
      BY <1>1, <2>2, <2>3, <3>2, <3>3 DEF Tr!DoneRight
  <2>5. CASE v9 = "aborted"
    <3>1. v12 # {} /\ Tr!Good(v2) /\ Tr!Listing(FALSE, v8)
      BY <2>1, <2>5 DEF Tr!TrInv, Tr!AbortedInv
    <3>2. o = "bad"
      BY <1>1, <1>4, <2>5
    <3>3. QED
      BY <2>2, <2>3, <3>1, <3>2 DEF Tr!DoneRight
  <2>6. QED
    BY <1>1, <2>4, <2>5
<1>6. QED
  BY <1>1, <1>3, <1>4, <1>5, AtDoneRight

(* A put of a directory has something to list, unless it is Bare.          *)
LEMMA SomeNamed ==
    ASSUME Tr!Sane, Tr!IsDir, v3.op = "put", ~Tr!Bare
    PROVE  \E p \in Tr!Copied : ~Tr!Unnamed(p)
<1>1. SUFFICES ASSUME \A p \in Tr!Copied : Tr!Unnamed(p) PROVE FALSE
  OBVIOUS
<1>2. Tr!Top \in Tr!Below /\ v1[Tr!Top] \in {"d", "u"}
  BY TopBelow DEF Tr!IsDir
<1>3. Tr!Top \in Tr!Copied
  BY <1>2, DirCopied
<1>4. v3.item = <<".">>
  <2>1. Tr!Text(Tr!Top) = v3.item
    BY <1>2, RootIs DEF Tr!TopText
  <2>2. QED
    BY <1>1, <1>3, <2>1 DEF Tr!Unnamed
<1>5. ASSUME NEW p \in Tr!Copied PROVE p = Tr!Top
  <2>1. SUFFICES ASSUME p # Tr!Top PROVE FALSE
    OBVIOUS
  <2>2. p \in Tr!Below
    BY CopyNameIs
  <2>3. /\ Tr!Parent(p) \in Tr!Below /\ v1[Tr!Parent(p)] = "d" /\ Tr!Name(p) \in Tr!NamesIn(v1, Tr!Parent(p))
        /\ p = Append(Tr!Parent(p), Tr!Name(p))
    BY <2>1, <2>2, ParentBelow
  <2>4. Tr!Text(p) # <<".">>
    BY <2>3, Downward
  <2>5. QED
    BY <1>1, <2>4 DEF Tr!Unnamed
<1>6. QED
  BY <1>3, <1>4, <1>5 DEF Tr!Bare

LEMMA PutListedStep == ASSUME Tr!TrInv, Tr!PutListed PROVE Tr!TrInv'
<1>1. /\ v3.op = "put" /\ ((v9 = "walk" /\ v4 = <<>>) \/ v9 = "listed")
      /\ UNCHANGED <<v1, v3, v4, v5, v6, v10, v7, v12, v2>>
      /\ v8' = [i \in DOMAIN v8 |-> [v8[i] EXCEPT !.to = TargetDir \o Tr!Compressed(@)]]
      /\ \/ v8 = <<>> /\ v9' = "done" /\ v11' = "bad"
         \/ v8 # <<>> /\ v9' = "work" /\ v11' = v11
  BY DEF Tr!PutListed, Tr!Steps, Tr!Untroubled, Tr!walkvars
<1>2. /\ Tr!Sane /\ Tr!TrTypeOK /\ Tr!Closed(v2) /\ v8 \in Seq(Tr!Entries) /\ v10 \in 1..(Len(v8) + 1) /\ v11 \in {"ok", "bad"}
  BY Anywhere
<1>3. PICK l : l = v8'
  OBVIOUS
<1>4. /\ DOMAIN l = DOMAIN v8 /\ l = [i \in DOMAIN l |-> l[i]]
      /\ \A i \in DOMAIN v8 : l[i] = [v8[i] EXCEPT !.to = TargetDir \o Tr!Compressed(@)]
  BY <1>1, <1>3
<1>5. l \in Seq(Tr!Entries) /\ Len(l) = Len(v8)
  <2>1. ASSUME NEW i \in DOMAIN v8 PROVE l[i] \in Tr!Entries
    <3>1. v8[i] \in Tr!Entries
      BY <1>2
    <3>2. [v8[i] EXCEPT !.to = TargetDir \o Tr!Compressed(@)] \in Tr!Entries
      BY <1>2, <3>1, NamedTyped
    <3>3. QED
      BY <1>4, <3>2
  <2>2. QED
    BY <1>2, <1>4, <2>1, MappedTyped
<1>6. Tr!Sane' /\ Tr!TrTypeOK'
  <2>1. Tr!Closed(v2')
    BY <1>1, <1>2 DEF Tr!Closed, Tr!What
  <2>2. v9' \in {"work", "done"} /\ v11' \in {"ok", "bad"}
    BY <1>1, <1>2
  <2>3. QED
    BY <1>1, <1>2, <1>3, <1>5, <2>1, <2>2, LaterTyped
<1>7. PICK t, k, o, f : t = v2' /\ k = v10' /\ o = v11' /\ f = v12'
  OBVIOUS
<1>8. ~Tr!Spooling
  BY <1>1 DEF Tr!Spooling
<1>9. CASE v9' = "done"
  <2>1. ASSUME ~Tr!Odd' PROVE FALSE
    <3>1. ~Tr!Odd
      BY <1>1, <2>1, OddKept
    <3>2. v8 = <<>>
      BY <1>1, <1>9
    <3>3. CASE v9 = "listed"
      <4>1. v8 = Tr!Plain(v3.item, Tr!Base)
        BY <3>3 DEF Tr!TrInv, Tr!ListedInv
      <4>2. QED
        BY <1>2, <3>2, <4>1, PathsTyped, PlainTyped
    <3>4. CASE v9 = "walk"
      <4>1. Tr!IsDir /\ ~Tr!Bare
        BY <3>1, <3>4, AtWalkRight
      <4>2. PICK p \in Tr!Copied : ~Tr!Unnamed(p)
        BY <1>1, <1>2, <4>1, SomeNamed
      <4>3. Tr!Reached(v2, v8, p)
        BY <1>1, <3>1, <3>4, WalkOver
      <4>4. QED
        BY <1>8, <3>2, <4>2, <4>3 DEF Tr!Reached, Tr!IsListed
    <3>5. QED
      BY <1>1, <3>3, <3>4
  <2>2. QED
    BY <1>1, <1>3, <1>6, <1>7, <1>9, <2>1, AtDoneRight
<1>10. CASE v9' = "work"
  <2>1. ASSUME ~Tr!Odd', "back" \notin f PROVE v7' = SourceDir /\ "cwd" \notin f /\ Tr!OnCourse(t, l, k, o, f)
    <3>1. ~Tr!Odd /\ v11' = v11
      BY <1>1, <1>10, <2>1, OddKept
    <3>2. CASE v9 = "walk" /\ v4 = <<>>
      <4>1. Tr!IsDir /\ v12 = {} /\ v11 = "ok" /\ v10 = 1 /\ v7 = SourceDir
        BY <1>1, <3>1, <3>2, AtWalkRight
      <4>2. Tr!Good(v2) /\ Tr!Listing(FALSE, v8) /\ \A p \in Tr!Copied : Tr!Reached(v2, v8, p)
        BY <3>1, <3>2, WalkOver
      <4>3. \A i \in DOMAIN v8 : \A p \in Tr!Below : v8[i] = Tr!ItemOf(FALSE, p) => l[i] = Tr!ItemOf(TRUE, p)
        <5>1. ASSUME NEW i \in DOMAIN v8, NEW p \in Tr!Below, v8[i] = Tr!ItemOf(FALSE, p) PROVE l[i] = Tr!ItemOf(TRUE, p)
          <6>1. v8[i] = Tr!Listed(Tr!Text(p), Tr!Kind(p))
            BY <1>8, <5>1 DEF Tr!ItemOf, Tr!WalkItem
          <6>2. [v8[i] EXCEPT !.to = TargetDir \o Tr!Compressed(@)] = Tr!WorkItem(p)
            BY <1>1, <1>2, <6>1, PutNamesAre
          <6>3. QED
            BY <1>4, <6>2 DEF Tr!ItemOf
        <5>2. QED
          BY <5>1
      <4>4. Tr!Listing(TRUE, l) /\ \A p \in Tr!Copied : Tr!IsListed(FALSE, v8, p) => Tr!IsListed(TRUE, l, p)
        BY <1>1, <1>2, <1>4, <4>2, <4>3, NamedRight
      <4>5. \A p \in Tr!Copied : Tr!Unnamed(p) \/ Tr!IsListed(TRUE, l, p)
        BY <1>8, <4>2, <4>4 DEF Tr!Reached
      <4>6. Tr!Good(t) /\ k = 1 /\ o = "ok" /\ f = {} /\ v7' = SourceDir
        BY <1>1, <1>7, <3>1, <4>1, <4>2
      <4>7. QED
        BY <4>1, <4>4, <4>5, <4>6, CourseBegun
    <3>3. CASE v9 = "listed"
      <4>1. ~Tr!IsDir /\ v7 = SourceDir /\ Tr!Fresh /\ v8 = Tr!Plain(v3.item, Tr!Base)
        BY <3>3 DEF Tr!TrInv, Tr!ListedInv
      <4>2. v12 = {} /\ v11 = "ok" /\ v10 = 1 /\ Tr!Good(v2)
        BY <4>1, FreshRight DEF Tr!Fresh
      <4>3. PICK a \in Seq(Tr!Comp), b \in Seq(Tr!Comp), c \in Seq(Tr!Comp) : a = v3.item /\ b = Tr!Base /\ c = TargetDir \o Tr!Base
        BY <1>2, PathsTyped
      <4>4. v8 = Tr!Plain(a, b) /\ v8[1] = [kind |-> "-", from |-> a, to |-> b] /\ DOMAIN v8 = {1}
        BY <4>1, <4>3, PlainTyped
      <4>5. l[1] = [kind |-> "-", from |-> a, to |-> c]
        <5>1. Tr!Compressed(b) = b
          BY <1>2, <4>3, BaseIs, NamesPlain
        <5>2. [[kind |-> "-", from |-> a, to |-> b] EXCEPT !.to = c] = [kind |-> "-", from |-> a, to |-> c]
          BY EntryWith
        <5>3. PICK e : e = v8[1]
          OBVIOUS
        <5>4. e.to = b
          BY <4>4, <5>3
        <5>5. l[1] = [e EXCEPT !.to = TargetDir \o Tr!Compressed(@)]
          BY <1>4, <4>4, <5>3
        <5>6. TargetDir \o Tr!Compressed(e.to) = c
          BY <4>3, <5>1, <5>4
        <5>7. l[1] = [e EXCEPT !.to = c]
          BY <5>5, <5>6
        <5>8. QED
          BY <4>4, <5>2, <5>3, <5>7
      <4>6. l = Tr!Plain(a, c)
        <5>1. l = [i \in {1} |-> [kind |-> "-", from |-> a, to |-> c]]
          BY <1>4, <4>4, <4>5
        <5>2. Tr!Plain(a, c) = [i \in {1} |-> [kind |-> "-", from |-> a, to |-> c]]
          BY DEF Tr!Plain
        <5>3. QED
          BY <5>1, <5>2
      <4>7. l = Tr!Plain(v3.item, TargetDir \o Tr!Base)
        BY <4>3, <4>6
      <4>8. \A i \in 1..(1 - 1) : Tr!Achieved(t, l[i])
        OBVIOUS
      <4>9. Tr!Good(t) /\ k = 1 /\ o = "ok" /\ f = {} /\ v7' = SourceDir
        BY <1>1, <1>7, <3>1, <4>1, <4>2
      <4>10. QED
        BY <4>1, <4>7, <4>8, <4>9 DEF Tr!OnCourse
    <3>4. QED
      BY <1>1, <3>2, <3>3
  <2>2. QED
    BY <1>1, <1>3, <1>6, <1>7, <1>10, <2>1, AtWorkRight
<1>11. QED
  BY <1>1, <1>9, <1>10

(***************************************************************************)
(* Working through the list.                                               *)
(***************************************************************************)
LEMMA AstraySteady ==
    ASSUME v3' = v3, NEW t, t = v2', NEW l, l = v8', NEW k, k = v10', NEW o, o = v11', Tr!Astray(t, l, k, o)
    PROVE  Tr!Astray(v2, v8, v10, v11)'
<1>1. v3'.op = v3.op
  OBVIOUS
<1>2. /\ v3.op = "get" /\ Len(l) = 1 /\ l[1].kind = "-" /\ l[1].from = Tr!NoName /\ (k > 1 => o = "bad")
      /\ \A q \in DOMAIN t : t[q] = <<"d">>
  BY DEF Tr!Astray
<1>3. Tr!NoName' = Tr!NoName
  BY DEF Tr!NoName
<1>4. QED
  BY <1>1, <1>2, <1>3 DEF Tr!Astray

LEMMA StillWorking ==
    ASSUME Tr!TrInv, UNCHANGED <<v1, v3>>, Tr!Sane', Tr!TrTypeOK', v9' = "work",
           NEW t, t = v2', NEW l, l = v8', NEW k, k = v10', NEW o, o = v11', NEW f, f = v12',
           ~Tr!Odd' /\ "back" \notin f => /\ v7' = SourceDir /\ v3.op \in {"get", "put"}
                                          /\ IF "cwd" \in f THEN Tr!Astray(t, l, k, o) ELSE Tr!OnCourse(t, l, k, o, f)
    PROVE  Tr!TrInv'
<1>1. SUFFICES ASSUME ~Tr!Odd', "back" \notin f PROVE Tr!WorkInv'
  BY DEF Tr!TrInv, Tr!StartInv, Tr!WalkInv, Tr!AbortedInv, Tr!ListedInv, Tr!DoneInv, Tr!WorkInv
<1>2. v7' = SourceDir /\ v3'.op \in {"get", "put"}
  BY <1>1
<1>3. CASE "cwd" \in f
  <2>1. Tr!Astray(t, l, k, o)
    BY <1>1, <1>3
  <2>2. Tr!Astray(v2, v8, v10, v11)'
    BY <2>1, AstraySteady
  <2>3. QED
    BY <1>2, <1>3, <2>2 DEF Tr!WorkInv
<1>4. CASE "cwd" \notin f
  <2>1. Tr!OnCourse(t, l, k, o, f)
    BY <1>1, <1>4
  <2>2. Tr!OnCourse(v2, v8, v10, v11, v12)'
    BY <2>1, CourseSteady
  <2>3. QED
    BY <1>2, <1>4, <2>2 DEF Tr!WorkInv
<1>5. QED
  BY <1>3, <1>4

LEMMA AtWork ==
    ASSUME Tr!TrInv, v9 = "work", ~Tr!Odd, "back" \notin v12
    PROVE  /\ v7 = SourceDir /\ v3.op \in {"get", "put"}
           /\ IF "cwd" \in v12 THEN Tr!Astray(v2, v8, v10, v11) ELSE Tr!OnCourse(v2, v8, v10, v11, v12)
  BY DEF Tr!TrInv, Tr!WorkInv

(* One entry further.                                                      *)
LEMMA OneFurther ==
    ASSUME NEW t, NEW l, NEW k \in Nat, NEW o, NEW f, Tr!OnCourse(t, l, k, o, f), NEW u, Tr!Good(u), DOMAIN t \subseteq DOMAIN u,
           NEW r, r = "ok" => o = "ok", NEW g, f \subseteq g, r = "ok" /\ "link" \notin g => Tr!Achieved(u, l[k]),
           g = {} /\ (Tr!IsDir \/ Tr!ItemKind = "-") => r = "ok"
    PROVE  Tr!OnCourse(u, l, k + 1, r, g)
<1>1. ASSUME r = "ok", "link" \notin g, NEW i \in 1..((k + 1) - 1) PROVE Tr!Achieved(u, l[i])
  <2>1. CASE i = k
    BY <1>1, <2>1
  <2>2. CASE i # k
    <3>1. i \in 1..(k - 1)
      BY <2>2
    <3>2. Tr!Achieved(t, l[i])
      BY <1>1, <3>1 DEF Tr!OnCourse
    <3>3. QED
      BY <3>2 DEF Tr!Achieved
  <2>3. QED
    BY <2>1, <2>2
<1>2. QED
  BY <1>1 DEF Tr!OnCourse

LEMMA MoreMade ==
    ASSUME NEW t, NEW l, NEW k, NEW o, NEW f, Tr!OnCourse(t, l, k, o, f), NEW u, Tr!Good(u), DOMAIN t \subseteq DOMAIN u
    PROVE  Tr!OnCourse(u, l, k, o, f)
<1>1. \A e : Tr!Achieved(t, e) => Tr!Achieved(u, e)
  BY DEF Tr!Achieved
<1>2. QED
  BY <1>1 DEF Tr!OnCourse

LEMMA StraysFurther ==
    ASSUME NEW t, NEW l, NEW k, NEW o, Tr!Astray(t, l, k, o), NEW j
    PROVE  Tr!Astray(t, l, j, "bad")
  BY DEF Tr!Astray

LEMMA BadDone ==
    ASSUME ~Tr!Spooling, NEW t, Tr!Good(t), NEW f, f # {}, "cwd" \notin f, NEW l
    PROVE  Tr!DoneRight(t, l, "bad", f)
  BY DEF Tr!DoneRight

LEMMA StrayDone ==
    ASSUME NEW t, NEW l, NEW k, NEW o, Tr!Astray(t, l, k, o), NEW f, "cwd" \in f
    PROVE  Tr!DoneRight(t, l, "bad", f)
  BY DEF Tr!DoneRight, Tr!Astray

(* What is known of the transfer of a file, with the directories u.        *)
Went(u) ==
  /\ v7 = SourceDir /\ v3.op \in {"get", "put"}
  /\ IF "cwd" \in v12 THEN Tr!Astray(u, v8, v10, v11) /\ ~Tr!Sendable(Tr!Entry)
     ELSE /\ Tr!OnCourse(u, v8, v10, v11, v12)
          /\ Tr!HasParent(u, Tr!Entry.to) /\ Tr!Sendable(Tr!Entry) => Tr!Right(Tr!Entry.to, Tr!Fetched(Tr!Entry)) /\ (Tr!IsDir \/ Tr!ItemKind = "-")
          /\ v12 = {} /\ (Tr!IsDir \/ Tr!ItemKind = "-") => Tr!HasParent(u, Tr!Entry.to) /\ Tr!Sendable(Tr!Entry)

LEMMA TransferIs ==
    ASSUME v11 \in {"ok", "bad"}, NEW u, NEW c, Tr!Transferred(u, c)
    PROVE  /\ UNCHANGED <<v4, v5, v6, v7, v8>>
           /\ \/ /\ c /\ v2' = Tr!Put(u, Tr!Entry.to, Tr!Fetched(Tr!Entry)) /\ v11' = v11 /\ v12' = v12
                 /\ v10' = v10 + 1 /\ v9' = v9
              \/ ~c /\ v2' = u /\ v11' = "bad" /\ v12' = v12 /\ v10' = v10 + 1 /\ v9' = v9
              \/ v2' = u /\ v11' = "bad" /\ v12' = v12 \cup {"fails"} /\ v10' = v10 + 1 /\ v9' = v9
              \/ v2' = u /\ v11' = "bad" /\ v12' = v12 \cup {"cancel"} /\ v10' = v10 /\ v9' = "done"
  BY DEF Tr!Transferred, Tr!Further, Tr!Untroubled, Tr!Happens, Tr!Latched, Tr!walkvars, Tr!workvars

LEMMA TransferTyped ==
    ASSUME Tr!TrInv, v9 = "work", v10 <= Len(v8), UNCHANGED <<v1, v3>>, NEW u, Tr!Closed(u),
           Tr!Transferred(u, Tr!HasParent(u, Tr!Entry.to) /\ Tr!Sendable(Tr!Entry))
    PROVE  Tr!Sane' /\ Tr!TrTypeOK'
<1>1. /\ Tr!Sane /\ Tr!TrTypeOK /\ Tr!Closed(v2) /\ v8 \in Seq(Tr!Entries) /\ v10 \in 1..(Len(v8) + 1) /\ v11 \in {"ok", "bad"}
      /\ Len(v8) \in Nat
  BY Anywhere
<1>2. PICK e, y, c : e = Tr!Entry.to /\ y = Tr!Fetched(Tr!Entry) /\ c = (Tr!HasParent(u, Tr!Entry.to) /\ Tr!Sendable(Tr!Entry))
  OBVIOUS
<1>3. /\ UNCHANGED <<v4, v5, v6, v7, v8>>
      /\ \/ Tr!HasParent(u, e) /\ v2' = Tr!Put(u, e, y) /\ v11' = v11 /\ v10' = v10 + 1 /\ v9' = v9
         \/ v2' = u /\ v11' = "bad" /\ (v10' = v10 \/ v10' = v10 + 1) /\ (v9' = v9 \/ v9' = "done")
  <2>1. Tr!Transferred(u, c)
    BY <1>2
  <2>2. QED
    BY <1>1, <1>2, <2>1, TransferIs
<1>4. Tr!Closed(v2')
  BY <1>3, PutClosed
<1>5. v10' \in 1..(Len(v8) + 1)
  BY <1>1, <1>3
<1>6. v11' \in {"ok", "bad"} /\ v9' \in {"work", "done"}
  BY <1>1, <1>3
<1>7. QED
  BY <1>1, <1>3, <1>4, <1>5, <1>6, LaterTyped

LEMMA TransferRight ==
    ASSUME Tr!TrInv, v9 = "work", v10 <= Len(v8), UNCHANGED <<v1, v3>>, NEW u, Tr!Closed(u),
           Tr!Transferred(u, Tr!HasParent(u, Tr!Entry.to) /\ Tr!Sendable(Tr!Entry)), ~Tr!Odd /\ "back" \notin v12 => Went(u)
    PROVE  Tr!TrInv'
<1>1. /\ Tr!Sane /\ Tr!TrTypeOK /\ Tr!Closed(v2) /\ v8 \in Seq(Tr!Entries) /\ v10 \in 1..(Len(v8) + 1) /\ v11 \in {"ok", "bad"}
      /\ Len(v8) \in Nat
  BY Anywhere
<1>2. Tr!Sane' /\ Tr!TrTypeOK'
  BY TransferTyped
<1>3. PICK e, y, c : e = Tr!Entry.to /\ y = Tr!Fetched(Tr!Entry) /\ c = (Tr!HasParent(u, Tr!Entry.to) /\ Tr!Sendable(Tr!Entry))
  OBVIOUS
<1>4. Tr!Transferred(u, c)
  BY <1>3
<1>5. PICK t, k, o, f : t = v2' /\ k = v10' /\ o = v11' /\ f = v12'
  OBVIOUS
<1>6. /\ UNCHANGED <<v4, v5, v6, v7, v8>>
      /\ \/ c /\ t = Tr!Put(u, e, y) /\ o = v11 /\ f = v12 /\ k = v10 + 1 /\ v9' = v9
         \/ ~c /\ t = u /\ o = "bad" /\ f = v12 /\ k = v10 + 1 /\ v9' = v9
         \/ t = u /\ o = "bad" /\ f = v12 \cup {"fails"} /\ k = v10 + 1 /\ v9' = v9
         \/ t = u /\ o = "bad" /\ f = v12 \cup {"cancel"} /\ k = v10 /\ v9' = "done"
  BY <1>1, <1>3, <1>4, <1>5, TransferIs
<1>7. ASSUME ~Tr!Odd', "back" \notin f
      PROVE  /\ v7' = SourceDir /\ v3.op \in {"get", "put"} /\ Went(u) /\ ("cwd" \in f <=> "cwd" \in v12) /\ v12 \subseteq f
  <2>1. ~Tr!Odd
    BY <1>6, <1>7, OddKept
  <2>2. v12 \subseteq f /\ ("cwd" \in f <=> "cwd" \in v12)
    BY <1>6
  <2>3. Went(u)
    BY <1>7, <2>1, <2>2
  <2>4. QED
    BY <1>6, <2>2, <2>3 DEF Went
<1>8. CASE v9' = "done"
  <2>1. t = u /\ o = "bad" /\ f # {}
    BY <1>6, <1>8
  <2>2. ASSUME ~Tr!Odd', "back" \notin f PROVE Tr!DoneRight(t, v8, o, f)
    <3>1. Went(u) /\ ("cwd" \in f <=> "cwd" \in v12) /\ ~Tr!Spooling
      BY <1>7, <2>2 DEF Tr!Spooling
    <3>2. CASE "cwd" \in v12
      BY <2>1, <3>1, <3>2, StrayDone DEF Went
    <3>3. CASE "cwd" \notin v12
      <4>1. Tr!Good(u)
        BY <3>1, <3>3 DEF Went, Tr!OnCourse
      <4>2. QED
        BY <2>1, <3>1, <3>3, <4>1, BadDone
    <3>4. QED
      BY <3>2, <3>3
  <2>3. v8' = v8
    BY <1>6
  <2>4. QED
    BY <1>2, <1>5, <1>8, <2>2, <2>3, AtDoneRight
<1>9. CASE v9' = "work"
  <2>1. k = v10 + 1 /\ v8' = v8
    BY <1>6, <1>9
  <2>2. ASSUME ~Tr!Odd', "back" \notin f
        PROVE  IF "cwd" \in f THEN Tr!Astray(t, v8, k, o) ELSE Tr!OnCourse(t, v8, k, o, f)
    <3>1. /\ Went(u) /\ ("cwd" \in f <=> "cwd" \in v12) /\ v12 \subseteq f
      BY <1>7, <2>2
    <3>2. CASE "cwd" \in v12
      <4>1. Tr!Astray(u, v8, v10, v11) /\ ~c
        BY <1>3, <3>1, <3>2 DEF Went
      <4>2. t = u /\ o = "bad"
        BY <1>6, <4>1
      <4>3. QED
        BY <3>1, <3>2, <4>1, <4>2, StraysFurther
    <3>3. CASE "cwd" \notin v12
      <4>1. /\ Tr!OnCourse(u, v8, v10, v11, v12) /\ Tr!Good(u)
            /\ c => Tr!Right(e, y) /\ (Tr!IsDir \/ Tr!ItemKind = "-")
            /\ v12 = {} /\ (Tr!IsDir \/ Tr!ItemKind = "-") => c
        BY <1>3, <3>1, <3>3 DEF Went, Tr!OnCourse
      <4>2. v10 \in Nat
        BY <1>1
      <4>3. CASE c /\ t = Tr!Put(u, e, y) /\ o = v11 /\ f = v12
        <5>1. Tr!Good(t) /\ DOMAIN t = DOMAIN u \cup {e}
          BY <4>1, <4>3, PutRight
        <5>2. Tr!Achieved(t, v8[v10])
          <6>1. e = v8[v10].to
            BY <1>3 DEF Tr!Entry
          <6>2. QED
            BY <4>1, <4>3, <5>1, <6>1 DEF Tr!Achieved
        <5>3. v12 = {} /\ (Tr!IsDir \/ Tr!ItemKind = "-") => v11 = "ok"
          BY <4>1 DEF Tr!OnCourse
        <5>4. Tr!OnCourse(t, v8, v10 + 1, v11, v12)
          BY <4>1, <4>2, <5>1, <5>2, <5>3, OneFurther
        <5>5. QED
          BY <2>1, <3>1, <3>3, <4>3, <5>4
      <4>4. CASE t = u /\ o = "bad" /\ (f # {} \/ (~c /\ f = v12))
        <5>1. ~(f = {} /\ (Tr!IsDir \/ Tr!ItemKind = "-"))
          BY <3>1, <4>1, <4>4
        <5>2. Tr!OnCourse(u, v8, v10 + 1, "bad", f)
          BY <3>1, <4>1, <4>2, <5>1, OneFurther
        <5>3. QED
          BY <2>1, <3>1, <3>3, <4>4, <5>2
      <4>5. QED
        BY <1>6, <4>3, <4>4
    <3>4. QED
      BY <3>2, <3>3
  <2>3. QED
    BY <1>2, <1>5, <1>7, <1>9, <2>1, <2>2, StillWorking
<1>10. QED
  BY <1>6, <1>8, <1>9

(* The entry that is worked on is that of an item of the tree.             *)
LEMMA EntryItem ==
    ASSUME Tr!Sane, Tr!IsDir, NEW t, Tr!OnCourse(t, v8, v10, v11, v12), v10 \in 1..(Len(v8) + 1), v10 <= Len(v8)
    PROVE  \E p \in Tr!Copied : /\ Tr!Entry = Tr!WorkItem(p) /\ Tr!Follows(TRUE, v8, p, v10)
                                /\ Tr!Entry.kind = Tr!Kind(p) /\ Tr!Entry.from = Tr!FromOf(p) /\ Tr!Entry.to = Tr!Place(p)
<1>1. Tr!Listing(TRUE, v8)
  BY DEF Tr!OnCourse
<1>2. v10 \in DOMAIN v8
  <2>1. v8 \in Seq(Tr!Entries)
    BY DEF Tr!Sane
  <2>2. DOMAIN v8 = 1..Len(v8) /\ Len(v8) \in Nat
    BY <2>1
  <2>3. QED
    BY <2>2
<1>3. PICK p \in Tr!Copied : v8[v10] = Tr!ItemOf(TRUE, p) /\ Tr!Follows(TRUE, v8, p, v10)
  BY <1>1, <1>2 DEF Tr!Listing
<1>4. Tr!Entry = Tr!WorkItem(p)
  BY <1>3 DEF Tr!Entry, Tr!ItemOf
<1>5. QED
  BY <1>3, <1>4 DEF Tr!WorkItem

LEMMA FileSent ==
    ASSUME Tr!Sane, v7 = SourceDir, v3.op \in {"get", "put"}, NEW p \in Tr!Copied, Tr!Kind(p) = "-",
           Tr!Entry.from = Tr!FromOf(p), Tr!Entry.to = Tr!Place(p)
    PROVE  Tr!Sendable(Tr!Entry) /\ Tr!Right(Tr!Entry.to, Tr!Fetched(Tr!Entry))
<1>1. /\ p \in Tr!Below /\ v1[p] = "-" /\ Tr!Image(p) = <<"-">> \o p
  BY CopyNameIs
<1>2. Tr!From(SourceDir, Tr!FromOf(p)) = p /\ Tr!FromOf(p) # Tr!NoName
  BY <1>1, FromOfIs
<1>3. Tr!Source(Tr!Entry) = p
  BY <1>2 DEF Tr!Source
<1>4. p \in DOMAIN v1
  BY <1>1, BelowIs
<1>5. Tr!KindOf(v1, Tr!Source(Tr!Entry)) = "-"
  BY <1>1, <1>3, <1>4 DEF Tr!KindOf
<1>6. Tr!Fetched(Tr!Entry) = Tr!Image(p)
  BY <1>1, <1>3 DEF Tr!Fetched
<1>7. QED
  BY <1>2, <1>5, <1>6, PlaceRight DEF Tr!Sendable

LEMMA InDirectory ==
    ASSUME Tr!Sane, Tr!IsDir, NEW p \in Tr!Copied, Tr!Kind(p) # "d"
    PROVE  /\ p # Tr!Top /\ Tr!Parent(p) \in Tr!Below /\ v1[Tr!Parent(p)] = "d" /\ Tr!Parent(Tr!Place(p)) = Tr!Place(Tr!Parent(p)) /\ Tr!Place(p) # <<>>
<1>1. p \in Tr!Below /\ v1[p] \notin {"d", "u"}
  BY CopyNameIs
<1>2. p # Tr!Top
  BY <1>1, TopBelow DEF Tr!IsDir
<1>3. /\ Tr!Parent(p) \in Tr!Below /\ v1[Tr!Parent(p)] = "d" /\ Tr!Name(p) \in Tr!NamesIn(v1, Tr!Parent(p)) /\ p = Append(Tr!Parent(p), Tr!Name(p))
  BY <1>1, <1>2, ParentBelow
<1>4. QED
  BY <1>2, <1>3, Downward

(* A single file that is there, and one that is not.                       *)
LEMMA SingleSent ==
    ASSUME Tr!Sane, ~Tr!IsDir, Tr!ItemKind = "-", v7 = SourceDir, v3.op \in {"get", "put"}, NEW t, Tr!Good(t),
           Tr!Entry = [kind |-> "-", from |-> v3.item, to |-> TargetDir \o Tr!Base]
    PROVE  Tr!HasParent(t, Tr!Entry.to) /\ Tr!Sendable(Tr!Entry) /\ Tr!Right(Tr!Entry.to, Tr!Fetched(Tr!Entry))
<1>1. Tr!Top \in Tr!Below /\ Tr!Rel(Tr!Top) = <<>> /\ v1[Tr!Top] = "-"
  BY TopBelow
<1>2. v3.item \notin {<<".">>, <<"/">>}
  BY <1>1, MarkTop
<1>3. Tr!Base \in Seq(Tr!Names) /\ Len(Tr!Base) = 1 /\ Tr!Base = <<Tr!Name(v3.item)>> /\ Tr!Name(v3.item) \in Tr!Names
  BY <1>2, BaseIs
<1>4. Tr!FromOf(Tr!Top) = v3.item
  <2>1. v3.item \in Seq(Tr!Comp)
    BY TaskIs
  <2>2. v3.item \o <<>> = v3.item
    BY <2>1
  <2>3. Tr!Text(Tr!Top) = Tr!TopText
    BY <1>1, RootIs
  <2>4. QED
    BY <1>1, <1>2, <2>2, <2>3 DEF Tr!FromOf, Tr!TopText
<1>5. Tr!Place(Tr!Top) = TargetDir \o Tr!Base
  BY <1>1, TopPlace
<1>6. Tr!Top \in Tr!Copied /\ Tr!Kind(Tr!Top) = "-"
  BY <1>1 DEF Tr!Copied, Tr!Kind
<1>7. Tr!Entry.from = Tr!FromOf(Tr!Top) /\ Tr!Entry.to = Tr!Place(Tr!Top)
  BY <1>4, <1>5
<1>8. Tr!Sendable(Tr!Entry) /\ Tr!Right(Tr!Entry.to, Tr!Fetched(Tr!Entry))
  BY <1>6, <1>7, FileSent
<1>9. TargetDir \in Seq(Tr!Names) /\ TargetDir \o Tr!Base = Append(TargetDir, Tr!Name(v3.item))
  <2>1. TargetDir \in Seq(Tr!Names)
    BY CompIs
  <2>2. QED
    BY <1>3, <2>1, GrownIs
<1>10. Tr!Parent(TargetDir \o Tr!Base) = TargetDir /\ TargetDir \o Tr!Base # <<>>
  <2>1. PICK n \in Tr!Names : n = Tr!Name(v3.item)
    BY <1>3
  <2>2. Tr!Parent(Append(TargetDir, n)) = TargetDir /\ Append(TargetDir, n) # <<>>
    BY <1>9, GrownIs
  <2>3. QED
    BY <1>9, <2>1, <2>2
<1>11. Tr!What(t, TargetDir) = "d"
  <2>1. TargetDir \in Tr!Tops(TargetDir)
    BY <1>9, TopsHave
  <2>2. TargetDir \in DOMAIN t /\ Tr!Right(TargetDir, <<"d">>)
    BY <2>1 DEF Tr!Good, Tr!Right
  <2>3. t[TargetDir] = <<"d">>
    BY <2>2, RightThere
  <2>4. QED
    BY <2>2, <2>3 DEF Tr!What
<1>12. Tr!What(t, Tr!Place(Tr!Top)) # "d"
  BY <1>1, <1>6, NoDirThere
<1>13. QED
  BY <1>5, <1>7, <1>8, <1>10, <1>11, <1>12 DEF Tr!HasParent

LEMMA SingleNotSent ==
    ASSUME Tr!Sane, Tr!ItemKind # "-", v7 = SourceDir, Tr!Entry = [kind |-> "-", from |-> v3.item, to |-> TargetDir \o Tr!Base]
    PROVE  ~Tr!Sendable(Tr!Entry)
<1>1. Tr!Source(Tr!Entry) = Tr!Top
  BY DEF Tr!Source, Tr!Top
<1>2. QED
  BY <1>1 DEF Tr!Sendable, Tr!ItemKind, Tr!Top

LEMMA SingleGoes ==
    ASSUME Tr!Sane, ~Tr!IsDir, v7 = SourceDir, v3.op \in {"get", "put"}, "cwd" \notin v12,
           Tr!OnCourse(v2, v8, v10, v11, v12), v10 \in 1..(Len(v8) + 1), v10 <= Len(v8)
    PROVE  Went(v2) /\ Tr!Entry.kind = "-"
<1>1. v8 = Tr!Plain(v3.item, TargetDir \o Tr!Base) /\ Tr!Good(v2)
  BY DEF Tr!OnCourse
<1>2. Tr!Entry = [kind |-> "-", from |-> v3.item, to |-> TargetDir \o Tr!Base]
  <2>1. PICK a \in Seq(Tr!Comp), b \in Seq(Tr!Comp) : a = v3.item /\ b = TargetDir \o Tr!Base
    BY PathsTyped
  <2>2. Len(v8) = 1 /\ v8[1] = [kind |-> "-", from |-> a, to |-> b]
    BY <1>1, <2>1, PlainTyped
  <2>3. v10 = 1
    BY <2>2
  <2>4. QED
    BY <2>1, <2>2, <2>3 DEF Tr!Entry
<1>3. CASE Tr!ItemKind = "-"
  <2>1. Tr!HasParent(v2, Tr!Entry.to) /\ Tr!Sendable(Tr!Entry) /\ Tr!Right(Tr!Entry.to, Tr!Fetched(Tr!Entry))
    BY <1>1, <1>2, <1>3, SingleSent
  <2>2. QED
    BY <1>2, <1>3, <2>1 DEF Went
<1>4. CASE Tr!ItemKind # "-"
  <2>1. ~Tr!Sendable(Tr!Entry)
    BY <1>2, <1>4, SingleNotSent
  <2>2. QED
    BY <1>2, <1>4, <2>1 DEF Went
<1>5. QED
  BY <1>3, <1>4

LEMMA StrayGoes ==
    ASSUME v8 \in Seq(Tr!Entries), v10 \in 1..(Len(v8) + 1), v10 <= Len(v8), "cwd" \in v12, v7 = SourceDir,
           Tr!Astray(v2, v8, v10, v11), NEW u, DOMAIN v2 \subseteq DOMAIN u, \A q \in DOMAIN u : u[q] = <<"d">>
    PROVE  Went(u) /\ Tr!Entry.kind = "-"
<1>1. v3.op = "get" /\ Len(v8) = 1 /\ v8[1].kind = "-" /\ v8[1].from = Tr!NoName /\ (v10 > 1 => v11 = "bad")
  BY DEF Tr!Astray
<1>2. Tr!Entry = v8[1]
  BY <1>1 DEF Tr!Entry
<1>3. ~Tr!Sendable(Tr!Entry)
  BY <1>1, <1>2 DEF Tr!Sendable
<1>4. Tr!Astray(u, v8, v10, v11)
  BY DEF Tr!Astray
<1>5. QED
  BY <1>1, <1>2, <1>3, <1>4 DEF Went

(* The directories that a get makes for a file.                            *)
LEMMA MadeFor ==
    ASSUME Tr!Sane, Tr!IsDir, NEW t, Tr!Good(t), NEW p \in Tr!Copied, Tr!Kind(p) # "d", NEW u, u = Tr!MkDirs(t, Tr!Parent(Tr!Place(p)))
    PROVE  Tr!Good(u) /\ DOMAIN t \subseteq DOMAIN u /\ Tr!HasParent(u, Tr!Place(p))
<1>1. /\ Tr!Parent(p) \in Tr!Below /\ v1[Tr!Parent(p)] = "d" /\ Tr!Parent(Tr!Place(p)) = Tr!Place(Tr!Parent(p)) /\ Tr!Place(p) # <<>>
  BY InDirectory
<1>2. Tr!Place(Tr!Parent(p)) \in Seq(Tr!Names)
  BY <1>1, PlaceIs
<1>3. Tr!ItemKind # "none"
  BY DEF Tr!IsDir
<1>4. \A q \in Tr!Tops(Tr!Place(Tr!Parent(p))) : Tr!Right(q, <<"d">>)
  BY <1>1, <1>3, TopsRight
<1>5. u = Tr!MkDirs(t, Tr!Place(Tr!Parent(p)))
  BY <1>1
<1>6. Tr!Good(u) /\ DOMAIN t \subseteq DOMAIN u /\ Tr!What(u, Tr!Place(Tr!Parent(p))) = "d"
  <2>1. PICK d \in Seq(Tr!Names) : d = Tr!Place(Tr!Parent(p))
    BY <1>2
  <2>2. \A q \in Tr!Tops(d) : Tr!Right(q, <<"d">>)
    BY <1>4, <2>1
  <2>3. /\ Tr!Good(Tr!MkDirs(t, d)) /\ DOMAIN Tr!MkDirs(t, d) = DOMAIN t \cup Tr!Tops(d) /\ Tr!What(Tr!MkDirs(t, d), d) = "d"
    BY <2>2, MakesRight
  <2>4. u = Tr!MkDirs(t, d)
    BY <1>5, <2>1
  <2>5. QED
    BY <2>1, <2>3, <2>4
<1>7. Tr!What(u, Tr!Place(p)) # "d"
  <2>1. v1[p] \notin {"d", "u"}
    BY CopyNameIs
  <2>2. QED
    BY <1>6, <2>1, NoDirThere
<1>8. QED
  BY <1>1, <1>6, <1>7 DEF Tr!HasParent

LEMMA StrayMakes ==
    ASSUME NEW t, \A q \in DOMAIN t : t[q] = <<"d">>, NEW p, NEW u, u = Tr!MkDirs(t, p) \/ u = t
    PROVE  DOMAIN t \subseteq DOMAIN u /\ \A q \in DOMAIN u : u[q] = <<"d">>
<1>1. CASE u = t
  BY <1>1
<1>2. CASE u = [q \in DOMAIN t \cup Tr!Tops(p) |-> IF q \in Tr!Tops(p) THEN <<"d">> ELSE t[q]]
  BY <1>2
<1>3. QED
  BY <1>1, <1>2 DEF Tr!MkDirs

LEMMA GetOneStep == ASSUME Tr!TrInv, Tr!GetOne PROVE Tr!TrInv'
<1>1. /\ v9 = "work" /\ v3.op = "get" /\ v10 <= Len(v8) /\ UNCHANGED <<v1, v3>>
      /\ \/ /\ Tr!Entry.kind = "d" /\ v2' = Tr!MkDirs(v2, Tr!Entry.to) /\ v12' = v12 /\ v11' = v11
            /\ v10' = v10 + 1 /\ UNCHANGED <<v4, v5, v6, v7, v8, v9>>
         \/ /\ Tr!Entry.kind = "l" /\ v2' = v2 /\ v12' = v12 /\ v11' = v11
            /\ v10' = v10 + 1 /\ UNCHANGED <<v4, v5, v6, v7, v8, v9>>
         \/ /\ Tr!Entry.kind = "-"
            /\ \E u : /\ u = IF Tr!IsDir THEN Tr!MkDirs(v2, Tr!Parent(Tr!Entry.to)) ELSE v2
                      /\ Tr!Transferred(u, Tr!HasParent(u, Tr!Entry.to) /\ Tr!Sendable(Tr!Entry))
  BY DEF Tr!GetOne, Tr!Working, Tr!Further, Tr!Steps, Tr!Untroubled, Tr!walkvars
<1>2. /\ Tr!Sane /\ Tr!TrTypeOK /\ Tr!Closed(v2) /\ v8 \in Seq(Tr!Entries) /\ v10 \in 1..(Len(v8) + 1) /\ v11 \in {"ok", "bad"}
      /\ Len(v8) \in Nat /\ v10 \in Nat
  <2>1. /\ Tr!Sane /\ Tr!TrTypeOK /\ Tr!Closed(v2) /\ v8 \in Seq(Tr!Entries) /\ v10 \in 1..(Len(v8) + 1) /\ v11 \in {"ok", "bad"}
        /\ Len(v8) \in Nat
    BY Anywhere
  <2>2. QED
    BY <2>1
<1>3. Tr!Entry.to \in Seq(Tr!Comp) /\ Tr!Parent(Tr!Entry.to) \in Seq(Tr!Comp)
  <2>1. v10 \in DOMAIN v8
    BY <1>1, <1>2
  <2>2. Tr!Entry \in Tr!Entries
    BY <1>2, <2>1 DEF Tr!Entry
  <2>3. Tr!Entry.to \in Seq(Tr!Comp)
    BY <2>2 DEF Tr!Entries
  <2>4. QED
    BY <2>3, FrontTyped
<1>4. CASE \E u : /\ Tr!Entry.kind = "-" /\ u = IF Tr!IsDir THEN Tr!MkDirs(v2, Tr!Parent(Tr!Entry.to)) ELSE v2
                  /\ Tr!Transferred(u, Tr!HasParent(u, Tr!Entry.to) /\ Tr!Sendable(Tr!Entry))
  <2>1. PICK u : /\ Tr!Entry.kind = "-" /\ u = IF Tr!IsDir THEN Tr!MkDirs(v2, Tr!Parent(Tr!Entry.to)) ELSE v2
                 /\ Tr!Transferred(u, Tr!HasParent(u, Tr!Entry.to) /\ Tr!Sendable(Tr!Entry))
    BY <1>4
  <2>2. Tr!Closed(u)
    BY <1>2, <1>3, <2>1, MakesClosed
  <2>3. ASSUME ~Tr!Odd, "back" \notin v12 PROVE Went(u)
    <3>1. /\ v7 = SourceDir /\ v3.op \in {"get", "put"}
          /\ IF "cwd" \in v12 THEN Tr!Astray(v2, v8, v10, v11) ELSE Tr!OnCourse(v2, v8, v10, v11, v12)
      BY <1>1, <2>3, AtWork
    <3>2. CASE "cwd" \in v12
      <4>1. Tr!Astray(v2, v8, v10, v11) /\ \A q \in DOMAIN v2 : v2[q] = <<"d">>
        BY <3>1, <3>2 DEF Tr!Astray
      <4>2. DOMAIN v2 \subseteq DOMAIN u /\ \A q \in DOMAIN u : u[q] = <<"d">>
        BY <2>1, <4>1, StrayMakes
      <4>3. QED
        BY <1>1, <1>2, <3>1, <3>2, <4>1, <4>2, StrayGoes
    <3>3. CASE "cwd" \notin v12 /\ ~Tr!IsDir
      <4>1. u = v2
        BY <2>1, <3>3
      <4>2. QED
        BY <1>1, <1>2, <3>1, <3>3, <4>1, SingleGoes
    <3>4. CASE "cwd" \notin v12 /\ Tr!IsDir
      <4>1. Tr!OnCourse(v2, v8, v10, v11, v12) /\ Tr!Good(v2)
        BY <3>1, <3>4 DEF Tr!OnCourse
      <4>2. PICK p \in Tr!Copied : Tr!Entry.kind = Tr!Kind(p) /\ Tr!Entry.from = Tr!FromOf(p) /\ Tr!Entry.to = Tr!Place(p)
        BY <1>1, <1>2, <3>4, <4>1, EntryItem
      <4>3. Tr!Sendable(Tr!Entry) /\ Tr!Right(Tr!Entry.to, Tr!Fetched(Tr!Entry))
        BY <1>2, <2>1, <3>1, <4>2, FileSent
      <4>4. u = Tr!MkDirs(v2, Tr!Parent(Tr!Place(p)))
        BY <2>1, <3>4, <4>2
      <4>5. Tr!Good(u) /\ DOMAIN v2 \subseteq DOMAIN u /\ Tr!HasParent(u, Tr!Place(p))
        BY <1>2, <2>1, <3>4, <4>1, <4>2, <4>4, MadeFor
      <4>6. Tr!OnCourse(u, v8, v10, v11, v12)
        BY <4>1, <4>5, MoreMade
      <4>7. QED
        BY <3>1, <3>4, <4>2, <4>3, <4>5, <4>6 DEF Went
    <3>5. QED
      BY <3>2, <3>3, <3>4
  <2>4. QED
    BY <1>1, <2>1, <2>2, <2>3, TransferRight
<1>5. CASE /\ \/ Tr!Entry.kind = "d" /\ v2' = Tr!MkDirs(v2, Tr!Entry.to)
              \/ Tr!Entry.kind = "l" /\ v2' = v2
           /\ v12' = v12 /\ v11' = v11 /\ v10' = v10 + 1 /\ UNCHANGED <<v4, v5, v6, v7, v8, v9>>
  <2>1. Tr!Closed(v2')
    BY <1>2, <1>3, <1>5, MakesClosed
  <2>2. Tr!Sane' /\ Tr!TrTypeOK'
    <3>1. v10' \in 1..(Len(v8) + 1)
      BY <1>1, <1>2, <1>5
    <3>2. QED
      BY <1>1, <1>2, <1>5, <2>1, <3>1, LaterTyped
  <2>3. PICK t, k, o, f : t = v2' /\ k = v10' /\ o = v11' /\ f = v12'
    OBVIOUS
  <2>4. /\ k = v10 + 1 /\ o = v11 /\ f = v12
        /\ (Tr!Entry.kind = "d" /\ t = Tr!MkDirs(v2, Tr!Entry.to)) \/ (Tr!Entry.kind = "l" /\ t = v2)
    BY <1>5, <2>3
  <2>5. ASSUME ~Tr!Odd', "back" \notin f
        PROVE  /\ v7' = SourceDir /\ v3.op \in {"get", "put"}
               /\ IF "cwd" \in f THEN Tr!Astray(t, v8, k, o) ELSE Tr!OnCourse(t, v8, k, o, f)
    <3>1. ~Tr!Odd
      BY <1>1, <1>5, <2>5, OddKept
    <3>2. /\ v7 = SourceDir /\ v3.op \in {"get", "put"}
          /\ IF "cwd" \in v12 THEN Tr!Astray(v2, v8, v10, v11) ELSE Tr!OnCourse(v2, v8, v10, v11, v12)
      BY <1>1, <2>4, <2>5, <3>1, AtWork
    <3>3. CASE "cwd" \in v12
      <4>1. Tr!Astray(v2, v8, v10, v11) /\ \A q \in DOMAIN v2 : v2[q] = <<"d">>
        BY <3>2, <3>3 DEF Tr!Astray
      <4>2. Tr!Entry.kind = "-"
        BY <1>1, <1>2, <3>2, <3>3, <4>1, StrayGoes
      <4>3. QED
        BY <2>4, <4>2
    <3>4. CASE "cwd" \notin v12
      <4>1. Tr!OnCourse(v2, v8, v10, v11, v12) /\ Tr!Good(v2)
        BY <3>2, <3>4 DEF Tr!OnCourse
      <4>2. Tr!IsDir
        <5>1. ~Tr!IsDir => Tr!Entry.kind = "-"
          BY <1>1, <1>2, <3>2, <3>4, <4>1, SingleGoes
        <5>2. QED
          BY <2>4, <5>1
      <4>3. PICK p \in Tr!Copied : Tr!Entry.kind = Tr!Kind(p) /\ Tr!Entry.to = Tr!Place(p)
        BY <1>1, <1>2, <4>1, <4>2, EntryItem
      <4>4. p \in Tr!Below /\ (Tr!Kind(p) = "d" <=> v1[p] \in {"d", "u"})
        BY <1>2, CopyNameIs
      <4>5. Tr!Good(t) /\ DOMAIN v2 \subseteq DOMAIN t /\ Tr!Achieved(t, v8[v10])
        <5>1. CASE Tr!Entry.kind = "l" /\ t = v2
          BY <1>1, <4>1, <5>1 DEF Tr!Achieved, Tr!Entry
        <5>2. CASE Tr!Entry.kind = "d" /\ t = Tr!MkDirs(v2, Tr!Entry.to)
          <6>1. PICK d \in Seq(Tr!Names) : d = Tr!Place(p)
            BY <1>2, <4>4, PlaceIs
          <6>2. \A q \in Tr!Tops(d) : Tr!Right(q, <<"d">>)
            <7>1. Tr!ItemKind # "none" /\ v1[p] \in {"d", "u"}
              BY <4>2, <4>3, <4>4, <5>2 DEF Tr!IsDir
            <7>2. QED
              BY <1>2, <4>4, <6>1, <7>1, TopsRight
          <6>3. t = Tr!MkDirs(v2, d)
            BY <4>3, <5>2, <6>1
          <6>4. Tr!Good(Tr!MkDirs(v2, d)) /\ DOMAIN Tr!MkDirs(v2, d) = DOMAIN v2 \cup Tr!Tops(d) /\ d \in DOMAIN Tr!MkDirs(v2, d)
            BY <1>2, <4>1, <6>2, MakesRight
          <6>5. v8[v10].to = d
            BY <4>3, <6>1 DEF Tr!Entry
          <6>6. QED
            BY <4>2, <6>3, <6>4, <6>5 DEF Tr!Achieved
        <5>3. QED
          BY <2>4, <5>1, <5>2
      <4>6. v12 = {} /\ (Tr!IsDir \/ Tr!ItemKind = "-") => v11 = "ok"
        BY <4>1 DEF Tr!OnCourse
      <4>7. Tr!OnCourse(t, v8, v10 + 1, v11, v12)
        BY <1>2, <4>1, <4>5, <4>6, OneFurther
      <4>8. QED
        BY <1>5, <2>4, <3>2, <3>4, <4>7
    <3>5. QED
      BY <3>3, <3>4
  <2>6. v8' = v8 /\ v9' = "work"
    BY <1>1, <1>5
  <2>7. QED
    BY <1>1, <2>2, <2>3, <2>5, <2>6, StillWorking
<1>6. QED
  BY <1>1, <1>4, <1>5

(* What a put has made so far has the directory of the entry.              *)
LEMMA TopsThere ==
    ASSUME Tr!Sane, NEW t, Tr!Good(t), NEW q \in Tr!Tops(TargetDir)
    PROVE  q \in DOMAIN t /\ Tr!What(t, q) = "d"
<1>1. q \in DOMAIN t /\ Tr!Right(q, <<"d">>)
  BY DEF Tr!Good, Tr!Right
<1>2. t[q] = <<"d">>
  BY <1>1, RightThere
<1>3. QED
  BY <1>1, <1>2 DEF Tr!What

LEMMA AboveTop ==
    ASSUME Tr!Sane, Tr!Top \in Tr!Below, NEW t, Tr!Good(t)
    PROVE  Tr!What(t, Tr!Parent(Tr!Place(Tr!Top))) = "d"
<1>1. Tr!Place(Tr!Top) = TargetDir \o Tr!Base /\ TargetDir \in Seq(Tr!Names) /\ Tr!Base \in Seq(Tr!Names) /\ Len(Tr!Base) <= 1
  BY TopPlace, CompIs, BaseIs
<1>2. TargetDir \in Tr!Tops(TargetDir) /\ <<>> \in Tr!Tops(TargetDir)
  BY <1>1, TopsHave
<1>3. Tr!Parent(Tr!Place(Tr!Top)) \in Tr!Tops(TargetDir)
  <2>1. PICK b \in Seq(Tr!Names) : b = Tr!Base
    BY <1>1
  <2>2. CASE b = <<>>
    <3>1. Tr!Place(Tr!Top) = TargetDir
      BY <1>1, <2>1, <2>2
    <3>2. CASE TargetDir # <<>>
      BY <1>1, <1>2, <3>1, <3>2, FrontTop
    <3>3. CASE TargetDir = <<>>
      <4>1. Tr!Parent(TargetDir) \in Seq(Tr!Names)
        BY <1>1, FrontTyped
      <4>2. Tr!Parent(TargetDir) = <<>>
        BY <3>3 DEF Tr!Parent
      <4>3. QED
        BY <1>2, <3>1, <4>2
    <3>4. QED
      BY <3>2, <3>3
  <2>3. CASE b # <<>>
    <3>1. Len(b) = 1 /\ b[1] \in Tr!Names
      <4>1. Len(b) \in Nat /\ Len(b) >= 1 /\ Head(b) = b[1] /\ Head(b) \in Tr!Names
        BY <2>3, HeadFirst
      <4>2. Len(b) <= 1
        BY <1>1, <2>1
      <4>3. PICK m \in Nat : m = Len(b)
        BY <4>1
      <4>4. m = 1
        BY <4>1, <4>2, <4>3
      <4>5. b[1] \in Tr!Names
        BY <4>1
      <4>6. QED
        BY <4>3, <4>4, <4>5
    <3>2. b = <<b[1]>>
      BY <3>1
    <3>3. TargetDir \o b = Append(TargetDir, b[1]) /\ Tr!Parent(Append(TargetDir, b[1])) = TargetDir
      BY <1>1, <3>1, <3>2, GrownIs
    <3>4. QED
      BY <1>1, <1>2, <2>1, <3>3
  <2>4. QED
    BY <2>2, <2>3
<1>4. QED
  BY <1>3, TopsThere

LEMMA ParentMade ==
    ASSUME Tr!Sane, v3.op = "put", Tr!IsDir, Tr!OnCourse(v2, v8, v10, v11, v12), v11 = "ok", "link" \notin v12,
           NEW p \in Tr!Copied, Tr!Follows(TRUE, v8, p, v10)
    PROVE  Tr!What(v2, Tr!Parent(Tr!Place(p))) = "d"
<1>1. Tr!Good(v2) /\ \A i \in 1..(v10 - 1) : Tr!Achieved(v2, v8[i])
  BY DEF Tr!OnCourse
<1>2. Tr!Top \in Tr!Below /\ v1[Tr!Top] \in {"d", "u"} /\ p \in Tr!Below
  BY TopBelow, CopyNameIs DEF Tr!IsDir
<1>3. CASE p = Tr!Top
  BY <1>1, <1>2, <1>3, AboveTop
<1>4. CASE p # Tr!Top
  <2>1. /\ Tr!Parent(p) \in Tr!Below /\ v1[Tr!Parent(p)] = "d" /\ Tr!Name(p) \in Tr!NamesIn(v1, Tr!Parent(p)) /\ p = Append(Tr!Parent(p), Tr!Name(p))
    BY <1>2, <1>4, ParentBelow
  <2>2. Tr!Parent(Tr!Place(p)) = Tr!Place(Tr!Parent(p))
    BY <2>1, Downward
  <2>3. Tr!Place(Tr!Parent(p)) \in DOMAIN v2
    <3>1. CASE Tr!Unnamed(Tr!Parent(p))
      <4>1. Tr!Parent(p) = Tr!Top
        <5>1. SUFFICES ASSUME Tr!Parent(p) # Tr!Top PROVE FALSE
          OBVIOUS
        <5>2. PICK g : g = Tr!Parent(p) /\ g \in Tr!Below /\ g # Tr!Top /\ Tr!Text(g) = <<".">>
          BY <2>1, <3>1, <5>1 DEF Tr!Unnamed
        <5>3. Tr!Parent(g) \in Tr!Below /\ v1[Tr!Parent(g)] = "d" /\ Tr!Name(g) \in Tr!NamesIn(v1, Tr!Parent(g)) /\ g = Append(Tr!Parent(g), Tr!Name(g))
          BY <5>2, ParentBelow
        <5>4. Tr!Text(g) # <<".">>
          BY <5>3, Downward
        <5>5. QED
          BY <5>2, <5>4
      <4>2. v3.item = <<".">>
        <5>1. Tr!Text(Tr!Top) = v3.item
          BY <1>2, RootIs DEF Tr!TopText
        <5>2. QED
          BY <3>1, <4>1, <5>1 DEF Tr!Unnamed
      <4>3. Tr!Place(Tr!Top) = TargetDir
        <5>1. Tr!Place(Tr!Top) = TargetDir \o Tr!Base /\ Tr!Base = <<>> /\ TargetDir \in Seq(Tr!Names)
          BY <1>2, <4>2, TopPlace, MarkTop, CompIs
        <5>2. QED
          BY <5>1
      <4>4. TargetDir \in Tr!Tops(TargetDir)
        BY CompIs, TopsHave
      <4>5. TargetDir \in DOMAIN v2
        BY <1>1, <4>4, TopsThere
      <4>6. QED
        BY <4>1, <4>3, <4>5
    <3>2. CASE \E j \in 1..(v10 - 1) : v8[j] = Tr!ItemOf(TRUE, Tr!Parent(p))
      <4>1. PICK j \in 1..(v10 - 1) : v8[j] = Tr!ItemOf(TRUE, Tr!Parent(p))
        BY <3>2
      <4>2. v8[j].to = Tr!Place(Tr!Parent(p)) /\ Tr!Achieved(v2, v8[j])
        BY <1>1, <4>1 DEF Tr!ItemOf, Tr!WorkItem
      <4>3. QED
        BY <4>2 DEF Tr!Achieved
    <3>3. QED
      BY <1>4, <3>1, <3>2 DEF Tr!Follows
  <2>4. QED
    BY <1>1, <2>1, <2>2, <2>3, DirThere
<1>5. QED
  BY <1>3, <1>4

(* An entry that makes one thing, or nothing.                              *)
Adds(e, k) ==
  \/ Tr!What(v2, e.to) = "d" /\ k = "d" /\ v2' = v2 /\ v11' = v11 /\ v12' = v12
  \/ k = "d" /\ Tr!HasParent(v2, e.to) /\ v2' = Tr!Put(v2, e.to, <<"d">>) /\ v11' = v11 /\ v12' = v12
  \/ k = "d" /\ Tr!What(v2, Tr!Parent(e.to)) # "d" /\ v2' = v2 /\ v11' = "bad" /\ v12' = v12
  \/ k = "d" /\ v2' = v2 /\ v11' = "bad" /\ v12' = v12 \cup {"mkdir"}
  \/ k = "l" /\ Tr!HasParent(v2, e.to) /\ v2' = Tr!Put(v2, e.to, <<"l">>) /\ v11' = v11 /\ v12' = v12
  \/ k = "l" /\ ~Tr!HasParent(v2, e.to) /\ v2' = v2 /\ v11' = v11 /\ v12' = v12
  \/ k = "l" /\ v2' = v2 /\ v11' = v11 /\ v12' = v12 \cup {"link"}

LEMMA PutOneIs ==
    ASSUME v11 \in {"ok", "bad"}, Tr!PutOne
    PROVE  /\ v9 = "work" /\ v3.op = "put" /\ v10 <= Len(v8) /\ UNCHANGED <<v1, v3>>
           /\ \/ Tr!Entry.kind = "-" /\ Tr!Transferred(v2, Tr!HasParent(v2, Tr!Entry.to) /\ Tr!Sendable(Tr!Entry))
              \/ /\ Adds(Tr!Entry, Tr!Entry.kind) /\ Tr!Entry.kind \in {"d", "l"}
                 /\ v10' = v10 + 1 /\ UNCHANGED <<v4, v5, v6, v7, v8, v9>>
<1>1. v9 = "work" /\ v3.op = "put" /\ v10 <= Len(v8) /\ UNCHANGED <<v1, v3>>
  BY DEF Tr!PutOne, Tr!Working, Tr!Steps
<1>2. CASE Tr!Entry.kind = "-" /\ Tr!Transferred(v2, Tr!HasParent(v2, Tr!Entry.to) /\ Tr!Sendable(Tr!Entry))
  BY <1>1, <1>2
<1>3. CASE /\ Tr!Entry.kind = "d" /\ Tr!Untroubled /\ Tr!Further
           /\ \/ Tr!What(v2, Tr!Entry.to) = "d" /\ UNCHANGED <<v2, v11>>
              \/ Tr!HasParent(v2, Tr!Entry.to) /\ v2' = Tr!Put(v2, Tr!Entry.to, <<"d">>) /\ UNCHANGED v11
              \/ Tr!What(v2, Tr!Parent(Tr!Entry.to)) # "d" /\ v11' = Tr!Latched("bad") /\ UNCHANGED v2
  BY <1>1, <1>3 DEF Adds, Tr!Further, Tr!Untroubled, Tr!Latched, Tr!walkvars
<1>4. CASE Tr!Entry.kind = "d" /\ Tr!Happens("mkdir") /\ v11' = Tr!Latched("bad") /\ Tr!Further /\ UNCHANGED v2
  BY <1>1, <1>4 DEF Adds, Tr!Further, Tr!Happens, Tr!Latched, Tr!walkvars
<1>5. CASE /\ Tr!Entry.kind = "l" /\ UNCHANGED v11 /\ Tr!Further
           /\ \/ v2' = (IF Tr!HasParent(v2, Tr!Entry.to) THEN Tr!Put(v2, Tr!Entry.to, <<"l">>) ELSE v2) /\ Tr!Untroubled
              \/ Tr!Happens("link") /\ UNCHANGED v2
  BY <1>1, <1>5 DEF Adds, Tr!Further, Tr!Untroubled, Tr!Happens, Tr!walkvars
<1>6. QED
  BY <1>2, <1>3, <1>4, <1>5 DEF Tr!PutOne

LEMMA AddsTyped ==
    ASSUME Tr!TrInv, v9 = "work", v10 <= Len(v8), UNCHANGED <<v1, v3>>, NEW e, NEW k, Adds(e, k),
           v10' = v10 + 1, UNCHANGED <<v4, v5, v6, v7, v8, v9>>
    PROVE  Tr!Sane' /\ Tr!TrTypeOK'
<1>1. /\ Tr!Sane /\ Tr!TrTypeOK /\ Tr!Closed(v2) /\ v8 \in Seq(Tr!Entries) /\ v10 \in 1..(Len(v8) + 1) /\ v11 \in {"ok", "bad"}
      /\ Len(v8) \in Nat
  BY Anywhere
<1>2. PICK x : x = e.to
  OBVIOUS
<1>3. /\ v2' = v2 \/ (Tr!HasParent(v2, x) /\ \E j : v2' = Tr!Put(v2, x, j))
      /\ v11' \in {"ok", "bad"}
  BY <1>1, <1>2 DEF Adds
<1>4. Tr!Closed(v2')
  BY <1>1, <1>3, PutClosed
<1>5. v10' \in 1..(Len(v8) + 1)
  BY <1>1
<1>6. QED
  BY <1>1, <1>3, <1>4, <1>5, LaterTyped

LEMMA AddsRight ==
    ASSUME Tr!Sane, v3.op = "put", Tr!IsDir, Tr!OnCourse(v2, v8, v10, v11, v12), v10 \in Nat, NEW p \in Tr!Copied,
           Tr!Follows(TRUE, v8, p, v10), Tr!Entry.to = Tr!Place(p), Tr!Entry.kind = Tr!Kind(p), Adds(Tr!Entry, Tr!Kind(p)),
           NEW t, t = v2', NEW o, o = v11', NEW f, f = v12'
    PROVE  Tr!OnCourse(t, v8, v10 + 1, o, f)
<1>1. /\ Tr!Good(v2) /\ (v12 = {} /\ (Tr!IsDir \/ Tr!ItemKind = "-") => v11 = "ok")
  BY DEF Tr!OnCourse
<1>2. /\ p \in Tr!Below /\ (Tr!Kind(p) = "d" => Tr!Image(p) = <<"d">>) /\ (Tr!Kind(p) = "l" => Tr!Image(p) = <<"l">>)
      /\ Tr!Right(Tr!Place(p), Tr!Image(p))
  BY CopyNameIs, PlaceRight
<1>3. v11 = "ok" /\ "link" \notin v12 => Tr!What(v2, Tr!Parent(Tr!Place(p))) = "d"
  BY ParentMade
<1>4. v8[v10].to = Tr!Place(p)
  BY DEF Tr!Entry
<1>5. ASSUME v11 = "ok", "link" \notin v12, Tr!Kind(p) = "l" PROVE Tr!HasParent(v2, Tr!Place(p))
  <2>1. Tr!Place(p) # <<>> /\ v1[p] \notin {"d", "u"}
    BY <1>5, InDirectory, CopyNameIs
  <2>2. Tr!What(v2, Tr!Place(p)) # "d"
    BY <1>1, <2>1, NoDirThere
  <2>3. QED
    BY <1>3, <1>5, <2>1, <2>2 DEF Tr!HasParent
<1>6. CASE Tr!What(v2, Tr!Place(p)) = "d" /\ t = v2 /\ o = v11 /\ f = v12
  <2>1. Tr!Place(p) \in DOMAIN v2
    <3>1. "d" # "none"
      OBVIOUS
    <3>2. QED
      BY <1>6, <3>1 DEF Tr!What
  <2>2. Tr!Achieved(v2, v8[v10])
    BY <1>4, <2>1 DEF Tr!Achieved
  <2>3. Tr!OnCourse(v2, v8, v10 + 1, v11, v12)
    BY <1>1, <2>2, OneFurther
  <2>4. QED
    BY <1>6, <2>3
<1>7. CASE \E k : k = Tr!Image(p) /\ t = Tr!Put(v2, Tr!Place(p), k) /\ o = v11 /\ f = v12
  <2>1. PICK k : k = Tr!Image(p) /\ t = Tr!Put(v2, Tr!Place(p), k) /\ o = v11 /\ f = v12
    BY <1>7
  <2>2. Tr!Good(t) /\ DOMAIN t = DOMAIN v2 \cup {Tr!Place(p)}
    <3>1. PICK q : q = Tr!Place(p) /\ Tr!Right(q, k)
      BY <1>2, <2>1
    <3>2. Tr!Good(Tr!Put(v2, q, k)) /\ DOMAIN Tr!Put(v2, q, k) = DOMAIN v2 \cup {q}
      BY <1>1, <3>1, PutRight
    <3>3. QED
      BY <2>1, <3>1, <3>2
  <2>3. Tr!Achieved(t, v8[v10])
    BY <1>4, <2>2 DEF Tr!Achieved
  <2>4. Tr!OnCourse(t, v8, v10 + 1, v11, v12)
    BY <1>1, <2>2, <2>3, OneFurther
  <2>5. QED
    BY <2>1, <2>4
<1>8. CASE t = v2 /\ o = "bad" /\ v12 \subseteq f /\ f # {}
  <2>1. Tr!OnCourse(v2, v8, v10 + 1, "bad", f)
    BY <1>1, <1>8, OneFurther
  <2>2. QED
    BY <1>8, <2>1
<1>9. CASE t = v2 /\ o = v11 /\ v12 \subseteq f /\ "link" \in f
  <2>1. Tr!OnCourse(v2, v8, v10 + 1, v11, f)
    BY <1>1, <1>9, OneFurther
  <2>2. QED
    BY <1>9, <2>1
<1>10. CASE ~Tr!HasParent(v2, Tr!Place(p)) /\ Tr!Kind(p) = "l" /\ t = v2 /\ o = v11 /\ f = v12
  <2>1. ~(v11 = "ok" /\ "link" \notin v12)
    BY <1>5, <1>10
  <2>2. Tr!OnCourse(v2, v8, v10 + 1, v11, v12)
    BY <1>1, <2>1, OneFurther
  <2>3. QED
    BY <1>10, <2>2
<1>11. CASE Tr!What(v2, Tr!Parent(Tr!Place(p))) # "d" /\ t = v2 /\ o = "bad" /\ f = v12
  <2>1. v12 # {}
    BY <1>1, <1>3, <1>11
  <2>2. QED
    BY <1>8, <1>11, <2>1
<1>12. QED
  BY <1>2, <1>6, <1>7, <1>8, <1>9, <1>10, <1>11 DEF Adds

LEMMA PutOneStep == ASSUME Tr!TrInv, Tr!PutOne PROVE Tr!TrInv'
<1>1. /\ Tr!Sane /\ Tr!TrTypeOK /\ Tr!Closed(v2) /\ v8 \in Seq(Tr!Entries) /\ v10 \in 1..(Len(v8) + 1) /\ v11 \in {"ok", "bad"}
      /\ Len(v8) \in Nat
  BY Anywhere
<1>2. /\ v9 = "work" /\ v3.op = "put" /\ v10 <= Len(v8) /\ UNCHANGED <<v1, v3>>
      /\ \/ Tr!Entry.kind = "-" /\ Tr!Transferred(v2, Tr!HasParent(v2, Tr!Entry.to) /\ Tr!Sendable(Tr!Entry))
         \/ /\ Adds(Tr!Entry, Tr!Entry.kind) /\ Tr!Entry.kind \in {"d", "l"}
            /\ v10' = v10 + 1 /\ UNCHANGED <<v4, v5, v6, v7, v8, v9>>
  BY <1>1, PutOneIs
<1>3. v10 \in Nat
  BY <1>1
<1>4. CASE Tr!Entry.kind = "-" /\ Tr!Transferred(v2, Tr!HasParent(v2, Tr!Entry.to) /\ Tr!Sendable(Tr!Entry))
  <2>1. ASSUME ~Tr!Odd, "back" \notin v12 PROVE Went(v2)
    <3>1. /\ v7 = SourceDir /\ v3.op \in {"get", "put"}
          /\ IF "cwd" \in v12 THEN Tr!Astray(v2, v8, v10, v11) ELSE Tr!OnCourse(v2, v8, v10, v11, v12)
      BY <1>2, <2>1, AtWork
    <3>2. "cwd" \notin v12 /\ Tr!OnCourse(v2, v8, v10, v11, v12) /\ Tr!Good(v2)
      BY <1>2, <3>1 DEF Tr!Astray, Tr!OnCourse
    <3>3. CASE ~Tr!IsDir
      BY <1>1, <1>2, <3>1, <3>2, <3>3, SingleGoes
    <3>4. CASE Tr!IsDir
      <4>1. PICK p \in Tr!Copied : /\ Tr!Follows(TRUE, v8, p, v10) /\ Tr!Entry.kind = Tr!Kind(p)
                                   /\ Tr!Entry.from = Tr!FromOf(p) /\ Tr!Entry.to = Tr!Place(p)
        BY <1>1, <1>2, <3>2, <3>4, EntryItem
      <4>2. Tr!Sendable(Tr!Entry) /\ Tr!Right(Tr!Entry.to, Tr!Fetched(Tr!Entry))
        BY <1>1, <1>4, <3>1, <4>1, FileSent
      <4>3. Tr!Place(p) # <<>> /\ Tr!What(v2, Tr!Place(p)) # "d"
        <5>1. v1[p] \notin {"d", "u"} /\ Tr!Kind(p) # "d"
          BY <1>1, <1>4, <4>1, CopyNameIs
        <5>2. Tr!Place(p) # <<>>
          BY <1>1, <3>4, <5>1, InDirectory
        <5>3. QED
          BY <1>1, <3>2, <5>1, <5>2, NoDirThere
      <4>4. v12 = {} => Tr!HasParent(v2, Tr!Entry.to)
        <5>1. SUFFICES ASSUME v12 = {} PROVE Tr!HasParent(v2, Tr!Entry.to)
          OBVIOUS
        <5>2. v11 = "ok"
          BY <3>2, <3>4, <5>1 DEF Tr!OnCourse
        <5>3. Tr!What(v2, Tr!Parent(Tr!Place(p))) = "d"
          BY <1>1, <1>2, <3>2, <3>4, <4>1, <5>1, <5>2, ParentMade
        <5>4. QED
          BY <4>1, <4>3, <5>3 DEF Tr!HasParent
      <4>5. QED
        BY <3>1, <3>2, <3>4, <4>2, <4>4 DEF Went
    <3>5. QED
      BY <3>3, <3>4
  <2>2. QED
    BY <1>1, <1>2, <1>4, <2>1, TransferRight
<1>5. CASE /\ Adds(Tr!Entry, Tr!Entry.kind) /\ Tr!Entry.kind \in {"d", "l"}
           /\ v10' = v10 + 1 /\ UNCHANGED <<v4, v5, v6, v7, v8, v9>>
  <2>1. PICK e : e = Tr!Entry
    OBVIOUS
  <2>2. Tr!Sane' /\ Tr!TrTypeOK'
    BY <1>2, <1>5, AddsTyped
  <2>3. PICK t, k, o, f : t = v2' /\ k = v10' /\ o = v11' /\ f = v12'
    OBVIOUS
  <2>4. v12 \subseteq f /\ ("cwd" \in f => "cwd" \in v12) /\ ("back" \in v12 => "back" \in f)
    BY <1>5, <2>3 DEF Adds
  <2>5. ASSUME ~Tr!Odd', "back" \notin f
        PROVE  /\ v7' = SourceDir /\ v3.op \in {"get", "put"}
               /\ IF "cwd" \in f THEN Tr!Astray(t, v8, k, o) ELSE Tr!OnCourse(t, v8, k, o, f)
    <3>1. ~Tr!Odd
      BY <1>2, <1>5, <2>5, OddKept
    <3>2. /\ v7 = SourceDir /\ v3.op \in {"get", "put"}
          /\ IF "cwd" \in v12 THEN Tr!Astray(v2, v8, v10, v11) ELSE Tr!OnCourse(v2, v8, v10, v11, v12)
      BY <1>2, <2>4, <2>5, <3>1, AtWork
    <3>3. "cwd" \notin v12 /\ Tr!OnCourse(v2, v8, v10, v11, v12)
      BY <1>2, <3>2 DEF Tr!Astray
    <3>4. Tr!IsDir
      <4>1. ~Tr!IsDir => Tr!Entry.kind = "-"
        BY <1>1, <1>2, <3>2, <3>3, SingleGoes
      <4>2. QED
        BY <1>5, <4>1
    <3>5. PICK p \in Tr!Copied : Tr!Follows(TRUE, v8, p, v10) /\ Tr!Entry.kind = Tr!Kind(p) /\ Tr!Entry.to = Tr!Place(p)
      BY <1>1, <1>2, <3>3, <3>4, EntryItem
    <3>6. Adds(Tr!Entry, Tr!Kind(p))
      BY <1>5, <3>5
    <3>7. Tr!OnCourse(t, v8, v10 + 1, o, f)
      BY <1>1, <1>2, <1>3, <2>3, <3>3, <3>4, <3>5, <3>6, AddsRight
    <3>8. QED
      BY <1>5, <2>3, <2>4, <3>2, <3>3, <3>7
  <2>6. v8' = v8 /\ v9' = "work"
    BY <1>2, <1>5
  <2>7. QED
    BY <1>2, <2>2, <2>3, <2>5, <2>6, StillWorking
<1>6. QED
  BY <1>2, <1>4, <1>5

LEMMA LoseHostStep == ASSUME Tr!TrInv, Tr!LoseHost PROVE Tr!TrInv'
<1>1. /\ Tr!Sane /\ Tr!TrTypeOK /\ Tr!Closed(v2) /\ v8 \in Seq(Tr!Entries) /\ v10 \in 1..(Len(v8) + 1) /\ v11 \in {"ok", "bad"}
      /\ Len(v8) \in Nat
  BY Anywhere
<1>2. /\ v9 = "work" /\ v10 <= Len(v8) /\ v12' = v12 \cup {"lost"} /\ v10' = Len(v8) + 1 /\ v11' = "bad"
      /\ UNCHANGED <<v1, v3, v4, v5, v6, v7, v8, v9, v2>>
  BY DEF Tr!LoseHost, Tr!Happens, Tr!Latched, Tr!Steps, Tr!walkvars
<1>3. Tr!Sane' /\ Tr!TrTypeOK'
  <2>1. Tr!Closed(v2')
    BY <1>1, <1>2 DEF Tr!Closed, Tr!What
  <2>2. v10' \in 1..(Len(v8) + 1)
    BY <1>1, <1>2
  <2>3. QED
    BY <1>1, <1>2, <2>1, <2>2, LaterTyped
<1>4. PICK t, k, o, f : t = v2' /\ k = v10' /\ o = v11' /\ f = v12'
  OBVIOUS
<1>5. t = v2 /\ o = "bad" /\ f = v12 \cup {"lost"} /\ f # {}
  BY <1>2, <1>4
<1>6. ASSUME ~Tr!Odd', "back" \notin f
      PROVE  /\ v7' = SourceDir /\ v3.op \in {"get", "put"}
             /\ IF "cwd" \in f THEN Tr!Astray(t, v8, k, o) ELSE Tr!OnCourse(t, v8, k, o, f)
  <2>1. ~Tr!Odd
    BY <1>2, <1>6, OddKept
  <2>2. /\ v7 = SourceDir /\ v3.op \in {"get", "put"}
        /\ IF "cwd" \in v12 THEN Tr!Astray(v2, v8, v10, v11) ELSE Tr!OnCourse(v2, v8, v10, v11, v12)
    BY <1>2, <1>5, <1>6, <2>1, AtWork
  <2>3. "cwd" \in f <=> "cwd" \in v12
    BY <1>5
  <2>4. Tr!Astray(v2, v8, v10, v11) => Tr!Astray(v2, v8, k, "bad")
    BY StraysFurther
  <2>5. Tr!OnCourse(v2, v8, v10, v11, v12) => Tr!OnCourse(v2, v8, k, "bad", f)
    BY <1>5 DEF Tr!OnCourse
  <2>6. QED
    BY <1>2, <1>5, <2>2, <2>3, <2>4, <2>5
<1>7. v8' = v8 /\ v9' = "work"
  BY <1>2
<1>8. QED
  BY <1>2, <1>3, <1>4, <1>6, <1>7, StillWorking

(***************************************************************************)
(* The end of the list.                                                    *)
(***************************************************************************)
LEMMA UnnamedTop ==
    ASSUME Tr!Sane, NEW p \in Tr!Below, Tr!Unnamed(p)
    PROVE  p = Tr!Top
<1>1. SUFFICES ASSUME p # Tr!Top PROVE FALSE
  OBVIOUS
<1>2. Tr!Parent(p) \in Tr!Below /\ v1[Tr!Parent(p)] = "d" /\ Tr!Name(p) \in Tr!NamesIn(v1, Tr!Parent(p)) /\ p = Append(Tr!Parent(p), Tr!Name(p))
  BY <1>1, ParentBelow
<1>3. Tr!Text(p) # <<".">>
  BY <1>2, Downward
<1>4. QED
  BY <1>3 DEF Tr!Unnamed

(* An item that has been worked on, other than a link of a get.            *)
LEMMA WorkedOn ==
    ASSUME Tr!Sane, NEW p \in Tr!Copied, Tr!IsListed(TRUE, v8, p), \A i \in DOMAIN v8 : Tr!Achieved(v2, v8[i]),
           v3.op = "get" => Tr!Kind(p) # "l"
    PROVE  Tr!Place(p) \in DOMAIN v2
<1>1. PICK i \in DOMAIN v8 : v8[i] = Tr!ItemOf(TRUE, p)
  BY DEF Tr!IsListed
<1>2. v8[i].kind = Tr!Kind(p) /\ v8[i].to = Tr!Place(p)
  BY <1>1 DEF Tr!ItemOf, Tr!WorkItem
<1>3. QED
  BY <1>2 DEF Tr!Achieved

LEMMA TopReached ==
    ASSUME Tr!Sane, Tr!Closed(v2), Tr!Good(v2), Tr!IsDir, ~Tr!Bare, v3.op \in {"get", "put"},
           \A p \in Tr!Copied : Tr!Unnamed(p) \/ Tr!IsListed(TRUE, v8, p), \A i \in DOMAIN v8 : Tr!Achieved(v2, v8[i])
    PROVE  Tr!Place(Tr!Top) \in DOMAIN v2
<1>1. Tr!Top \in Tr!Below /\ Tr!Top \in Tr!Copied /\ Tr!Kind(Tr!Top) = "d"
  <2>1. Tr!Top \in Tr!Below /\ v1[Tr!Top] \in {"d", "u"}
    BY TopBelow DEF Tr!IsDir
  <2>2. QED
    BY <2>1, DirCopied, ImageIs
<1>2. CASE Tr!IsListed(TRUE, v8, Tr!Top)
  BY <1>1, <1>2, WorkedOn
<1>3. CASE Tr!Base = <<>>
  <2>1. Tr!Place(Tr!Top) = TargetDir \o Tr!Base /\ TargetDir \in Seq(Tr!Names)
    BY <1>1, TopPlace, CompIs
  <2>2. Tr!Place(Tr!Top) = TargetDir
    BY <1>3, <2>1
  <2>3. TargetDir \in Tr!Tops(TargetDir)
    BY <2>1, TopsHave
  <2>4. QED
    BY <2>2, <2>3, TopsThere
<1>4. CASE Tr!Unnamed(Tr!Top) /\ v3.op = "put"
  <2>1. v3.item = <<".">>
    BY <1>1, <1>4, RootIs DEF Tr!Unnamed, Tr!TopText
  <2>2. Tr!Base = <<>>
    BY <2>1, MarkTop
  <2>3. QED
    BY <1>3, <2>2
<1>5. CASE v3.op = "get" /\ Tr!Base # <<>>
  <2>1. PICK p \in Tr!Copied \ {Tr!Top} : v1[p] # "l"
    BY <1>5 DEF Tr!Bare
  <2>2. p \in Tr!Below /\ Tr!Kind(p) # "l"
    BY <2>1, CopyNameIs
  <2>3. Tr!IsListed(TRUE, v8, p)
    BY <2>1, <2>2, UnnamedTop
  <2>4. Tr!Place(p) \in DOMAIN v2
    BY <2>1, <2>2, <2>3, WorkedOn
  <2>5. QED
    BY <2>2, <2>4, TopMade
<1>6. QED
  BY <1>1, <1>2, <1>3, <1>4, <1>5

LEMMA DirReached ==
    ASSUME Tr!Sane, Tr!Closed(v2), Tr!Good(v2), Tr!IsDir, ~Tr!Bare, v3.op \in {"get", "put"},
           \A p \in Tr!Copied : Tr!Unnamed(p) \/ Tr!IsListed(TRUE, v8, p), \A i \in DOMAIN v8 : Tr!Achieved(v2, v8[i]),
           NEW p \in Tr!Copied, v3.op = "get" => Tr!Kind(p) # "l"
    PROVE  Tr!Place(p) \in DOMAIN v2
<1>1. CASE Tr!IsListed(TRUE, v8, p)
  BY <1>1, WorkedOn
<1>2. CASE Tr!Unnamed(p)
  <2>1. p = Tr!Top
    BY <1>2, UnnamedTop, CopyNameIs
  <2>2. Tr!Place(Tr!Top) \in DOMAIN v2
    BY TopReached
  <2>3. QED
    BY <2>1, <2>2
<1>3. QED
  BY <1>1, <1>2

LEMMA LinkReached ==
    ASSUME Tr!Sane, Tr!Closed(v2), Tr!Good(v2), Tr!IsDir, ~Tr!Bare, v3.op = "get",
           \A p \in Tr!Copied : Tr!Unnamed(p) \/ Tr!IsListed(TRUE, v8, p), \A i \in DOMAIN v8 : Tr!Achieved(v2, v8[i]),
           NEW p \in Tr!Copied, Tr!Kind(p) = "l"
    PROVE  Tr!Place(p) \in Tr!LinksOf(v2)
<1>1. /\ p # Tr!Top /\ Tr!Parent(p) \in Tr!Below /\ v1[Tr!Parent(p)] = "d" /\ Tr!Parent(Tr!Place(p)) = Tr!Place(Tr!Parent(p)) /\ Tr!Place(p) # <<>>
  BY InDirectory
<1>2. PICK d : d = Tr!Parent(p)
  OBVIOUS
<1>3. d \in Tr!Copied /\ Tr!Kind(d) = "d" /\ d \in Tr!Below /\ v1[d] = "d"
  BY <1>1, <1>2, DirCopied, ImageIs
<1>4. Tr!Place(d) \in DOMAIN v2
  BY <1>3, DirReached
<1>5. Tr!What(v2, Tr!Parent(Tr!Place(p))) = "d"
  BY <1>1, <1>2, <1>3, <1>4, DirThere
<1>6. Tr!What(v2, Tr!Place(p)) # "d"
  <2>1. v1[p] \notin {"d", "u"}
    BY CopyNameIs
  <2>2. QED
    BY <2>1, NoDirThere
<1>7. Tr!HasParent(v2, Tr!Place(p))
  BY <1>1, <1>5, <1>6 DEF Tr!HasParent
<1>8. Tr!IsListed(TRUE, v8, p)
  BY <1>1, UnnamedTop, CopyNameIs
<1>9. PICK i \in DOMAIN v8 : v8[i] = Tr!ItemOf(TRUE, p)
  BY <1>8 DEF Tr!IsListed
<1>10. v8[i].kind = "l" /\ v8[i].to = Tr!Place(p)
  BY <1>9 DEF Tr!ItemOf, Tr!WorkItem
<1>11. QED
  BY <1>7, <1>9, <1>10 DEF Tr!LinksOf

(* The links that are made are those of the tree.                          *)
LEMMA LinksRight ==
    ASSUME Tr!Sane, Tr!Listing(TRUE, v8), Tr!Good(v2), NEW u, DOMAIN u = DOMAIN v2 \cup Tr!LinksOf(v2),
           \A q \in DOMAIN u : u[q] = IF q \in Tr!LinksOf(v2) THEN <<"l">> ELSE v2[q]
    PROVE  Tr!Good(u)
<1>1. ASSUME NEW q \in Tr!LinksOf(v2) PROVE Tr!Right(q, <<"l">>)
  <2>1. PICK i \in DOMAIN v8 : v8[i].kind = "l" /\ q = v8[i].to
    BY DEF Tr!LinksOf
  <2>2. PICK p \in Tr!Copied : v8[i] = Tr!ItemOf(TRUE, p)
    BY DEF Tr!Listing
  <2>3. Tr!Kind(p) = "l" /\ q = Tr!Place(p)
    BY <2>1, <2>2 DEF Tr!ItemOf, Tr!WorkItem
  <2>4. Tr!Image(p) = <<"l">>
    BY <2>3, CopyNameIs
  <2>5. QED
    BY <2>3, <2>4, PlaceRight
<1>2. QED
  BY <1>1 DEF Tr!Good

LEMMA NoLinks ==
    ASSUME \A i \in DOMAIN v8 : v8[i].kind # "l", NEW t
    PROVE  Tr!LinksOf(t) = {}
  BY DEF Tr!LinksOf

LEMMA SingleReached ==
    ASSUME Tr!Sane, ~Tr!IsDir, v8 = Tr!Plain(v3.item, TargetDir \o Tr!Base), \A i \in DOMAIN v8 : Tr!Achieved(v2, v8[i]),
           NEW p \in Tr!Copied, Tr!ItemKind # "none"
    PROVE  Tr!Place(p) \in DOMAIN v2
<1>1. PICK a \in Seq(Tr!Comp), b \in Seq(Tr!Comp) : a = v3.item /\ b = TargetDir \o Tr!Base
  BY PathsTyped
<1>2. 1 \in DOMAIN v8 /\ v8[1] = [kind |-> "-", from |-> a, to |-> b]
  <2>1. v8 = Tr!Plain(a, b)
    BY <1>1
  <2>2. Tr!Plain(a, b)[1] = [kind |-> "-", from |-> a, to |-> b] /\ DOMAIN Tr!Plain(a, b) = {1}
    BY PlainTyped
  <2>3. QED
    BY <2>1, <2>2
<1>3. v8[1].kind # "l" /\ v8[1].to = TargetDir \o Tr!Base
  BY <1>1, <1>2
<1>4. TargetDir \o Tr!Base \in DOMAIN v2 /\ Tr!ItemKind = "-"
  BY <1>2, <1>3 DEF Tr!Achieved
<1>5. Tr!Top \in Tr!Below /\ v1[Tr!Top] = "-"
  BY <1>4, TopBelow
<1>6. p = Tr!Top
  <2>1. p \in Tr!Below /\ Tr!Within(Tr!Top, p)
    BY CopyNameIs, BelowIs
  <2>2. QED
    BY <1>5, <2>1, NextBelow
<1>7. QED
  BY <1>4, <1>5, <1>6, TopPlace

LEMMA CopiedSome == ASSUME Tr!Sane, NEW p \in Tr!Copied PROVE Tr!ItemKind # "none"
<1>1. p \in DOMAIN v1 /\ p \in Seq(Tr!Names) /\ Tr!Within(Tr!Top, p) /\ Len(Tr!Top) <= Len(p)
  BY CopyNameIs, BelowIs
<1>2. Tr!Top \in Seq(Tr!Names)
  BY TopIs
<1>3. Tr!Top \in DOMAIN v1
  <2>1. CASE Tr!Top = p
    BY <1>1, <2>1
  <2>2. CASE Tr!Top # p
    <3>1. Len(Tr!Top) < Len(p) /\ SubSeq(p, 1, Len(Tr!Top)) = Tr!Top
      BY <1>1, <1>2, <2>2, PrefixCases
    <3>2. PICK m \in Nat, n \in Nat : m = Len(Tr!Top) /\ n = Len(p)
      BY <1>1, <1>2
    <3>3. m \in 0..(n - 1)
      BY <3>1, <3>2
    <3>4. SubSeq(p, 1, m) \in DOMAIN v1
      BY <1>1, <3>2, <3>3, WorldIs
    <3>5. QED
      BY <3>1, <3>2, <3>4
  <2>3. QED
    BY <2>1, <2>2
<1>4. v1[Tr!Top] \in {"d", "u", "-", "l", "?"}
  BY <1>3, WorldIs
<1>5. Tr!ItemKind = v1[Tr!Top]
  BY <1>3 DEF Tr!ItemKind, Tr!KindOf, Tr!Top
<1>6. QED
  BY <1>4, <1>5

LEMMA FinishStep == ASSUME Tr!TrInv, Tr!Finish PROVE Tr!TrInv'
<1>1. /\ Tr!Sane /\ Tr!TrTypeOK /\ Tr!Closed(v2) /\ v8 \in Seq(Tr!Entries) /\ v10 \in 1..(Len(v8) + 1) /\ v11 \in {"ok", "bad"}
      /\ Len(v8) \in Nat /\ DOMAIN v8 = 1..Len(v8)
  BY Anywhere
<1>2. /\ v9 = "work" /\ v10 > Len(v8) /\ v9' = "done"
      /\ UNCHANGED <<v1, v3, v4, v5, v6, v7, v8, v10, v11, v12>>
      /\ v2' = IF v3.op = "get" THEN [p \in DOMAIN v2 \cup Tr!LinksOf(v2) |->
                                        IF p \in Tr!LinksOf(v2) THEN <<"l">> ELSE v2[p]]
               ELSE v2
  BY DEF Tr!Finish, Tr!Steps, Tr!Untroubled, Tr!walkvars, Tr!workvars
<1>3. PICK t, L : t = v2' /\ L = IF v3.op = "get" THEN Tr!LinksOf(v2) ELSE {}
  OBVIOUS
<1>4. DOMAIN t = DOMAIN v2 \cup L /\ \A q \in DOMAIN t : t[q] = IF q \in L THEN <<"l">> ELSE v2[q]
  BY <1>2, <1>3
<1>5. Tr!Sane' /\ Tr!TrTypeOK'
  <2>1. \A q \in L : Tr!HasParent(v2, q)
    BY <1>3 DEF Tr!LinksOf
  <2>2. Tr!Closed(t)
    BY <1>1, <1>4, <2>1, AddsClosed
  <2>3. QED
    BY <1>1, <1>2, <1>3, <2>2, LaterTyped
<1>6. ASSUME ~Tr!Odd', "back" \notin v12 PROVE Tr!DoneRight(t, v8, v11, v12)
  <2>1. ~Tr!Odd /\ ~Tr!Bare
    <3>1. ~Tr!Odd
      BY <1>2, <1>6, OddKept
    <3>2. QED
      BY <3>1 DEF Tr!Odd
  <2>2. /\ v7 = SourceDir /\ v3.op \in {"get", "put"}
        /\ IF "cwd" \in v12 THEN Tr!Astray(v2, v8, v10, v11) ELSE Tr!OnCourse(v2, v8, v10, v11, v12)
    BY <1>2, <1>6, <2>1, AtWork
  <2>3. CASE "cwd" \in v12
    <3>1. /\ v3.op = "get" /\ Len(v8) = 1 /\ v8[1].kind = "-" /\ (v10 > 1 => v11 = "bad")
          /\ \A q \in DOMAIN v2 : v2[q] = <<"d">>
      BY <2>2, <2>3 DEF Tr!Astray
    <3>2. L = {}
      <4>1. \A i \in DOMAIN v8 : v8[i].kind # "l"
        BY <1>1, <3>1
      <4>2. QED
        BY <1>3, <4>1, NoLinks
    <3>3. \A q \in DOMAIN t : t[q] = <<"d">>
      BY <1>4, <3>1, <3>2
    <3>4. v11 = "bad"
      BY <1>2, <3>1
    <3>5. QED
      BY <2>3, <3>1, <3>3, <3>4 DEF Tr!DoneRight
  <2>4. CASE "cwd" \notin v12
    <3>1. /\ Tr!Good(v2) /\ (v12 = {} /\ (Tr!IsDir \/ Tr!ItemKind = "-") => v11 = "ok")
          /\ (Tr!IsDir => Tr!Listing(TRUE, v8) /\ \A p \in Tr!Copied : Tr!Unnamed(p) \/ Tr!IsListed(TRUE, v8, p))
          /\ (~Tr!IsDir => v8 = Tr!Plain(v3.item, TargetDir \o Tr!Base))
          /\ (v11 = "ok" /\ "link" \notin v12 => \A i \in 1..(v10 - 1) : Tr!Achieved(v2, v8[i]))
      BY <2>2, <2>4 DEF Tr!OnCourse
    <3>2. ~Tr!IsDir => L = {}
      <4>1. ASSUME ~Tr!IsDir PROVE \A i \in DOMAIN v8 : v8[i].kind # "l"
        <5>1. PICK a \in Seq(Tr!Comp), b \in Seq(Tr!Comp) : a = v3.item /\ b = TargetDir \o Tr!Base
          BY <1>1, PathsTyped
        <5>2. DOMAIN v8 = {1} /\ v8[1] = [kind |-> "-", from |-> a, to |-> b]
          <6>1. v8 = Tr!Plain(a, b)
            BY <3>1, <4>1, <5>1
          <6>2. Tr!Plain(a, b)[1] = [kind |-> "-", from |-> a, to |-> b] /\ DOMAIN Tr!Plain(a, b) = {1}
            BY PlainTyped
          <6>3. QED
            BY <6>1, <6>2
        <5>3. QED
          BY <5>2
      <4>2. QED
        BY <1>3, <4>1, NoLinks
    <3>3. Tr!Good(t)
      <4>1. CASE L = {}
        BY <1>4, <3>1, <4>1 DEF Tr!Good
      <4>2. CASE L = Tr!LinksOf(v2) /\ Tr!IsDir
        BY <1>1, <1>4, <3>1, <4>2, LinksRight
      <4>3. QED
        BY <1>3, <3>2, <4>1, <4>2
    <3>4. ~Tr!Spooling
      BY <2>2 DEF Tr!Spooling
    <3>5. ASSUME v11 = "ok", "link" \notin v12, NEW p \in Tr!Copied PROVE Tr!Place(p) \in DOMAIN t
      <4>1. \A i \in DOMAIN v8 : Tr!Achieved(v2, v8[i])
        <5>1. \A i \in DOMAIN v8 : i \in 1..(v10 - 1)
          BY <1>1, <1>2
        <5>2. QED
          BY <3>1, <3>5, <5>1
      <4>2. CASE ~Tr!IsDir
        <5>1. Tr!ItemKind # "none"
          BY <1>1, CopiedSome
        <5>2. Tr!Place(p) \in DOMAIN v2
          BY <1>1, <3>1, <4>1, <4>2, <5>1, SingleReached
        <5>3. QED
          BY <1>4, <5>2
      <4>3. CASE Tr!IsDir /\ ~(v3.op = "get" /\ Tr!Kind(p) = "l")
        <5>1. Tr!Place(p) \in DOMAIN v2
          BY <1>1, <2>1, <2>2, <3>1, <4>1, <4>3, DirReached
        <5>2. QED
          BY <1>4, <5>1
      <4>4. CASE Tr!IsDir /\ v3.op = "get" /\ Tr!Kind(p) = "l"
        <5>1. Tr!Place(p) \in Tr!LinksOf(v2)
          BY <1>1, <2>1, <3>1, <4>1, <4>4, LinkReached
        <5>2. QED
          BY <1>3, <1>4, <4>4, <5>1
      <4>5. QED
        BY <4>2, <4>3, <4>4
    <3>6. QED
      BY <2>4, <3>1, <3>3, <3>4, <3>5 DEF Tr!DoneRight
  <2>5. QED
    BY <2>3, <2>4
<1>7. v8' = v8 /\ v11' = v11 /\ v12' = v12
  BY <1>2
<1>8. QED
  BY <1>2, <1>3, <1>5, <1>6, <1>7, AtDoneRight

(***************************************************************************)
(* All steps, and what the invariant says of the copy.                     *)
(***************************************************************************)
LEMMA TreeStarts == Tr!TrInit => Tr!TrInv
<1>1. SUFFICES ASSUME Tr!TrInit PROVE Tr!TrInv
  OBVIOUS
<1>2. /\ v1 \in SourceTrees /\ v3 \in [op : TreeOps, item : TreeItems, lists : {"kinds", "names"}]
      /\ (v3.op \notin {"get", "bgget"} => v3.lists = "kinds")
      /\ v2 = [p \in Tr!Tops(TargetDir) |-> <<"d">>]
      /\ v4 = <<>> /\ v5 = 0 /\ v6 = PathSpace /\ v7 = SourceDir
      /\ v8 = <<>> /\ v9 = "start" /\ v10 = 1 /\ v11 = "ok" /\ v12 = {}
  BY <1>1 DEF Tr!TrInit
<1>3. PathSpace \in Nat
  BY TreeWalkAssumption DEF Tr!TrAssumption
<1>4. Tr!Sane
  <2>1. v8 \in Seq(Tr!Entries) /\ v4 \in Seq(Tr!Frames)
    BY <1>2
  <2>2. v5 \in Nat /\ v6 \in Nat /\ v6 >= PathSpace
    BY <1>2, <1>3
  <2>3. QED
    BY <1>2, <2>1, <2>2 DEF Tr!Sane
<1>5. Tr!Closed(v2)
  BY <1>2, DstClosed
<1>6. Tr!TrTypeOK
  <2>1. Len(v4) = 0 /\ Len(v8) = 0
    BY <1>2
  <2>2. 1..(Len(v4) - 1) = {} /\ v10 \in 1..(Len(v8) + 1)
    BY <1>2, <2>1
  <2>3. QED
    BY <1>2, <1>5, <2>2 DEF Tr!TrTypeOK
<1>7. Tr!StartInv
  BY <1>2 DEF Tr!StartInv, Tr!Fresh
<1>8. QED
  BY <1>2, <1>4, <1>6, <1>7 DEF Tr!TrInv, Tr!WalkInv, Tr!AbortedInv, Tr!ListedInv, Tr!WorkInv, Tr!DoneInv

LEMMA TreeStep == ASSUME Tr!TrInv, Tr!TrNext PROVE Tr!TrInv'
  BY GetTreeStep, GetFileStep, PutTreeStep, SpoolTreeStep, SpoolFileStep, WalkEntryStep, WalkSubStep, WalkRefusedStep,
     WalkUpStep, GetListedStep, PutListedStep, SpoolEndsStep, GetOneStep, PutOneStep, LoseHostStep, FinishStep
     DEF Tr!TrNext

LEMMA TreeStutter == ASSUME Tr!TrInv, UNCHANGED Tr!trvars PROVE Tr!TrInv'
<1>1. UNCHANGED <<v1, v2, v3, v4, v5, v6, v7, v8, v9, v10, v11, v12>>
  BY DEF Tr!trvars
<1>2. /\ Tr!Sane /\ Tr!TrTypeOK /\ Tr!Closed(v2) /\ v8 \in Seq(Tr!Entries) /\ v10 \in 1..(Len(v8) + 1) /\ v11 \in {"ok", "bad"}
  BY Anywhere
<1>3. Tr!Sane'
  <2>1. v5' \in Nat /\ v6' \in Nat /\ v6' >= PathSpace /\ v8' \in Seq(Tr!Entries) /\ v4' \in Seq(Tr!Frames)
    BY <1>1, <1>2 DEF Tr!Sane
  <2>2. UNCHANGED <<v1, v3>>
    BY <1>1
  <2>3. QED
    BY <1>2, <2>1, <2>2, SaneKept
<1>4. Tr!TrTypeOK'
  BY <1>1, <1>2 DEF Tr!TrTypeOK, Tr!Closed, Tr!What
<1>5. /\ Tr!Top' = Tr!Top /\ Tr!Base' = Tr!Base /\ Tr!ItemKind' = Tr!ItemKind /\ Tr!IsDir' = Tr!IsDir /\ UNCHANGED <<v1, v3>>
  BY <1>1, Steady
<1>6. Tr!StartInv' /\ (v9 = "listed" => Tr!ListedInv')
  BY <1>1, <1>5 DEF Tr!TrInv, Tr!StartInv, Tr!ListedInv, Tr!Fresh, Tr!Tops, Tr!Plain
<1>7. PICK t, l, s, d : t = v2 /\ l = v8 /\ s = v4 /\ d = v5
  OBVIOUS
<1>8. PICK k, o, f : k = v10 /\ o = v11 /\ f = v12
  OBVIOUS
<1>9. ~Tr!Odd' => ~Tr!Odd
  BY <1>1, OddKept
<1>10. CASE v9 = "walk"
  <2>1. ASSUME ~Tr!Odd'
        PROVE  /\ Tr!IsDir' /\ v3'.op # "bgfile" /\ v7' = (IF v3'.op = "get" THEN Tr!Top' ELSE SourceDir)
               /\ v12' = {} /\ v11' = "ok" /\ v10' = 1 /\ Tr!WalkRight(v2, v8, v4, v5)'
    <3>1. /\ Tr!IsDir /\ v3.op # "bgfile" /\ v7 = (IF v3.op = "get" THEN Tr!Top ELSE SourceDir)
          /\ v12 = {} /\ v11 = "ok" /\ v10 = 1 /\ Tr!WalkRight(v2, v8, v4, v5)
      BY <1>9, <1>10, <2>1, AtWalkRight
    <3>2. Tr!WalkRight(t, l, s, d)
      BY <1>7, <3>1
    <3>3. Tr!WalkRight(v2, v8, v4, v5)'
      BY <1>1, <1>5, <1>7, <3>2, WalkSteady
    <3>4. QED
      BY <1>1, <1>5, <3>1, <3>3
  <2>2. v9' = "walk"
    BY <1>1, <1>10
  <2>3. Tr!WalkInv'
    BY <2>1 DEF Tr!WalkInv
  <2>4. QED
    BY <1>3, <1>4, <1>6, <2>2, <2>3 DEF Tr!TrInv, Tr!AbortedInv, Tr!ListedInv, Tr!WorkInv, Tr!DoneInv
<1>11. CASE v9 = "aborted"
  <2>1. ASSUME ~Tr!Odd' PROVE v3'.op = "bgput" /\ v12' # {} /\ Tr!Good(v2)' /\ Tr!Listing(FALSE, v8)'
    <3>1. v3.op = "bgput" /\ v12 # {} /\ Tr!Good(v2) /\ Tr!Listing(FALSE, v8)
      BY <1>9, <1>11, <2>1 DEF Tr!TrInv, Tr!AbortedInv
    <3>2. Tr!Good(t) /\ Tr!Listing(FALSE, l)
      BY <1>7, <3>1
    <3>3. Tr!Good(v2)'
      BY <1>1, <1>5, <1>7, <3>2, GoodSteady
    <3>4. Tr!Listing(FALSE, v8)'
      BY <1>1, <1>5, <1>7, <3>2, ListingSteady
    <3>5. QED
      BY <1>1, <3>1, <3>3, <3>4
  <2>2. v9' = "aborted"
    BY <1>1, <1>11
  <2>3. Tr!AbortedInv'
    BY <2>1 DEF Tr!AbortedInv
  <2>4. QED
    BY <1>3, <1>4, <1>6, <2>2, <2>3 DEF Tr!TrInv, Tr!WalkInv, Tr!ListedInv, Tr!WorkInv, Tr!DoneInv
<1>12. CASE v9 = "listed"
  BY <1>1, <1>3, <1>4, <1>6, <1>12 DEF Tr!TrInv, Tr!WalkInv, Tr!AbortedInv, Tr!WorkInv, Tr!DoneInv
<1>13. CASE v9 = "work"
  <2>1. /\ t = v2' /\ l = v8' /\ k = v10' /\ o = v11' /\ f = v12' /\ v9' = "work"
    BY <1>1, <1>7, <1>8, <1>13
  <2>2. ASSUME ~Tr!Odd', "back" \notin f
        PROVE  /\ v7' = SourceDir /\ v3.op \in {"get", "put"}
               /\ IF "cwd" \in f THEN Tr!Astray(t, l, k, o) ELSE Tr!OnCourse(t, l, k, o, f)
    <3>1. /\ v7 = SourceDir /\ v3.op \in {"get", "put"}
          /\ IF "cwd" \in v12 THEN Tr!Astray(v2, v8, v10, v11) ELSE Tr!OnCourse(v2, v8, v10, v11, v12)
      BY <1>8, <1>9, <1>13, <2>2, AtWork
    <3>2. QED
      BY <1>1, <1>7, <1>8, <3>1
  <2>3. QED
    BY <1>3, <1>4, <1>5, <2>1, <2>2, StillWorking
<1>14. CASE v9 = "done"
  <2>1. /\ t = v2' /\ l = v8' /\ o = v11' /\ f = v12' /\ v9' = "done"
    BY <1>1, <1>7, <1>8, <1>14
  <2>2. ASSUME ~Tr!Odd', "back" \notin f PROVE Tr!DoneRight(t, l, o, f)
    <3>1. Tr!DoneRight(v2, v8, v11, v12)
      BY <1>8, <1>9, <1>14, <2>2 DEF Tr!TrInv, Tr!DoneInv
    <3>2. QED
      BY <1>7, <1>8, <3>1
  <2>3. QED
    BY <1>3, <1>4, <1>5, <2>1, <2>2, AtDoneRight
<1>15. CASE v9 \notin {"walk", "aborted", "listed", "work", "done"}
  BY <1>1, <1>3, <1>4, <1>6, <1>15 DEF Tr!TrInv, Tr!WalkInv, Tr!AbortedInv, Tr!ListedInv, Tr!WorkInv, Tr!DoneInv
<1>16. QED
  BY <1>10, <1>11, <1>12, <1>13, <1>14, <1>15

(* All that has been made, or will be by the jobs, is right.               *)
LEMMA JobIs ==
    ASSUME Tr!Sane, Tr!Spooling, Tr!Listing(FALSE, v8), NEW j \in Tr!Spooled
    PROVE  \E p \in Tr!Copied : /\ j.to = Tr!Place(p) /\ j.from = p /\ Tr!Image(p) = <<"-">> \o p
<1>1. PICK i \in DOMAIN v8 : j = v8[i]
  BY DEF Tr!Spooled
<1>2. PICK p \in Tr!Copied : v8[i] = Tr!ItemOf(FALSE, p) /\ v1[p] = "-"
  BY DEF Tr!Listing
<1>3. j = Tr!JobOf(p)
  BY <1>1, <1>2 DEF Tr!ItemOf, Tr!WalkItem
<1>4. j.to = Tr!Place(p) /\ j.from = p
  BY <1>3 DEF Tr!JobOf
<1>5. QED
  BY <1>2, <1>4, ImageIs

LEMMA MadeIs ==
    ASSUME Tr!Sane, Tr!Good(v2), Tr!Spooling => Tr!Listing(FALSE, v8)
    PROVE  /\ \A q \in DOMAIN Tr!Made : Tr!Right(q, Tr!Made[q])
           /\ DOMAIN Tr!Made = DOMAIN v2 \cup {j.to : j \in Tr!Spooled}
<1>1. /\ DOMAIN Tr!Made = DOMAIN v2 \cup {j.to : j \in Tr!Spooled}
      /\ \A q \in DOMAIN Tr!Made : Tr!Made[q] = IF q \in DOMAIN v2 THEN v2[q] ELSE <<"-">> \o (CHOOSE j \in Tr!Spooled : j.to = q).from
  BY DEF Tr!Made
<1>2. ASSUME NEW q \in DOMAIN Tr!Made PROVE Tr!Right(q, Tr!Made[q])
  <2>1. CASE q \in DOMAIN v2
    BY <1>1, <2>1 DEF Tr!Good
  <2>2. CASE q \notin DOMAIN v2
    <3>1. PICK c : c = CHOOSE j \in Tr!Spooled : j.to = q
      OBVIOUS
    <3>2. c \in Tr!Spooled /\ c.to = q
      <4>1. \E j \in Tr!Spooled : j.to = q
        BY <1>1, <2>2
      <4>2. QED
        BY <3>1, <4>1
    <3>3. Tr!Spooling
      BY <3>2 DEF Tr!Spooled
    <3>4. PICK p \in Tr!Copied : c.to = Tr!Place(p) /\ c.from = p /\ Tr!Image(p) = <<"-">> \o p
      BY <3>2, <3>3, JobIs
    <3>5. Tr!Made[q] = Tr!Image(p)
      BY <1>1, <2>2, <3>1, <3>4
    <3>6. QED
      BY <3>2, <3>4, <3>5, PlaceRight
  <2>3. QED
    BY <2>1, <2>2
<1>3. QED
  BY <1>1, <1>2

LEMMA RightFile ==
    ASSUME Tr!Sane, NEW q, NEW k, Tr!Right(q, k), Head(k) = "-"
    PROVE  q = Tr!Place(Tail(k))
<1>1. k # <<"d">>
  <2>1. Head(<<"d">>) = "d"
    OBVIOUS
  <2>2. QED
    BY <2>1
<1>2. PICK p \in Tr!Copied : q = Tr!Place(p) /\ k = Tr!Image(p)
  BY <1>1 DEF Tr!Right
<1>3. Tr!Kind(p) = "-" /\ Tr!Image(p) = <<"-">> \o p /\ p \in Seq(Tr!Names)
  BY <1>2, CopyNameIs, BelowIs
<1>4. Tail(k) = p
  BY <1>2, <1>3, FileImage
<1>5. QED
  BY <1>2, <1>4

LEMMA AllPlaced ==
    ASSUME Tr!Sane, Tr!Good(v2), Tr!Spooling => Tr!Listing(FALSE, v8),
           \A p \in Tr!Copied : IF Tr!Spooling THEN Tr!Reached(v2, v8, p) ELSE Tr!Place(p) \in DOMAIN v2
    PROVE  Tr!Whole
<1>1. /\ \A q \in DOMAIN Tr!Made : Tr!Right(q, Tr!Made[q])
      /\ DOMAIN Tr!Made = DOMAIN v2 \cup {j.to : j \in Tr!Spooled}
  BY MadeIs
<1>2. ASSUME NEW p \in Tr!Copied PROVE Tr!Place(p) \in DOMAIN Tr!Made /\ Tr!Made[Tr!Place(p)] = Tr!Image(p)
  <2>1. Tr!Place(p) \in DOMAIN Tr!Made
    <3>1. CASE Tr!Place(p) \in DOMAIN v2
      BY <1>1, <3>1
    <3>2. CASE Tr!Spooling /\ Tr!IsListed(FALSE, v8, p)
      <4>1. PICK i \in DOMAIN v8 : v8[i] = Tr!ItemOf(FALSE, p)
        BY <3>2 DEF Tr!IsListed
      <4>2. v8[i] \in Tr!Spooled
        BY <3>2 DEF Tr!Spooled
      <4>3. v8[i].to = Tr!Place(p)
        BY <3>2, <4>1 DEF Tr!ItemOf, Tr!WalkItem, Tr!JobOf
      <4>4. QED
        BY <1>1, <4>2, <4>3
    <3>3. QED
      BY <3>1, <3>2 DEF Tr!Reached, Tr!Unnamed
  <2>2. Tr!Right(Tr!Place(p), Tr!Made[Tr!Place(p)]) /\ Tr!Right(Tr!Place(p), Tr!Image(p))
    BY <1>1, <2>1, PlaceRight
  <2>3. QED
    BY <2>1, <2>2, RightOnce
<1>3. DOMAIN Tr!Made = {Tr!Place(p) : p \in Tr!Copied} \cup Tr!Tops(TargetDir)
  <2>1. Tr!Tops(TargetDir) \subseteq DOMAIN Tr!Made
    BY <1>1 DEF Tr!Good
  <2>2. ASSUME NEW q \in DOMAIN Tr!Made PROVE q \in {Tr!Place(p) : p \in Tr!Copied} \cup Tr!Tops(TargetDir)
    BY <1>1 DEF Tr!Right
  <2>3. QED
    BY <1>2, <2>1, <2>2
<1>4. QED
  BY <1>2, <1>3 DEF Tr!Whole

LEMMA TreeCopied == ASSUME Tr!TrInv PROVE Tr!CopiesTree
<1>1. SUFFICES ASSUME v9 = "done", ~Tr!Odd, v12 \cap {"back", "link"} = {}
               PROVE  /\ v12 = {} /\ (Tr!IsDir \/ Tr!ItemKind = "-") => v11 = "ok"
                      /\ v11 = "ok" => Tr!Whole
  BY DEF Tr!CopiesTree
<1>2. Tr!Sane /\ Tr!DoneRight(v2, v8, v11, v12) /\ "link" \notin v12
  BY <1>1 DEF Tr!TrInv, Tr!DoneInv
<1>3. CASE v3.op = "get" /\ "cwd" \in v12
  BY <1>2, <1>3 DEF Tr!DoneRight
<1>4. CASE ~(v3.op = "get" /\ "cwd" \in v12)
  <2>1. /\ Tr!Good(v2) /\ (Tr!Spooling => Tr!Listing(FALSE, v8))
        /\ (v12 = {} /\ (Tr!IsDir \/ Tr!ItemKind = "-") => v11 = "ok")
        /\ (v11 = "ok" /\ "link" \notin v12 => \A p \in Tr!Copied : IF Tr!Spooling THEN Tr!Reached(v2, v8, p) ELSE Tr!Place(p) \in DOMAIN v2)
    BY <1>2, <1>4 DEF Tr!DoneRight
  <2>2. v11 = "ok" => Tr!Whole
    BY <1>2, <2>1, AllPlaced
  <2>3. QED
    BY <2>1, <2>2
<1>5. QED
  BY <1>3, <1>4

LEMMA NoneAstray == ASSUME Tr!TrInv PROVE Tr!NoneElse
<1>1. SUFFICES ASSUME ~Tr!Odd, "back" \notin v12, v9 \notin {"start", "wild"}, NEW q \in DOMAIN Tr!Made, Head(Tr!Made[q]) = "-"
               PROVE  q = Tr!Place(Tail(Tr!Made[q]))
  BY DEF Tr!NoneElse
<1>2. Tr!Sane /\ v9 \in {"start", "walk", "aborted", "listed", "work", "done", "wild"}
  BY DEF Tr!TrInv, Tr!TrTypeOK
<1>3. \/ Tr!Good(v2) /\ (Tr!Spooling => Tr!Listing(FALSE, v8))
      \/ v3.op = "get" /\ \A p \in DOMAIN v2 : v2[p] = <<"d">>
  <2>1. CASE v9 = "walk"
    BY <1>1, <2>1 DEF Tr!TrInv, Tr!WalkInv, Tr!WalkRight
  <2>2. CASE v9 = "aborted"
    BY <1>1, <2>2 DEF Tr!TrInv, Tr!AbortedInv
  <2>3. CASE v9 = "listed"
    <3>1. v3.op = "put" /\ Tr!Fresh
      BY <2>3 DEF Tr!TrInv, Tr!ListedInv
    <3>2. QED
      BY <3>1, FreshRight DEF Tr!Spooling
  <2>4. CASE v9 = "work"
    <3>1. /\ v3.op \in {"get", "put"}
          /\ IF "cwd" \in v12 THEN Tr!Astray(v2, v8, v10, v11) ELSE Tr!OnCourse(v2, v8, v10, v11, v12)
      BY <1>1, <2>4, AtWork
    <3>2. QED
      BY <3>1 DEF Tr!Astray, Tr!OnCourse, Tr!Spooling
  <2>5. CASE v9 = "done"
    <3>1. Tr!DoneRight(v2, v8, v11, v12)
      BY <1>1, <2>5 DEF Tr!TrInv, Tr!DoneInv
    <3>2. QED
      BY <3>1 DEF Tr!DoneRight
  <2>6. QED
    BY <1>1, <1>2, <2>1, <2>2, <2>3, <2>4, <2>5
<1>4. CASE Tr!Good(v2) /\ (Tr!Spooling => Tr!Listing(FALSE, v8))
  <2>1. Tr!Right(q, Tr!Made[q])
    BY <1>2, <1>4, MadeIs
  <2>2. QED
    BY <1>1, <1>2, <2>1, RightFile
<1>5. CASE v3.op = "get" /\ \A p \in DOMAIN v2 : v2[p] = <<"d">>
  <2>1. Tr!Spooled = {}
    BY <1>5 DEF Tr!Spooled, Tr!Spooling
  <2>2. q \in DOMAIN v2 /\ Tr!Made[q] = v2[q]
    <3>1. /\ DOMAIN Tr!Made = DOMAIN v2 \cup {j.to : j \in Tr!Spooled}
          /\ q \in DOMAIN v2 => Tr!Made[q] = v2[q]
      BY DEF Tr!Made
    <3>2. QED
      BY <2>1, <3>1
  <2>3. Head(<<"d">>) = "d"
    OBVIOUS
  <2>4. QED
    BY <1>1, <1>5, <2>2, <2>3
<1>6. QED
  BY <1>3, <1>4, <1>5

LEMMA TreeSafe == ASSUME Tr!TrInv PROVE Tr!TrTypeOK /\ Tr!CopiesTree /\ Tr!NoneElse
  BY TreeCopied, NoneAstray DEF Tr!TrInv

-----------------------------------------------------------------------------
(***************************************************************************)
(* Where a part stands still its invariant stays.                          *)
(***************************************************************************)
LEMMA UtStutter == ASSUME Ut!UtInv, UNCHANGED all PROVE Ut!UtInv'
  BY DEF all, Ut!UtInv, Ut!UtTypes, Ut!ReadSoFar, Ut!SaidBy, Ut!FilesLeft, Ut!Moved, Ut!ExitTells,
         Ut!Fails, Ut!Cat

LEMMA LsStutter == ASSUME Ls!LsInv, UNCHANGED all PROVE Ls!LsInv'
  BY DEF all, Ls!LsInv, Ls!LsTypes, Ls!OnURL, Ls!Named, Ls!Lives, Ls!U, Ls!OneOpen, Ls!OpenConns,
         Ls!AllDone, Ls!WholeTree

LEMMA BiStutter == ASSUME Bi!BiInv, UNCHANGED all PROVE Bi!BiInv'
  BY DEF all, Bi!BiInv, Bi!BiTypes, Bi!Counted, Bi!OwnPlace, Bi!RightPlace, Bi!FailedLast, Bi!J

LEMMA SlStutter == ASSUME Sl!SlInv, UNCHANGED all PROVE Sl!SlInv'
  BY DEF all, Sl!SlInv, Sl!SleepsSoundly

LEMMA TreeLeft == ASSUME Tr!TrInv, UNCHANGED all PROVE Tr!TrInv'
<1>1. UNCHANGED Tr!trvars
  BY DEF all, Tr!trvars
<1>2. QED
  BY <1>1, TreeStutter
=============================================================================
