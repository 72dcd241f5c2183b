---------------------------- MODULE OpenHostProofs ----------------------------
(***************************************************************************)
(* Proofs of the safety properties of OpenHost, for every limit of the     *)
(* number of dials.                                                        *)
(***************************************************************************)
EXTENDS OpenHost, TLAPS

(* The firewalls that log in somebody of their own before the site does.   *)
ByUserAgain == {"LoginThenUserAtSite", "FwuAtSiteFwpUserPass"}
ByCommand   == {"SiteSite", "OpenSite"}
TwoStage    == ByUserAgain \cup ByCommand

(* What the scripts of the peers have in common.  Past item 2, or past the *)
(* item that leads from the firewall to the site, passwords and an account *)
(* are all that is wanted.                                                 *)
Rest(n) == \A i \in n .. Len(Script) : Script[i].verb \in {"PASS", "ACCT"}

LEMMA ScriptShape ==
  ASSUME firewall \in Firewalls, needsAcct \in BOOLEAN
  PROVE  /\ Len(Script) \in Nat \ {0, 1}
         /\ firewall \notin TwoStage => Rest(2)
         /\ firewall \in TwoStage =>
              /\ Len(Script) >= 4
              /\ Script[2].verb = "PASS"
              /\ Script[3].verb \notin {"PASS", "ACCT"}
         /\ firewall \in ByUserAgain => Rest(4)
         /\ firewall \in ByCommand =>
              /\ Script[3].verb \in {"SITE", "OPEN"} /\ Script[4].verb = "USER"
              /\ Len(Script) >= 5 /\ Rest(5)
<1> USE DEF Script, Wanted, Command, Rest, TwoStage, ByUserAgain, ByCommand, PlainAtSite
<1>1. CASE firewall = "none" BY <1>1
<1>2. CASE firewall \in PlainAtSite
  <2>1. Wanted(firewall) = <<Command("USER", "user@host"), Command("PASS", "pass")>>
    BY <1>2
  <2>2. firewall # "UserAtSiteFwuPassFwp" /\ firewall \notin TwoStage
         /\ firewall \notin ByUserAgain /\ firewall \notin ByCommand
    BY <1>2
  <2> HIDE DEF Wanted, PlainAtSite, TwoStage, ByUserAgain, ByCommand
  <2> QED
    BY <2>1, <2>2
<1>3. CASE firewall = "LoginThenUserAtSite" BY <1>3
<1>4. CASE firewall = "SiteSite" BY <1>4
<1>5. CASE firewall = "OpenSite" BY <1>5
<1>6. CASE firewall = "UserAtUserPassAtPass" BY <1>6
<1>7. CASE firewall = "FwuAtSiteFwpUserPass" BY <1>7
<1>8. CASE firewall = "UserAtSiteFwuPassFwp"
  <2>1. Script = <<Command("USER", "user@host fwuser"), Command("PASS", "pass"), Command("ACCT", "fwpass")>>
    BY <1>8
  <2>2. firewall \notin TwoStage /\ firewall \notin ByUserAgain /\ firewall \notin ByCommand
    BY <1>8
  <2>3. Len(Script) = 3
    <3> HIDE DEF Script
    <3> QED BY <2>1
  <2>4. Script[2].verb = "PASS" /\ Script[3].verb = "ACCT"
    <3> HIDE DEF Script
    <3> QED BY <2>1
  <2> HIDE DEF Script, TwoStage, ByUserAgain, ByCommand
  <2> QED
    BY <2>2, <2>3, <2>4
<1> QED
  BY <1>1, <1>2, <1>3, <1>4, <1>5, <1>6, <1>7, <1>8 DEF Firewalls
-----------------------------------------------------------------------------
(* The inductive invariant.  A peer that says "in" has either let the      *)
(* client in to the site, or it is a firewall that waits for item 3, and   *)
(* then the automaton does not know yet that it is past the firewall.      *)
Place ==
  pc = "login" =>
    /\ code = "in" => Satisfied \/ (left = 3 /\ firewall \in TwoStage /\ ~fwloggedin)
    /\ fwloggedin => firewall \in TwoStage /\ left >= 3

PassNoted == (pc = "login" /\ asked = Command("PASS", "pass")) => sentpass

IInv == TypeOK /\ Place /\ LetInBySite /\ PassNoted

(* The first part of TypeOK, of what the user has set, never changes.      *)
LEMMA Settings ==
  ASSUME IInv
  PROVE  firewall \in Firewalls /\ needsAcct \in BOOLEAN /\ left \in 1 .. Len(Script) + 1
BY DEF IInv, TypeOK

(* The script depends on nothing but the settings.                         *)
LEMMA ScriptSame ==
  ASSUME firewall' = firewall, needsAcct' = needsAcct
  PROVE  Script' = Script
BY DEF Script, Wanted

(* The invariant holds at first.                                           *)
LEMMA InitInv == Init => IInv
<1> SUFFICES ASSUME Init PROVE IInv
  OBVIOUS
<1>1. Len(Script) \in Nat \ {0, 1}
  BY ScriptShape DEF Init
<1>2. left \in 1 .. Len(Script) + 1
  BY <1>1 DEF Init
<1> QED
  BY <1>2, DialAssumption
     DEF Init, IInv, TypeOK, Place, LetInBySite, PassNoted, Whats, NoCommand, Command

(* A dial keeps it: nobody is asked anything, and the dials are counted.   *)
LEMMA DialStep ==
  ASSUME IInv, NextDial, UNCHANGED <<settings, pass, asked, code, automaton, peer>>
  PROVE  IInv'
<1>1. Script' = Script
  BY ScriptSame DEF settings
<1>2. dials' \in Nat /\ (MaxDials >= 0 => dials' <= MaxDials)
  BY DialAssumption DEF NextDial, IInv, TypeOK
<1> QED
  BY <1>1, <1>2
     DEF NextDial, settings, automaton, peer, IInv, TypeOK, Place, LetInBySite, PassNoted

(* A command that is sent keeps it: the peer has not answered yet.         *)
LEMMA SendStep ==
  ASSUME IInv, NEW c \in [verb : {"USER", "PASS", "ACCT", "SITE", "OPEN"}, what : Whats], Send(c),
         pass' \in {"empty", "pass", "wiped"}, UNCHANGED <<settings, dials, left>>,
         willing' \in BOOLEAN, sentpass' \in BOOLEAN, fwsentpass' \in BOOLEAN, fwloggedin' \in BOOLEAN,
         fwloggedin' => firewall \in TwoStage /\ left >= 3,
         c = Command("PASS", "pass") => sentpass'
  PROVE  IInv'
<1>1. Script' = Script
  BY ScriptSame DEF settings
<1>2. TypeOK'
  BY <1>1 DEF IInv, TypeOK, Send, settings
<1>3. Place' /\ LetInBySite' /\ PassNoted'
  BY DEF Place, LetInBySite, PassNoted, Send, settings, Command
<1> QED
  BY <1>2, <1>3 DEF IInv

(* The end of a login keeps it.                                            *)
LEMMA OkayStep ==
  ASSUME IInv, Okay, Satisfied, UNCHANGED <<settings, pass, dials, sentpass, fwsentpass, peer>>,
         fwloggedin' \in BOOLEAN
  PROVE  IInv'
<1>1. Script' = Script
  BY ScriptSame DEF settings
<1>2. TypeOK'
  BY <1>1 DEF IInv, TypeOK, Okay, settings, peer, NoCommand, Command, Whats
<1>3. Place' /\ LetInBySite' /\ PassNoted'
  BY <1>1 DEF Place, LetInBySite, PassNoted, Okay, Satisfied, settings, peer
<1> QED
  BY <1>2, <1>3 DEF IInv

(* A failed login keeps it.                                                *)
LEMMA FailsStep ==
  ASSUME IInv, NEW k \in BOOLEAN, NEW f \in BOOLEAN, Fails(k, f)
  PROVE  IInv'
<1>1. Script' = Script
  BY ScriptSame DEF Fails, settings
<1> QED
  BY <1>1 DEF Fails, IInv, TypeOK, Place, LetInBySite, PassNoted, settings, automaton, peer,
              NoCommand, Command, Whats

(* What the peer waits for keeps it.  This is where the script decides: an *)
(* "in" comes when the script is at its end, or when item 3 of two stages  *)
(* is next.                                                                *)
LEMMA AcceptStep ==
  ASSUME IInv, PeerAccepts
  PROVE  IInv'
<1> DEFINE len == Len(Script)
<1>1. /\ len \in Nat \ {0, 1} /\ left \in 1 .. len + 1
      /\ firewall \in Firewalls /\ needsAcct \in BOOLEAN
  BY Settings, ScriptShape
<1>2. Script' = Script
  BY ScriptSame DEF PeerAccepts, settings
<1>3. PICK n \in {left + 1, left + 2} :
        /\ n = left + 2 => n - 1 <= len /\ Script[n - 1].verb = "PASS"
        /\ left' = n /\ code' = Asks(n, asked.verb)
  BY DEF PeerAccepts
<1>4. left <= len /\ asked = Script[left] /\ n \in 2 .. len + 1
  BY <1>1, <1>3 DEF PeerAccepts, Satisfied
<1>5. /\ code' \in {"in", "password", "account", "hello"}
      /\ code' = "in" => \/ n > len
                         \/ /\ Script[n].verb \notin {"PASS", "ACCT"}
                            /\ Script[left].verb \notin {"SITE", "OPEN"}
  BY <1>1, <1>3, <1>4 DEF Asks
<1>6. n <= len /\ code' = "in" => n = 3 /\ firewall \in TwoStage
  <2> SUFFICES ASSUME n <= len, code' = "in" PROVE n = 3 /\ firewall \in TwoStage
    OBVIOUS
  <2>1. Script[n].verb \notin {"PASS", "ACCT"} /\ Script[left].verb \notin {"SITE", "OPEN"}
    BY <1>4, <1>5
  <2>2. firewall \in TwoStage /\ n # 2
    BY <1>1, <1>4, <2>1, ScriptShape DEF Rest
  <2>3. ASSUME firewall \in ByUserAgain PROVE n \in {2, 3}
    BY <1>1, <1>4, <2>1, <2>3, ScriptShape DEF Rest
  <2>4. ASSUME firewall \in ByCommand PROVE n \in {2, 3}
    <3>1. n <= 4
      BY <1>1, <1>4, <2>1, <2>4, ScriptShape DEF Rest
    <3>2. n = 4 => left \in {2, 3}
      BY <1>1, <1>3
    <3>3. Script[3].verb \in {"SITE", "OPEN"}
      BY <1>1, <2>4, ScriptShape
    <3>4. ~(n = 4 /\ left = 3)
      BY <3>3, <2>1
    <3>5. ~(n = 4 /\ left = 2)
      BY <3>3, <1>3
    <3> QED
      BY <3>1, <3>2, <3>4, <3>5, <1>4
  <2> QED
    BY <2>2, <2>3, <2>4 DEF TwoStage
<1>7. TypeOK'
  BY <1>2, <1>3, <1>4, <1>5 DEF PeerAccepts, IInv, TypeOK, settings, automaton
<1>8. Place'
  <2>1. UNCHANGED <<pc, firewall, fwloggedin>>
    BY DEF PeerAccepts, settings, automaton
  <2>2. ASSUME fwloggedin PROVE firewall \in TwoStage /\ n > 3
    BY <2>2, <1>1, <1>3 DEF IInv, Place, PeerAccepts
  <2> QED
    BY <1>1, <1>2, <1>3, <1>4, <1>6, <2>1, <2>2 DEF Place, Satisfied
<1>9. LetInBySite' /\ PassNoted'
  BY DEF PeerAccepts, LetInBySite, PassNoted, automaton, IInv
<1> QED
  BY <1>7, <1>8, <1>9 DEF IInv

(* Every other reply of the peer keeps it.                                 *)
LEMMA RefuseStep ==
  ASSUME IInv, PeerDenies \/ PeerRefuses
  PROVE  IInv'
<1>1. Script' = Script
  BY ScriptSame DEF PeerDenies, PeerRefuses, settings
<1>2. TypeOK'
  BY <1>1 DEF PeerDenies, PeerRefuses, IInv, TypeOK, settings, automaton, peer
<1>3. code' # "in" /\ UNCHANGED <<pc, firewall, fwloggedin, left, asked, sentpass>>
  BY DEF PeerDenies, PeerRefuses, settings, automaton, peer
<1>4. Place' /\ LetInBySite' /\ PassNoted'
  BY <1>1, <1>3 DEF IInv, Place, LetInBySite, PassNoted, Satisfied
<1> QED
  BY <1>2, <1>4 DEF IInv

(* The connection made or not, and the end of the login.                   *)
LEMMA ConnectStep ==
  ASSUME IInv, NotConnected \/ Connected \/ NotGreeted \/ LoginDone
  PROVE  IInv'
<1> USE DEF NotConnected, Connected, NotGreeted, LoginDone
<1>1. Script' = Script
  BY ScriptSame DEF settings
<1>2. TypeOK'
  <2>1. left' \in 1 .. Len(Script') + 1
    <3>1. left \in 1 .. Len(Script) + 1 /\ 1 \in 1 .. Len(Script) + 1
      BY Settings, ScriptShape
    <3> QED
      BY <1>1, <3>1 DEF peer
  <2>2. pc' \in {"greeting", "retry", "failed", "open"} /\ pass' \in {pass, "wiped"}
    OBVIOUS
  <2>3. UNCHANGED <<dials, asked, code, settings, automaton>>
    OBVIOUS
  <2>4. willing' \in BOOLEAN
    BY DEF IInv, TypeOK, peer
  <2> HIDE DEF NotConnected, Connected, NotGreeted, LoginDone
  <2> QED
    BY <2>1, <2>2, <2>3, <2>4 DEF IInv, TypeOK, settings, automaton
<1>3. pc' # "login" /\ (pc' = "open" => pc = "loggedIn" /\ left' = left) /\ pc' # "loggedIn"
  BY DEF peer
<1>4. Place' /\ LetInBySite' /\ PassNoted'
  BY <1>1, <1>3 DEF IInv, Place, LetInBySite, PassNoted, Satisfied
<1> QED
  BY <1>2, <1>4 DEF IInv

(* The commands that the automaton sends.                                  *)
LEMMA AutomatonStep ==
  ASSUME IInv, Greeted \/ UserAgain \/ LoggedIn \/ PasswordWanted \/ AccountWanted
  PROVE  IInv'
<1> USE DEF Whats, Command, Replied, settings, automaton, peer
<1>1. FirstUser \in Whats /\ FirstPass \in Whats
  BY DEF FirstUser, FirstPass, IInv, TypeOK
<1>2. pass \in {"empty", "pass", "wiped"} /\ {sentpass, fwsentpass, fwloggedin, willing} \subseteq BOOLEAN
  BY DEF IInv, TypeOK
<1>3. CASE Greeted
  BY <1>1, <1>2, <1>3, SendStep DEF Greeted
<1>4. pc = "login" => (fwloggedin => firewall \in TwoStage /\ left >= 3)
  BY DEF IInv, Place
<1>5. CASE UserAgain
  BY <1>1, <1>2, <1>4, <1>5, SendStep DEF UserAgain
<1>6. CASE LoggedIn
  <2>1. Satisfied \/ (left = 3 /\ firewall \in TwoStage /\ ~fwloggedin)
    BY <1>6 DEF LoggedIn, IInv, Place
  <2>2. CASE PastFirewall
    <3>1. Satisfied
      BY <2>1, <2>2 DEF PastFirewall, TwoStage, ByUserAgain, ByCommand
    <3> QED
      BY <3>1, <2>2, <1>2, <1>6, OkayStep DEF LoggedIn
  <2>3. CASE ~PastFirewall /\ firewall \notin TwoStage
    BY <2>1, <2>3, <1>2, <1>6, OkayStep DEF LoggedIn, TwoStage, ByUserAgain, ByCommand
  <2>4. CASE ~PastFirewall /\ firewall \in TwoStage
    <3>1. left >= 3
      BY <2>1, <2>4, Settings, ScriptShape DEF Satisfied
    <3>2. PICK c \in {Command("USER", "user@host"), Command("OPEN", "host"),
                      Command("SITE", "host"), Command("USER", "user")} : Send(c)
      BY <1>6, <2>4 DEF LoggedIn, TwoStage, ByUserAgain, ByCommand
    <3> QED
      BY <3>1, <3>2, <2>4, <1>2, <1>6, SendStep DEF LoggedIn
  <2> QED
    BY <2>2, <2>3, <2>4
<1>7. CASE PasswordWanted
  <2>1. FirstPass = "pass" => firewall \in PasswordAtFirst
    BY DEF FirstPass
  <2> QED
    BY <2>1, <1>1, <1>2, <1>4, <1>7, SendStep, ZenonT(40) DEF PasswordWanted
<1>8. CASE AccountWanted
  BY <1>2, <1>4, <1>8, SendStep DEF AccountWanted
<1> QED
  BY <1>3, <1>5, <1>6, <1>7, <1>8

(* Every step of the opening keeps the invariant.                          *)
LEMMA InvStep == IInv /\ [Next]_vars => IInv'
<1> SUFFICES ASSUME IInv, [Next]_vars PROVE IInv'
  OBVIOUS
<1>1. CASE UNCHANGED vars
  <2>1. Script' = Script
    BY <1>1, ScriptSame DEF vars, settings
  <2> QED
    BY <1>1, <2>1 DEF vars, settings, automaton, peer, IInv, TypeOK, Place, LetInBySite,
                      PassNoted, Satisfied
<1>2. CASE FTPOpenHost \/ Redial
  BY <1>2, DialStep DEF FTPOpenHost, Redial
<1>3. CASE NotConnected \/ Connected \/ NotGreeted \/ LoginDone
  BY <1>3, ConnectStep
<1>4. CASE Greeted \/ UserAgain \/ LoggedIn \/ PasswordWanted \/ AccountWanted
  BY <1>4, AutomatonStep
<1>5. CASE Denied
  <2>1. (sentpass /\ user # "anonymous") \in BOOLEAN
    OBVIOUS
  <2> QED
    BY <2>1, <1>5, FailsStep DEF Denied
<1>6. CASE Refused \/ Disconnected
  BY <1>6, FailsStep DEF Refused, Disconnected
<1>7. CASE PeerAccepts
  BY <1>7, AcceptStep
<1>8. CASE PeerDenies \/ PeerRefuses
  BY <1>8, RefuseStep
<1> QED
  BY <1>1, <1>2, <1>3, <1>4, <1>5, <1>6, <1>7, <1>8 DEF Next, Opening, FTPLoginHost

(* The invariant holds throughout.                                         *)
THEOREM Invariant == Spec => []IInv
<1>1. Init => IInv
  BY InitInv
<1>2. IInv /\ [Next]_vars => IInv'
  BY InvStep
<1> QED
  BY <1>1, <1>2, PTL DEF Spec

(* The types, and that FTPOpenHost dials maxDials times at most.           *)
THEOREM TypeCorrect == Spec => []TypeOK
<1>1. IInv => TypeOK
  BY DEF IInv
<1> QED
  BY <1>1, Invariant, PTL

(* FTPOpenHost takes itself to be logged in only when the site has let it  *)
(* in, with every type of firewall.                                        *)
THEOREM AlwaysLetInBySite == Spec => []LetInBySite
<1>1. IInv => LetInBySite
  BY DEF IInv
<1> QED
  BY <1>1, Invariant, PTL

(* A rejected password is not tried again for somebody with a name.        *)
THEOREM AlwaysRejectedIsFinal == Spec => RejectedIsFinal
<1> DEFINE Step == Replied("denied") /\ asked = Command("PASS", "pass") /\ user = "name" => pc' # "retry"
<1>1. ASSUME IInv, [Next]_vars PROVE [Step]_vars
  <2> SUFFICES ASSUME Replied("denied"), asked = Command("PASS", "pass"), user = "name", Next
               PROVE  pc' # "retry"
    BY <1>1
  <2>1. sentpass
    BY <1>1 DEF IInv, PassNoted, Replied
  <2>2. Denied
    BY DEF Next, Opening, FTPLoginHost, Replied, FTPOpenHost, Redial, NotConnected, Connected,
           NotGreeted, Greeted, UserAgain, LoggedIn, PasswordWanted, AccountWanted, Refused,
           Disconnected, LoginDone, PeerAccepts, PeerDenies, PeerRefuses
  <2> QED
    BY <2>1, <2>2 DEF Denied, Fails
<1> QED
  BY <1>1, Invariant, PTL DEF Spec, RejectedIsFinal
-----------------------------------------------------------------------------
(* A peer that wants nothing unusual gets what it wants.  What can go      *)
(* wrong is what WillingPeerLetsIn lists.                                  *)
Excuse ==
  \/ pass = "wiped"
  \/ pass = "empty" /\ (~prompts \/ firewall \in PasswordAtFirst \cup {"UserAtUserPassAtPass"})
  \/ needsAcct /\ ~acct
  \/ acct /\ firewall = "UserAtSiteFwuPassFwp"

(* The automaton and the peer are at the same place of the script.         *)
OnTrack ==
  /\ code # "denied"
  /\ code = "none" => ~Satisfied /\ asked = Script[left]
  /\ code = "password" => ~Satisfied /\ Script[left].verb = "PASS"
  /\ code = "account" => ~Satisfied /\ Script[left].verb = "ACCT"
  /\ code = "hello" => firewall \in ByCommand /\ left = 4 /\ fwloggedin
  /\ left = 1 \/ (left = 2 /\ code = "password") => ~fwsentpass /\ ~fwloggedin
  /\ firewall \in TwoStage => (left > 3 \/ (left = 3 /\ code = "none") => fwloggedin)

(* At item 1 nothing was answered and nobody was logged in yet; and a      *)
(* firewall of one stage asks for one password.                            *)
Fresh ==
  pc = "login" =>
    /\ left = 1 => code \notin {"hello", "in", "password", "account"} /\ ~fwsentpass
    /\ firewall \notin TwoStage /\ code = "password" => left = 2 /\ ~fwsentpass

LInv ==
  /\ IInv
  /\ pc = "greeting" => left = 1
  /\ Fresh
  /\ pc = "login" /\ willing /\ ~Excuse => OnTrack

(* The first password of a script, and the item past the firewall.         *)
FirstWanted ==
  IF firewall \in PasswordAtFirst \cup {"none"} THEN "pass"
  ELSE IF firewall = "UserAtUserPassAtPass" THEN "pass@fwpass" ELSE "fwpass"

PastWanted ==
  CASE firewall = "LoginThenUserAtSite" -> Command("USER", "user@host")
    [] firewall = "OpenSite"            -> Command("OPEN", "host")
    [] firewall = "SiteSite"            -> Command("SITE", "host")
    [] OTHER                            -> Command("USER", "user")

Account(f, n) == IF f = "UserAtSiteFwuPassFwp" THEN "fwpass" ELSE IF n THEN "acct" ELSE "none"

(* What the scripts hold, item by item.                                    *)
Items(s, f) ==
  /\ s[1] = Command("USER", FirstUser)
  /\ s[2] = Command("PASS", FirstWanted)
  /\ f \in TwoStage => s[3] = PastWanted
  /\ f \in ByCommand => s[4] = Command("USER", "user")
  /\ \A i \in 3 .. Len(s) :
       /\ s[i].verb = "PASS" => f \in TwoStage /\ i > 3 /\ s[i] = Command("PASS", "pass")
       /\ s[i].verb = "ACCT" => s[i] = Command("ACCT", Account(f, needsAcct)) /\ Account(f, needsAcct) # "none"

LEMMA ScriptItems ==
  ASSUME firewall \in Firewalls, needsAcct \in BOOLEAN
  PROVE  Items(Script, firewall)
<1> USE DEF Items, Script, Wanted, Command, FirstUser, FirstWanted, PastWanted, Account,
            TwoStage, ByUserAgain, ByCommand, PlainAtSite, PasswordAtFirst
<1>1. CASE firewall = "none" BY <1>1
<1>2. CASE firewall \in PlainAtSite
  <2>1. Wanted(firewall) = <<Command("USER", "user@host"), Command("PASS", "pass")>>
    BY <1>2
  <2>2. /\ firewall # "UserAtSiteFwuPassFwp" /\ firewall \notin TwoStage /\ firewall \notin ByCommand
        /\ FirstUser = "user@host" /\ FirstWanted = "pass" /\ Account(firewall, TRUE) = "acct"
    BY <1>2
  <2> HIDE DEF Wanted, PlainAtSite, TwoStage, ByUserAgain, ByCommand, FirstUser, FirstWanted, PastWanted
  <2> QED
    BY <2>1, <2>2
<1>3. CASE firewall = "LoginThenUserAtSite" BY <1>3
<1>4. CASE firewall = "SiteSite" BY <1>4
<1>5. CASE firewall = "OpenSite" BY <1>5
<1>6. CASE firewall = "UserAtUserPassAtPass" BY <1>6
<1>7. CASE firewall = "FwuAtSiteFwpUserPass" BY <1>7
<1>8. CASE firewall = "UserAtSiteFwuPassFwp"
  <2>1. Script = <<Command("USER", "user@host fwuser"), Command("PASS", "pass"), Command("ACCT", "fwpass")>>
    BY <1>8
  <2>2. /\ firewall \notin TwoStage /\ firewall \notin ByCommand
        /\ FirstUser = "user@host fwuser" /\ FirstWanted = "pass"
        /\ Account(firewall, needsAcct) = "fwpass"
    BY <1>8
  <2>3. Len(Script) = 3
    <3> HIDE DEF Script
    <3> QED BY <2>1
  <2>4. /\ Script[1] = Command("USER", "user@host fwuser")
        /\ Script[2] = Command("PASS", "pass") /\ Script[3] = Command("ACCT", "fwpass")
    <3> HIDE DEF Script
    <3> QED BY <2>1
  <2> HIDE DEF Script, TwoStage, ByUserAgain, ByCommand, FirstUser, FirstWanted, PastWanted, Account
  <2>5. \A i \in 3 .. Len(Script) : i = 3
    BY <2>3
  <2>6. ASSUME NEW i \in 3 .. Len(Script)
        PROVE  Script[i].verb = "ACCT" /\ Script[i] = Command("ACCT", Account(firewall, needsAcct))
    <3>1. i = 3
      BY <2>5
    <3>2. Script[i] = Command("ACCT", "fwpass")
      BY <3>1, <2>4
    <3>3. Account(firewall, needsAcct) = "fwpass"
      BY <2>2
    <3> QED
      BY <3>2, <3>3
  <2>7. Account(firewall, needsAcct) # "none"
    BY <2>2
  <2> QED
    BY <2>2, <2>4, <2>6, <2>7
<1> QED
  BY <1>1, <1>2, <1>3, <1>4, <1>5, <1>6, <1>7, <1>8 DEF Firewalls

(* What the proofs below use of the script and of the types.               *)
LEMMA Known ==
  ASSUME IInv
  PROVE  /\ firewall \in Firewalls /\ needsAcct \in BOOLEAN /\ acct \in BOOLEAN
         /\ prompts \in BOOLEAN /\ fwsentpass \in BOOLEAN /\ fwloggedin \in BOOLEAN
         /\ pass \in {"empty", "pass", "wiped"}
         /\ Len(Script) \in Nat \ {0, 1} /\ left \in 1 .. Len(Script) + 1
         /\ Items(Script, firewall)
         /\ firewall \in TwoStage => Len(Script) >= 4 /\ Script[3].verb \notin {"PASS", "ACCT"}
         /\ firewall \in ByCommand => Len(Script) >= 5
<1>1. /\ firewall \in Firewalls /\ needsAcct \in BOOLEAN /\ acct \in BOOLEAN
      /\ prompts \in BOOLEAN /\ fwsentpass \in BOOLEAN /\ fwloggedin \in BOOLEAN
      /\ pass \in {"empty", "pass", "wiped"} /\ left \in 1 .. Len(Script) + 1
  BY DEF IInv, TypeOK
<1> QED
  BY <1>1, ScriptShape, ScriptItems

(* Past the first two items no password is wanted but the user's, and that *)
(* only by a firewall of two stages.                                       *)
LEMMA ItemAt ==
  ASSUME IInv, ~Satisfied, left > 2
  PROVE  /\ Script[left].verb = "PASS" =>
              firewall \in TwoStage /\ left > 3 /\ Script[left] = Command("PASS", "pass")
         /\ Script[left].verb = "ACCT" =>
              /\ Script[left] = Command("ACCT", Account(firewall, needsAcct))
              /\ Account(firewall, needsAcct) # "none"
<1>1. left \in 3 .. Len(Script)
  BY Known DEF Satisfied
<1> QED
  BY <1>1, Known DEF Items

(* The peer gets what it waits for.                                        *)
LEMMA AcceptTrack ==
  ASSUME IInv, OnTrack, PeerAccepts
  PROVE  OnTrack'
<1> DEFINE len == Len(Script)
<1>1. Script' = Script
  BY ScriptSame DEF PeerAccepts, settings
<1>2. UNCHANGED <<firewall, fwloggedin, fwsentpass>> /\ code = "none" /\ pc = "login"
  BY DEF PeerAccepts, settings, automaton
<1>3. PICK n \in {left + 1, left + 2} :
        /\ n = left + 2 => n - 1 <= len /\ Script[n - 1].verb = "PASS"
        /\ left' = n /\ code' = Asks(n, asked.verb)
  BY DEF PeerAccepts
<1>4. left <= len /\ asked = Script[left] /\ n \in 2 .. len + 1 /\ len \in Nat
  BY <1>3, Known DEF PeerAccepts, Satisfied
<1>5. /\ code' \in {"in", "password", "account", "hello"}
      /\ code' # "in" => n <= len
      /\ code' = "password" => Script[n].verb = "PASS"
      /\ code' = "account" => Script[n].verb = "ACCT"
      /\ code' = "hello" => Script[n].verb \notin {"PASS", "ACCT"} /\ asked.verb \in {"SITE", "OPEN"}
  BY <1>3, <1>4 DEF Asks
<1>6. ~Satisfied' <=> n <= len
  BY <1>1, <1>3, <1>4 DEF Satisfied
<1>7. n = 2 => ~fwsentpass /\ ~fwloggedin
  BY <1>3, <1>4, Known DEF OnTrack
<1>8. firewall \in TwoStage /\ n > 3 => fwloggedin
  <2> SUFFICES ASSUME firewall \in TwoStage, n > 3 PROVE fwloggedin
    OBVIOUS
  <2>1. left = 2 => n = 4 /\ Script[3].verb = "PASS"
    BY <1>3
  <2>2. left # 2
    BY <2>1, Known
  <2>3. left >= 3
    BY <2>2, <1>3, Known
  <2> QED
    BY <2>3, <1>2, Known DEF OnTrack
<1>9. code' = "hello" => firewall \in ByCommand /\ n = 4 /\ fwloggedin
  <2> SUFFICES ASSUME code' = "hello" PROVE firewall \in ByCommand /\ n = 4 /\ fwloggedin
    OBVIOUS
  <2>1. Script[left].verb \in {"SITE", "OPEN"}
    BY <1>4, <1>5
  <2>2. Script[1].verb = "USER" /\ Script[2].verb = "PASS"
    BY Known DEF Items, Command
  <2>3. left = 3 /\ firewall \in ByCommand
    <3>1. left \in 3 .. len
      BY <2>1, <2>2, <1>4, Known
    <3>2. firewall \in TwoStage
      BY <2>1, <3>1, Known, ScriptShape DEF Rest
    <3>3. firewall \notin ByUserAgain
      <4> SUFFICES ASSUME firewall \in ByUserAgain PROVE FALSE
        OBVIOUS
      <4>1. left = 3
        BY <2>1, <3>1, Known, ScriptShape DEF Rest
      <4>2. Script[3].verb = "USER"
        BY Known DEF Items, TwoStage, ByUserAgain, PastWanted, Command
      <4> QED
        BY <4>1, <4>2, <2>1
    <3>4. firewall \in ByCommand
      BY <3>2, <3>3 DEF TwoStage
    <3>5. left < 5
      BY <2>1, <3>1, <3>4, Known, ScriptShape DEF Rest
    <3>6. Script[4].verb = "USER"
      BY <3>4, Known DEF Items, Command
    <3> QED
      BY <2>1, <3>1, <3>4, <3>5, <3>6
  <2>4. Script[left].verb # "PASS" /\ n = 4
    <3>1. Script[4].verb = "USER"
      BY <2>3, Known DEF Items, Command
    <3>2. n - 1 = 4 \/ n = 4
      BY <1>3, <2>3
    <3> QED
      BY <1>3, <2>1, <2>3, <3>1
  <2> QED
    BY <2>3, <2>4, <1>8 DEF TwoStage
<1> QED
  BY <1>1, <1>2, <1>3, <1>4, <1>5, <1>6, <1>7, <1>8, <1>9 DEF OnTrack

(* The command that the peer waits for is sent.                            *)
LEMMA SendTrack ==
  ASSUME IInv, ~Satisfied, Send(Script[left]), UNCHANGED <<firewall, needsAcct, left>>,
         left = 1 => ~fwsentpass' /\ ~fwloggedin',
         firewall \in TwoStage /\ left >= 3 => fwloggedin'
  PROVE  OnTrack'
<1>1. Script' = Script /\ (~Satisfied)'
  BY ScriptSame DEF Satisfied
<1>2. asked' = Script'[left'] /\ code' = "none"
  BY <1>1 DEF Send
<1>3. left = 2 => left' = 2
  OBVIOUS
<1> QED
  BY <1>1, <1>2, Known DEF OnTrack

(* 331: the first password, and the user's.                                *)
LEMMA PasswordTrack ==
  ASSUME IInv, OnTrack, ~Excuse, PasswordWanted
  PROVE  OnTrack'
<1> USE DEF Command
<1>1. /\ ~Satisfied /\ Script[left].verb = "PASS" /\ left \in 1 .. Len(Script) + 1
      /\ UNCHANGED <<firewall, needsAcct, left, fwloggedin>>
  BY Known DEF PasswordWanted, Replied, OnTrack, settings, peer
<1>2. Script[1].verb = "USER"
  BY Known DEF Items
<1>3. left # 1
  BY <1>1, <1>2
<1>4. firewall \in TwoStage /\ left > 2 => left > 3 /\ fwloggedin
  BY <1>1, Known DEF OnTrack
<1>5. Send(Script[left])
  <2>1. CASE left = 2
    <3>1. ~fwsentpass /\ ~fwloggedin /\ Script[2] = Command("PASS", FirstWanted)
      BY <2>1, Known DEF OnTrack, PasswordWanted, Replied, Items
    <3>2. CASE firewall = "none"
      <4>1. pass = "pass" \/ (pass = "empty" /\ prompts)
        BY Known DEF Excuse
      <4>2. Send(Command("PASS", pass')) /\ pass' = "pass"
        BY <4>1, <3>2 DEF PasswordWanted, PastFirewall
      <4> QED
        BY <3>1, <3>2, <4>2, <2>1 DEF FirstWanted
    <3>3. CASE firewall \in PasswordAtFirst \cup {"UserAtUserPassAtPass"}
      <4>1. pass = "pass" /\ firewall # "none"
        BY <3>3, Known DEF Excuse, PasswordAtFirst, PlainAtSite
      <4>2. Send(Command("PASS", FirstPass))
        BY <4>1, <3>1 DEF PasswordWanted, PastFirewall
      <4>3. FirstPass = FirstWanted
        BY <4>1, <3>3 DEF FirstPass, FirstWanted, PasswordAtFirst, PlainAtSite
      <4> QED
        BY <3>1, <4>2, <4>3, <2>1
    <3>4. CASE firewall \notin PasswordAtFirst \cup {"UserAtUserPassAtPass", "none"}
      <4>1. Send(Command("PASS", FirstPass))
        BY <3>1, <3>4 DEF PasswordWanted, PastFirewall
      <4>2. FirstPass = FirstWanted
        BY <3>4 DEF FirstPass, FirstWanted
      <4> QED
        BY <3>1, <4>1, <4>2, <2>1
    <3> QED
      BY <3>2, <3>3, <3>4
  <2>2. CASE left > 2
    <3>1. firewall \in TwoStage /\ Script[left] = Command("PASS", "pass") /\ fwloggedin
      BY <2>2, <1>1, <1>4, ItemAt
    <3>2. pass = "pass" \/ (pass = "empty" /\ prompts)
      BY <3>1, Known DEF Excuse
    <3>3. Send(Command("PASS", pass')) /\ pass' = "pass"
      BY <3>1, <3>2 DEF PasswordWanted, PastFirewall
    <3> QED
      BY <3>1, <3>3
  <2> QED
    BY <2>1, <2>2, <1>1, <1>3
<1> QED
  BY <1>1, <1>3, <1>4, <1>5, SendTrack

(* The other commands that the automaton sends.                            *)
LEMMA OtherTrack ==
  ASSUME IInv, OnTrack, ~Excuse, UserAgain \/ LoggedIn \/ AccountWanted, pc' = "login"
  PROVE  OnTrack'
<1> USE DEF Command, Replied
<1>1. /\ UNCHANGED <<firewall, needsAcct, left, fwsentpass>>
      /\ firewall \in Firewalls /\ left \in 1 .. Len(Script) + 1
  BY Known DEF UserAgain, LoggedIn, AccountWanted, settings, automaton, peer
<1>2. CASE UserAgain
  <2>1. firewall \in ByCommand /\ left = 4 /\ fwloggedin /\ fwloggedin'
    BY <1>2, Known DEF UserAgain, OnTrack, automaton
  <2>2. Script[left] = Command("USER", "user") /\ ~Satisfied
    BY <2>1, Known DEF Items, Satisfied
  <2>3. Send(Script[left])
    BY <1>2, <2>1, <2>2 DEF UserAgain, PastFirewall
  <2> QED
    BY <1>1, <2>1, <2>2, <2>3, SendTrack
<1>3. CASE AccountWanted
  <2>1. ~Satisfied /\ Script[left].verb = "ACCT" /\ fwloggedin' = fwloggedin
    BY <1>3 DEF AccountWanted, OnTrack, automaton
  <2>2. Script[1].verb = "USER" /\ Script[2].verb = "PASS"
    BY Known DEF Items
  <2>3. left > 2
    BY <1>1, <2>1, <2>2
  <2>4. /\ Script[left] = Command("ACCT", Account(firewall, needsAcct))
        /\ Account(firewall, needsAcct) # "none"
    BY <2>1, <2>3, ItemAt
  <2>5. Account(firewall, needsAcct) = IF acct THEN "acct" ELSE "fwpass"
    BY <2>4, Known DEF Excuse, Account
  <2>6. Send(Script[left])
    BY <1>3, <2>4, <2>5 DEF AccountWanted
  <2>7. firewall \in TwoStage => fwloggedin
    <3>1. ASSUME firewall \in TwoStage PROVE left > 3
      BY <3>1, <2>1, <2>3, <1>1, Known
    <3> QED
      BY <3>1 DEF OnTrack
  <2> QED
    BY <1>1, <2>1, <2>3, <2>6, <2>7, SendTrack
<1>4. CASE LoggedIn
  <2>1. ~PastFirewall /\ firewall \in TwoStage
    BY <1>4 DEF LoggedIn, Okay, TwoStage, ByUserAgain, ByCommand
  <2>2. left = 3 /\ fwloggedin'
    <3>1. ~fwloggedin
      BY <2>1 DEF PastFirewall
    <3>2. ~(left > 3)
      BY <3>1, <2>1 DEF OnTrack
    <3>3. ~Satisfied
      BY <3>2, <2>1, <1>1, Known DEF Satisfied
    <3> QED
      BY <3>3, <2>1, <1>4 DEF IInv, Place, LoggedIn
  <2>3. Script[left] = PastWanted /\ ~Satisfied
    BY <2>1, <2>2, Known DEF Items, Satisfied
  <2>4. Send(PastWanted)
    BY <1>4, <2>1 DEF LoggedIn, PastWanted, TwoStage, ByUserAgain, ByCommand
  <2> QED
    BY <1>1, <2>2, <2>3, <2>4, SendTrack
<1> QED
  BY <1>2, <1>3, <1>4

(* Fresh is kept, whatever the user has given.                             *)
LEMMA FreshStep ==
  ASSUME LInv, [Next]_vars
  PROVE  Fresh'
<1> SUFFICES ASSUME pc' = "login"
             PROVE  /\ left' = 1 => code' \notin {"hello", "in", "password", "account"} /\ ~fwsentpass'
                    /\ firewall' \notin TwoStage /\ code' = "password" => left' = 2 /\ ~fwsentpass'
  BY DEF Fresh
<1>1. CASE UNCHANGED vars
  BY <1>1 DEF vars, settings, automaton, peer, LInv, Fresh
<1>2. CASE Greeted
  BY <1>2 DEF Greeted, Send
<1>3. CASE UserAgain \/ LoggedIn \/ PasswordWanted \/ AccountWanted
  <2>1. left' = left /\ code' = "none" /\ left # 1
    BY <1>3 DEF UserAgain, LoggedIn, PasswordWanted, AccountWanted, Replied, Send, Okay, peer,
                LInv, Fresh
  <2> QED
    BY <2>1
<1>4. CASE PeerAccepts
  <2>1. IInv
    BY DEF LInv
  <2>2. PICK n \in {left + 1, left + 2} :
          /\ n = left + 2 => n - 1 <= Len(Script)
          /\ left' = n /\ code' = Asks(n, asked.verb)
    BY <1>4 DEF PeerAccepts
  <2>3. /\ left \in 1 .. Len(Script) + 1 /\ ~Satisfied /\ Len(Script) \in Nat
        /\ UNCHANGED <<firewall, fwsentpass>> /\ pc = "login"
    BY <1>4, <2>1, Known DEF PeerAccepts, settings, automaton
  <2>4. left' # 1
    BY <2>2, <2>3
  <2>5. ASSUME firewall \notin TwoStage, code' = "password" PROVE left' = 2 /\ ~fwsentpass'
    <3>1. n \in 2 .. Len(Script) /\ Script[n].verb = "PASS"
      BY <2>2, <2>3, <2>5 DEF Asks, Satisfied
    <3>2. n = 2
      BY <2>1, <2>5, <3>1, Known DEF Items
    <3> QED
      BY <2>2, <2>3, <3>2 DEF LInv, Fresh
  <2> QED
    BY <2>3, <2>4, <2>5
<1>5. CASE PeerDenies \/ PeerRefuses
  <2>1. UNCHANGED <<pc, left, fwsentpass>> /\ code' \in {"denied", "refused", "leaving", "lost", "timedOut"}
    BY <1>5 DEF PeerDenies, PeerRefuses, automaton, peer
  <2> QED
    BY <1>5, <2>1 DEF LInv, Fresh, PeerDenies, PeerRefuses
<1> QED
  BY <1>1, <1>2, <1>3, <1>4, <1>5
     DEF Next, Opening, FTPLoginHost, FTPOpenHost, Redial, NextDial, NotConnected, Connected,
         NotGreeted, LoginDone, Denied, Refused, Disconnected, Fails

(* No password turns up late where one was missing from the start.         *)
LEMMA ExcuseStays ==
  ASSUME LInv, ~Excuse', FTPLoginHost, pc' = "login"
  PROVE  ~Excuse
<1>1. /\ UNCHANGED <<acct, prompts, needsAcct, firewall>>
      /\ firewall \in Firewalls /\ pass \in {"empty", "pass", "wiped"} /\ prompts \in BOOLEAN
  BY Known DEF FTPLoginHost, UserAgain, LoggedIn, PasswordWanted, AccountWanted, Denied, Refused,
               Disconnected, Fails, settings, LInv
<1>2. CASE pass' = pass
  BY <1>1, <1>2 DEF Excuse
<1>3. CASE pass' # pass
  <2>1. PasswordWanted /\ pass = "empty" /\ prompts /\ (PastFirewall \/ fwsentpass)
    BY <1>3 DEF FTPLoginHost, UserAgain, LoggedIn, PasswordWanted, AccountWanted, Denied,
                Refused, Disconnected, Fails
  <2>2. firewall \in TwoStage \cup {"none"}
    BY <2>1, <1>1 DEF PasswordWanted, Replied, PastFirewall, LInv, Fresh, IInv, Place
  <2>3. firewall \notin PasswordAtFirst \cup {"UserAtUserPassAtPass"}
    BY <2>2 DEF TwoStage, ByUserAgain, ByCommand, PasswordAtFirst, PlainAtSite
  <2> QED
    BY <2>1, <2>3, <1>1 DEF Excuse
<1> QED
  BY <1>2, <1>3

(* Every step keeps the automaton and the peer together.                   *)
LEMMA TrackStep ==
  ASSUME LInv, [Next]_vars, pc' = "login", willing', ~Excuse'
  PROVE  OnTrack'
<1>1. IInv
  BY DEF LInv
<1>2. CASE UNCHANGED vars
  <2>1. Script' = Script /\ (Satisfied' <=> Satisfied) /\ (Excuse' <=> Excuse)
    BY <1>2, ScriptSame DEF vars, settings, peer, Satisfied, Excuse
  <2>2. OnTrack
    BY <1>2, <2>1 DEF vars, peer, LInv
  <2> QED
    BY <1>2, <2>1, <2>2 DEF vars, settings, automaton, peer, OnTrack
<1>3. CASE Greeted
  <2>1. left = 1 /\ UNCHANGED <<firewall, needsAcct, left>> /\ ~fwsentpass' /\ ~fwloggedin'
    BY <1>3 DEF Greeted, LInv, settings, peer
  <2>2. Send(Script[left]) /\ ~Satisfied
    BY <1>1, <1>3, <2>1, Known DEF Greeted, Items, Satisfied
  <2> QED
    BY <1>1, <2>1, <2>2, SendTrack
<1>4. CASE FTPLoginHost
  <2>1. ~Excuse
    BY <1>4, ExcuseStays
  <2>2. pc = "login" /\ willing
    BY <1>4 DEF FTPLoginHost, UserAgain, LoggedIn, PasswordWanted, AccountWanted, Denied, Refused,
                Disconnected, Replied, Fails, peer
  <2>3. OnTrack
    BY <2>1, <2>2 DEF LInv
  <2>4. UserAgain \/ LoggedIn \/ AccountWanted \/ PasswordWanted
    BY <1>4 DEF FTPLoginHost, Denied, Refused, Disconnected, Fails
  <2> QED
    BY <1>1, <2>1, <2>3, <2>4, PasswordTrack, OtherTrack
<1>5. CASE PeerAccepts \/ PeerDenies
  <2>1. OnTrack
    BY <1>5 DEF PeerAccepts, PeerDenies, settings, peer, LInv, Excuse
  <2>2. PeerAccepts
    BY <1>5, <2>1 DEF PeerDenies, OnTrack
  <2> QED
    BY <1>1, <2>1, <2>2, AcceptTrack
<1>6. CASE PeerRefuses
  BY <1>6 DEF PeerRefuses
<1> QED
  BY <1>2, <1>3, <1>4, <1>5, <1>6
     DEF Next, Opening, FTPOpenHost, Redial, NextDial, NotConnected, Connected, NotGreeted, LoginDone

(* A peer that does not refuse of its own accord lets the client in, but   *)
(* for what WillingPeerLetsIn lists.                                       *)
THEOREM AlwaysWillingPeerLetsIn == Spec => []WillingPeerLetsIn
<1>1. Init => LInv
  BY InitInv DEF Init, LInv, Fresh
<1>2. LInv /\ [Next]_vars => LInv'
  <2> SUFFICES ASSUME LInv, [Next]_vars PROVE LInv'
    OBVIOUS
  <2>1. IInv'
    BY InvStep DEF LInv
  <2>2. (pc = "greeting" => left = 1)'
    BY DEF LInv, Next, Opening, FTPLoginHost, FTPOpenHost, Redial, NextDial, NotConnected,
           Connected, NotGreeted, Greeted, UserAgain, LoggedIn, PasswordWanted, AccountWanted,
           Send, Okay, Denied, Refused, Disconnected, Fails, LoginDone, PeerAccepts, PeerDenies,
           PeerRefuses, Replied, vars, peer
  <2> QED
    BY <2>1, <2>2, FreshStep, TrackStep DEF LInv
<1>3. LInv => WillingPeerLetsIn
  BY DEF LInv, WillingPeerLetsIn, OnTrack, Excuse, Replied
<1> QED
  BY <1>1, <1>2, <1>3, PTL DEF Spec
=============================================================================
