------------------------------- MODULE OpenHost -------------------------------
(***************************************************************************)
(* How a session begins: FTPOpenHost of libncftp/open.c, which dials and   *)
(* dials again, with OpenControlConnection and the automaton of            *)
(* FTPLoginHost, through none or one of the nine kinds of firewall.        *)
(*                                                                         *)
(* The peer is external: a firewall that asks for its own login and then   *)
(* leads to the site, or the site itself.  It is modelled from the         *)
(* description of the firewall types in ncftp/preffw.c.  It answers        *)
(* honestly, that is, it says that somebody is logged in only when it has  *)
(* got all it asks for; but it may refuse, leave or fall silent at any     *)
(* time.                                                                   *)
(***************************************************************************)
EXTENDS Integers, Sequences

CONSTANT MaxDials   \* cip->maxDials; negative: dial until somebody answers

ASSUME DialAssumption == MaxDials \in Int

VARIABLES
  pc,          \* "idle", "dial", "greeting", "login", "loggedIn", "retry", "open" or "failed"
  firewall,    \* cip->firewallType
  user,        \* cip->user: "anonymous", "ftp", or the "name" of somebody
  leavePass,   \* cip->leavePass
  prompts,     \* cip->passphraseProc can ask for the password
  acct,        \* cip->acct is not empty
  pass,        \* cip->pass: "empty", "pass" (what it should be), or "wiped" with asterisks
  dials,       \* cip->numDials
  asked,       \* the command that awaits its reply
  code,        \* the reply, by what FTPLoginHost makes of its code
  sentpass, fwsentpass, fwloggedin,   \* the variables of FTPLoginHost
  left,        \* peer: the first item of its Script that it has not got yet
  needsAcct,   \* peer: the site wants an account, too
  willing      \* history: the peer has not refused anything of its own accord

settings == <<firewall, user, leavePass, prompts, acct, needsAcct>>
automaton == <<sentpass, fwsentpass, fwloggedin>>
peer     == <<left, willing>>
vars     == <<pc, settings, pass, dials, asked, code, automaton, peer>>

Firewalls ==
  {"none", "UserAtSite", "UserAtSitePort", "UserAtSitePort2", "LoginThenUserAtSite",
   "SiteSite", "OpenSite", "UserAtUserPassAtPass", "FwuAtSiteFwpUserPass", "UserAtSiteFwuPassFwp"}

PlainAtSite == {"UserAtSite", "UserAtSitePort", "UserAtSitePort2"}

Command(verb, what) == [verb |-> verb, what |-> what]
NoCommand == Command("none", "none")
-----------------------------------------------------------------------------
(***************************************************************************)
(* The peer.                                                               *)
(***************************************************************************)

(* What a firewall of each type wants to be sent, in this order, if it     *)
(* wants all of it ("Types of firewalls" in preffw.c).                     *)
Wanted(f) ==
  LET fwLogin == <<Command("USER", "fwuser"), Command("PASS", "fwpass")>>
      login   == <<Command("USER", "user"), Command("PASS", "pass")>>
  IN CASE f = "none"                 -> login
       [] f \in PlainAtSite          -> <<Command("USER", "user@host"), Command("PASS", "pass")>>
       [] f = "LoginThenUserAtSite"  -> fwLogin \o <<Command("USER", "user@host"), Command("PASS", "pass")>>
       [] f = "SiteSite"             -> fwLogin \o <<Command("SITE", "host")>> \o login
       [] f = "OpenSite"             -> fwLogin \o <<Command("OPEN", "host")>> \o login
       [] f = "UserAtUserPassAtPass" -> <<Command("USER", "user@fwuser@host"), Command("PASS", "pass@fwpass")>>
       [] f = "FwuAtSiteFwpUserPass" -> <<Command("USER", "fwuser@host"), Command("PASS", "fwpass")>> \o login
       [] f = "UserAtSiteFwuPassFwp" ->
            <<Command("USER", "user@host fwuser"), Command("PASS", "pass"), Command("ACCT", "fwpass")>>

Script ==
  IF needsAcct /\ firewall # "UserAtSiteFwuPassFwp"
  THEN Append(Wanted(firewall), Command("ACCT", "acct")) ELSE Wanted(firewall)

Satisfied == left > Len(Script)

(* The reply that asks for item n, after the item of verb v.               *)
Asks(n, v) ==
  IF n > Len(Script) THEN "in"
  ELSE CASE Script[n].verb = "PASS" -> "password"
         [] Script[n].verb = "ACCT" -> "account"
         [] OTHER                   -> IF v \in {"SITE", "OPEN"} THEN "hello" ELSE "in"

(* The item it waits for arrives.  A password may not be needed.           *)
PeerAccepts ==
  /\ pc = "login" /\ code = "none"
  /\ ~Satisfied /\ asked = Script[left]
  /\ \E n \in {left + 1, left + 2} :
       /\ n = left + 2 => n - 1 <= Len(Script) /\ Script[n - 1].verb = "PASS"
       /\ left' = n
       /\ code' = Asks(n, asked.verb)
  /\ UNCHANGED <<pc, settings, pass, dials, asked, automaton, willing>>

(* Something else arrives.                                                 *)
PeerDenies ==
  /\ pc = "login" /\ code = "none"
  /\ Satisfied \/ asked # Script[left]
  /\ code' = "denied"
  /\ UNCHANGED <<pc, settings, pass, dials, asked, automaton, peer>>

(* The peer refuses, with 530 or with another code, says that it leaves    *)
(* (421), has closed the connection, or does not answer within the time    *)
(* limit.  A socket that fails otherwise has the effect of "timedOut".     *)
PeerRefuses ==
  /\ pc = "login" /\ code = "none"
  /\ code' \in {"denied", "refused", "leaving", "lost", "timedOut"}
  /\ willing' = FALSE
  /\ UNCHANGED <<pc, settings, pass, dials, asked, automaton, left>>
-----------------------------------------------------------------------------
(***************************************************************************)
(* FTPOpenHost and OpenControlConnection.                                  *)
(***************************************************************************)
Anonymous == user \in {"anonymous", "ftp"}

Init ==
  /\ pc = "idle"
  /\ firewall \in Firewalls /\ user \in {"anonymous", "ftp", "name"}
  /\ leavePass \in BOOLEAN /\ prompts \in BOOLEAN /\ acct \in BOOLEAN
  /\ pass \in {"empty", "pass"}
  /\ dials = 0 /\ asked = NoCommand /\ code = "none"
  /\ sentpass = FALSE /\ fwsentpass = FALSE /\ fwloggedin = FALSE
  /\ left = 1 /\ needsAcct \in BOOLEAN /\ willing = TRUE

(* A defect to be caught: one dial too many.                               *)
NextDialOver ==
  \/ /\ MaxDials < 0 \/ dials <= MaxDials
     /\ pc' = "dial" /\ dials' = dials + 1
  \/ pc' = "failed" /\ UNCHANGED dials

(* A defect to be caught: the dials are not counted.                       *)
NextDialUncounted ==
  \/ pc' = "dial" /\ UNCHANGED dials
  \/ pc' = "failed" /\ UNCHANGED dials

(* The head of the loop: another dial, unless there were enough or the     *)
(* buffer cannot be allocated.                                             *)
NextDial ==
  \/ /\ MaxDials < 0 \/ dials < MaxDials
     /\ pc' = "dial" /\ dials' = dials + 1
  \/ pc' = "failed" /\ UNCHANGED dials

FTPOpenHost ==
  /\ pc = "idle"
  /\ NextDial
  /\ UNCHANGED <<settings, pass, asked, code, automaton, peer>>

(* After the wait of redialDelay seconds.                                  *)
Redial ==
  /\ pc = "retry"
  /\ NextDial
  /\ UNCHANGED <<settings, pass, asked, code, automaton, peer>>

(* No connection: either nobody answers, the network is down or the call   *)
(* is refused, and it is worth another dial, or it is not.                 *)
NotConnected ==
  /\ pc = "dial"
  /\ pc' \in {"retry", "failed"}
  /\ UNCHANGED <<settings, pass, dials, asked, code, automaton, peer>>

Connected ==
  /\ pc = "dial"
  /\ pc' = "greeting"
  /\ left' = 1 /\ willing' = TRUE
  /\ UNCHANGED <<settings, pass, dials, asked, code, automaton>>

(* A greeting that is a 4xx or 5xx code, or the end of the connection      *)
(* instead of one, is worth another dial; silence or junk is not.          *)
NotGreeted ==
  /\ pc = "greeting"
  /\ pc' \in {"retry", "failed"}
  /\ UNCHANGED <<settings, pass, dials, asked, code, automaton, peer>>
-----------------------------------------------------------------------------
(***************************************************************************)
(* FTPLoginHost.                                                           *)
(***************************************************************************)
Send(c) == asked' = c /\ code' = "none" /\ pc' = "login"

(* What USER says to the first of possibly two parties.                    *)
FirstUser ==
  CASE firewall = "none"                 -> "user"
    [] firewall \in PlainAtSite          -> "user@host"
    [] firewall = "UserAtUserPassAtPass" -> "user@fwuser@host"
    [] firewall = "UserAtSiteFwuPassFwp" -> "user@host fwuser"
    [] firewall = "FwuAtSiteFwpUserPass" -> "fwuser@host"
    [] OTHER                             -> "fwuser"

(* An anonymous login gets its password here if it has none.  The 220 that *)
(* the automaton starts with is not the greeting but taken for granted.    *)
Greeted ==
  /\ pc = "greeting"
  /\ Send(Command("USER", FirstUser))
  /\ sentpass' = FALSE /\ fwsentpass' = FALSE /\ fwloggedin' = FALSE
  /\ pass' = IF Anonymous /\ pass = "empty" THEN "pass" ELSE pass
  /\ UNCHANGED <<settings, dials, peer>>

Replied(c) == pc = "login" /\ code = c

PastFirewall == firewall = "none" \/ fwloggedin

(* 220 once more: the site greets.                                         *)
UserAgain ==
  /\ Replied("hello")
  /\ Send(Command("USER", IF PastFirewall \/ fwsentpass THEN "user" ELSE FirstUser))
  /\ UNCHANGED <<settings, pass, dials, automaton, peer>>

Okay == pc' = "loggedIn" /\ asked' = NoCommand /\ code' = "none"

(* A defect to be caught: the firewall's welcome is taken for the site's.  *)
LoggedInSoon ==
  /\ Replied("in")
  /\ Okay
  /\ UNCHANGED <<settings, pass, dials, automaton, peer>>

(* A defect to be caught: that the firewall is passed is forgotten.        *)
LoggedInForgotten ==
  /\ Replied("in")
  /\ CASE firewall = "LoginThenUserAtSite"  -> Send(Command("USER", "user@host"))
       [] firewall = "OpenSite"             -> Send(Command("OPEN", "host"))
       [] firewall = "SiteSite"             -> Send(Command("SITE", "host"))
       [] firewall = "FwuAtSiteFwpUserPass" -> Send(Command("USER", "user"))
       [] OTHER                             -> Okay
  /\ UNCHANGED <<settings, pass, dials, automaton, peer>>

(* 230, 231, 202: logged in to the site or to the firewall.                *)
LoggedIn ==
  /\ Replied("in")
  /\ IF PastFirewall
     THEN Okay /\ UNCHANGED fwloggedin
     ELSE /\ fwloggedin' = TRUE
          /\ CASE firewall = "LoginThenUserAtSite"  -> Send(Command("USER", "user@host"))
               [] firewall = "OpenSite"             -> Send(Command("OPEN", "host"))
               [] firewall = "SiteSite"             -> Send(Command("SITE", "host"))
               [] firewall = "FwuAtSiteFwpUserPass" -> Send(Command("USER", "user"))
               [] OTHER                             -> Okay
  /\ UNCHANGED <<settings, pass, dials, sentpass, fwsentpass, peer>>

(* The firewalls that want the site's password alone at the first PASS.    *)
PasswordAtFirst == PlainAtSite \cup {"UserAtSiteFwuPassFwp"}

FirstPass ==
  CASE firewall \in PasswordAtFirst       -> pass
    [] firewall = "UserAtUserPassAtPass" -> IF pass = "pass" THEN "pass@fwpass" ELSE "@fwpass"
    [] OTHER                             -> "fwpass"

(* 331.  Only a site that is reached is worth asking the user for.         *)
PasswordWanted ==
  /\ Replied("password")
  /\ IF PastFirewall \/ fwsentpass
     THEN /\ pass' = IF pass = "empty" /\ prompts THEN "pass" ELSE pass
          /\ Send(Command("PASS", pass'))
          /\ sentpass' = TRUE /\ UNCHANGED fwsentpass
     ELSE /\ Send(Command("PASS", FirstPass))
          /\ IF firewall \in PasswordAtFirst
             THEN sentpass' = TRUE /\ UNCHANGED fwsentpass
             ELSE fwsentpass' = TRUE /\ UNCHANGED sentpass
          /\ UNCHANGED pass
  /\ UNCHANGED <<settings, dials, fwloggedin, peer>>

(* 332, 532.                                                               *)
AccountWanted ==
  /\ Replied("account")
  /\ Send(Command("ACCT", IF acct THEN "acct" ELSE "fwpass"))
  /\ UNCHANGED <<settings, pass, dials, automaton, peer>>

(* The labels done and done2, and what FTPOpenHost does when the login has *)
(* failed: it closes the connection, and dials again unless the password   *)
(* was rejected.                                                           *)
Fails(keepsPass, final) ==
  /\ pass' = IF Anonymous \/ leavePass \/ keepsPass THEN pass ELSE "wiped"
  /\ pc' = IF final THEN "failed" ELSE "retry"
  /\ asked' = NoCommand /\ code' = "none"
  /\ UNCHANGED <<settings, dials, automaton, peer>>

(* A defect to be caught: who is denied dials again, whatever for.         *)
DeniedAgain ==
  /\ Replied("denied")
  /\ Fails(FALSE, FALSE)

(* 530: kErrBadRemoteUserOrPassword once PASS was sent, or kErrBadRemoteUser. *)
Denied ==
  /\ Replied("denied")
  /\ Fails(FALSE, sentpass /\ user # "anonymous")

(* Any other code, junk, no reply in time, an error of the socket.         *)
Refused ==
  /\ Replied("refused") \/ Replied("timedOut")
  /\ Fails(FALSE, FALSE)

(* The end of the connection, or 421, which GetResponse takes for it.      *)
Disconnected ==
  /\ Replied("leaving") \/ Replied("lost")
  /\ Fails(TRUE, FALSE)

(* The rest of FTPLoginHost, PWD and "Don't leave cleartext password in    *)
(* memory, since we are logged in", and FTPQueryFeatures.  Neither looks   *)
(* at whether the connection is still there.                               *)
LoginDone ==
  /\ pc = "loggedIn"
  /\ pc' = "open"
  /\ pass' = IF Anonymous \/ leavePass THEN pass ELSE "wiped"
  /\ UNCHANGED <<settings, dials, asked, code, automaton, peer>>
-----------------------------------------------------------------------------
FTPLoginHost ==
  \/ UserAgain \/ LoggedIn \/ PasswordWanted \/ AccountWanted
  \/ Denied \/ Refused \/ Disconnected

(* The steps of the call, with the answers it gets: each wait has a limit. *)
Opening ==
  \/ Redial \/ NotConnected \/ Connected \/ NotGreeted \/ Greeted
  \/ FTPLoginHost \/ LoginDone
  \/ PeerAccepts \/ PeerDenies \/ PeerRefuses

Next == FTPOpenHost \/ Opening

Spec == Init /\ [][Next]_vars

FairSpec == Spec /\ WF_vars(Opening)
-----------------------------------------------------------------------------
(***************************************************************************)
(* Properties.                                                             *)
(***************************************************************************)

(* Types, and the limit of the dials.                                      *)
Whats == {"none", "user", "fwuser", "user@host", "user@fwuser@host", "user@host fwuser",
          "fwuser@host", "host", "pass", "empty", "wiped", "fwpass", "pass@fwpass", "@fwpass", "acct"}

TypeOK ==
  /\ pc \in {"idle", "dial", "greeting", "login", "loggedIn", "retry", "open", "failed"}
  /\ firewall \in Firewalls /\ user \in {"anonymous", "ftp", "name"}
  /\ {leavePass, prompts, acct, needsAcct, willing} \subseteq BOOLEAN
  /\ {sentpass, fwsentpass, fwloggedin} \subseteq BOOLEAN
  /\ pass \in {"empty", "pass", "wiped"}
  /\ dials \in Nat /\ (MaxDials >= 0 => dials <= MaxDials)
  /\ asked \in [verb : {"none", "USER", "PASS", "ACCT", "SITE", "OPEN"}, what : Whats]
  /\ code \in {"none", "hello", "in", "password", "account", "denied", "refused", "leaving",
               "lost", "timedOut"}
  /\ left \in 1 .. Len(Script) + 1

(* FTPOpenHost takes itself to be logged in only when the site has let it  *)
(* in, never when only the firewall has, for all nine types of firewall.   *)
LetInBySite == pc \in {"loggedIn", "open"} => Satisfied

(* A peer that does not refuse of its own accord gets what it asks for,    *)
(* in the order of preffw.c, and lets the client in.  Four things go       *)
(* wrong: the password was overwritten after an earlier dial; it is not    *)
(* known and FTPLoginHost does not ask the user for it, as it does only    *)
(* past a firewall; the site wants an account that was not given; and one  *)
(* that was given is sent to a firewall that wants fwpass.                 *)
WillingPeerLetsIn ==
  (Replied("denied") /\ willing) =>
    \/ pass = "wiped"
    \/ pass = "empty" /\ (~prompts \/ firewall \in PasswordAtFirst \cup {"UserAtUserPassAtPass"})
    \/ needsAcct /\ ~acct
    \/ acct /\ firewall = "UserAtSiteFwuPassFwp"

(* Who is not anonymous and has the password rejected does not dial again: *)
(* "Failed logins as non-anonymous no longer continue redialing and        *)
(* refailing" (CHANGELOG).                                                 *)
RejectedIsFinal ==
  [][Replied("denied") /\ asked = Command("PASS", "pass") /\ user = "name" => pc' # "retry"]_vars

(* FTPOpenHost returns, unless it was told to dial for ever.               *)
OpenReturns == MaxDials >= 0 => (pc = "dial" ~> pc \in {"open", "failed"})
=============================================================================
