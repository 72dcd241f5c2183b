----------------------------- MODULE CommandsMC -----------------------------
(***************************************************************************)
(* The simple commands of libncftp for TLC: those that move about and      *)
(* change the remote directories (RemoteDirs), and those that find out     *)
(* about a remote file (Probing).  They share no state here, so that a     *)
(* behaviour is of one part or of the other.                               *)
(***************************************************************************)
EXTENDS RemoteDirs, Probing

VARIABLE about

(* Servers that refuse one thing, and the trees on them: one to make and   *)
(* remove directories in, one whose user is below the root, one with a     *)
(* link.                                                                   *)
OpenSite == [closed |-> {}, fixed |-> {}, pwd |-> TRUE, cdup |-> TRUE, nlst |-> "dots"]
MCSites == {[OpenSite EXCEPT !.nlst = n] : n \in {"dots", "plain", "empty550", "noA"}}
           \cup {[OpenSite EXCEPT !.pwd = FALSE], [OpenSite EXCEPT !.cdup = FALSE],
                 [OpenSite EXCEPT !.closed = {<<"a", "b">>}],
                 [OpenSite EXCEPT !.fixed = {<<"a">>}], [OpenSite EXCEPT !.fixed = {<<>>}]}
NoLinks == [p \in {} |-> p]
MCTrees ==
  {[dirs |-> {<<>>, <<"a">>, <<"a", "b">>}, files |-> {<<"b">>, <<"a", "a">>, <<"a", "b", "b">>},
    links |-> NoLinks, home |-> <<>>],
   [dirs |-> {<<>>, <<"a">>, <<"a", "b">>, <<"a", "a">>}, files |-> {<<"a", "b", "b">>},
    links |-> NoLinks, home |-> <<"a">>],
   [dirs |-> {<<>>, <<"a">>, <<"b">>, <<"b", "b">>}, files |-> {<<"b", "a">>},
    links |-> [p \in {<<"a", "b">>} |-> <<"b">>], home |-> <<>>]}
MCArgs == {<<"a">>, <<"a", "b", "a">>, <<"a", "b">>}

(* A server with NLST and little else, and those that differ from it in    *)
(* what one kind of call depends on.                                       *)
Rich == [feat |-> TRUE, wu |-> FALSE, MDTM |-> "no", SIZE |-> "files", MLST |-> "no", STAT |-> "no", NLST |-> "yes",
         back |-> "yes", root |-> "items", write |-> "yes",
         MFF |-> "no", MFMT |-> FALSE, UTIME |-> FALSE, MDTMset |-> FALSE]
MCHosts == {[Rich EXCEPT !.STAT = s, !.NLST = n, !.root = r] :
               s \in Echoes, n \in Echoes, r \in {"items", "emptyDir"}}
           \cup {[Rich EXCEPT !.NLST = n, !.root = "empty", !.write = w, !.back = b] :
               n \in {"no", "yes"}, w \in {"no", "keeps", "yes"}, b \in {"yes", "noPwd", "noReturn"}}
           \cup {[Rich EXCEPT !.feat = e, !.MDTM = m, !.MLST = l, !.SIZE = z] :
               e \in BOOLEAN, m \in Answers, l \in {"no", "all"}, z \in Answers}
           \cup {[Rich EXCEPT !.wu = TRUE, !.feat = FALSE, !.MDTM = "all", !.MDTMset = TRUE, !.UTIME = u] : u \in BOOLEAN}
           \cup {[Rich EXCEPT !.MDTM = IF m THEN "all" ELSE "no", !.MDTMset = m, !.MFF = f, !.MFMT = t, !.UTIME = u] :
               m \in BOOLEAN, f \in {"no", "refuses", "yes"}, t \in BOOLEAN, u \in BOOLEAN}
MCOverrides == {[c \in {} |-> "yes"], [c \in {"STAT"} |-> "yes"], [c \in {"MDTM", "NLST"} |-> "no"]}

(* The part that does not run stays in one of its initial states.          *)
DirsOnly  == peer = Rich /\ item = "none" /\ stampable /\ forced = {}
FilesOnly == site = OpenSite /\ cwd = <<"a">>

CInit == /\ DInit /\ PInit /\ about \in {"dirs", "files"}
         /\ IF about = "dirs" THEN DirsOnly ELSE FilesOnly
CNext == \/ about = "dirs" /\ DNext /\ UNCHANGED <<about, pvars>>
         \/ about = "files" /\ PNext /\ UNCHANGED <<about, dvars>>
CSpec == CInit /\ [][CNext]_<<about, dvars, pvars>>
-----------------------------------------------------------------------------
(* Moving about and changing directories: the client comes home or arrives *)
(* where it asked to be, makes the whole path, and removes all that was    *)
(* named and nothing else (c_mkdir.c, c_chdir3.c, c_chdirlist.c,           *)
(* c_delete.c, c_rmdir.c, c_rmdirr.c).                                     *)
DirsRight == /\ []DTypeOK
             /\ ComesHome /\ MkdirMakes /\ ChdirArrives /\ RemovedBelow /\ RemovesAll

(* Finding out about a file, while others change it: what the client says  *)
(* of the file was so during the call, what it has learnt of the server    *)
(* is so, and it leaves the server as it was (c_exists.c, c_filetype.c,    *)
(* c_utime.c, c_size.c, c_modtime.c, c_mlist1.c).                          *)
FoundRight == /\ [](PTypeOK /\ StaysHome /\ NoLitter /\ LearntRight)
              /\ ExistsRight /\ TypeRight /\ UtimeSteady
=============================================================================
