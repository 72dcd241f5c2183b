------------------------------ MODULE ShellMC ------------------------------
(***************************************************************************)
(* The shell for TLC: its loop and its commands (Shell), the editor of its *)
(* lines (LineEditor) and tab (Completion).  They share no state here, so  *)
(* that a behaviour is of one part.                                        *)
(***************************************************************************)
EXTENDS Shell, LineEditor, Completion

CONSTANT Parts   \* those that run
VARIABLE part

(* The loop.  Every command alone on a line, and lines of two of which the *)
(* first cannot be done, cannot be found or ends the shell.                *)
Alone   == {<<c>> : c \in {"get", "getDD", "getAs", "put", "rm", "mv", "quote", "ls", "pls", "more",
                           "open", "close", "quit", "shell"}}
MCTyped == Alone \cup {<<"rm", "ls">>, <<"huh", "ls">>, <<"quit", "ls">>}

(* The line that is typed: a screen of eight columns, so that the line     *)
(* scrolls, a buffer that fills, a ring of four that the file nearly       *)
(* fills.                                                                  *)
MCPrompt == <<">">>
MCFiles  == {<<<<"a", " ", "a">>, <<"a", "a", "a", " ", "a", "a", "a", " ">>>>}

(* Tab, on lines of every kind of quoting and directories in which names   *)
(* have to be quoted or share a beginning.                                 *)
Strings(n, chars) == [1..n -> chars]
Short   == UNION {Strings(n, {"a", "b", " ", ";", "\"", "'", "\\", "*"}) : n \in 0..2}
MCLines == Short \cup Strings(3, {"a", " ", ";", "\"", "\\"})
           \cup {<<"b", " ">> \o s : s \in Short \cup Strings(3, {"a", " ", "\"", "*"})}
File(n)   == [name |-> n, dir |-> FALSE]
Folder(n) == [name |-> n, dir |-> TRUE]
Named(n, w) == [name |-> n, what |-> w]
MCSorted == <<Named(<<"a", "a">>, "local"), Named(<<"a", "b">>, "none"), Named(<<"b">>, "remote"),
              Named(<<"b", "a">>, "dirs")>>
MCDirs   == {{File(<<"a">>)}, {Folder(<<"a", " ", "b">>)}, {File(<<"a", "*">>), Folder(<<"b", "a">>)},
             {File(<<"a", " ", "a">>), Folder(<<"a", " ", "b">>)}, {File(<<"a", "'">>)}}

(* The parts that do not run stay in one of their initial states.          *)
MCInit == /\ part \in Parts
          /\ ShInit /\ LeInit /\ CoInit
          /\ (part # "editor" => ~gl_vi_preferred)
          /\ IF part = "tab" THEN TRUE ELSE line = <<>> /\ quoting = 1 /\ files = {File(<<"a">>)}
MCNext == \/ part = "loop" /\ ShNext /\ UNCHANGED <<part, levars, covars>>
          \/ part = "editor" /\ LeNext /\ UNCHANGED <<part, shvars, covars>>
          \/ part = "tab" /\ CoNext /\ UNCHANGED <<part, shvars, levars>>
MCFair == /\ MCInit /\ [][MCNext]_<<part, shvars, levars, covars>>
          /\ WF_shvars(part = "loop" /\ Program)
-----------------------------------------------------------------------------
(* The row on the screen is the line, whatever keys were pressed; the      *)
(* history holds and keeps the last lines; a search finds; and tab makes   *)
(* what the shell then takes for the name it completed (gl_getline.c,      *)
(* readln.c).                                                              *)
LineRight == /\ [](LeTypeOK /\ Shows /\ RingHolds /\ SavesLast /\ Finds)
             /\ [](CoTypeOK /\ FindsCommand /\ Resolves)
             /\ [][Completes]_covars

(* gl_getline.c on the keys that end a search: "ignore the character".     *)
KeyIgnored == [][IgnoresEnd]_levars
=============================================================================
