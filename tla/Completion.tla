------------------------------ MODULE Completion ------------------------------
(***************************************************************************)
(* Tab: how the shell completes a line, and how it then takes the line to  *)
(* pieces.  Three parts of it read the line's quotes, each on its own: the *)
(* one that looks for the command, the one that looks for the word, and    *)
(* the one that makes the arguments.                                       *)
(*                                                                         *)
(* Characters are one-letter strings; "*" stands for any that means        *)
(* something to the globbing.                                              *)
(***************************************************************************)
EXTENDS Integers, Sequences, SequencesExt, FiniteSetsExt

CONSTANTS
  Lines,    \* what may be on the line
  Sorted,   \* gCommands, in order: [name, what], what being "remote", "dirs", "local" or "none"
  Dirs      \* sets of files, [name, dir], that a directory may have

VARIABLES line, pos, quoting, files, tabs
covars == <<line, pos, quoting, files, tabs>>
NoCommand == [name |-> <<>>, what |-> "none"]
Ambiguous == [name |-> <<>>, what |-> "ambiguous"]
-----------------------------------------------------------------------------
(* MakeArgv, a character at a time.  in: what the next one is in, "" being *)
(* between the arguments.                                                  *)
NoArgs == [argv |-> <<>>, noglob |-> {}, in |-> "", used |-> 0, done |-> FALSE]
AddChar(t, c)  == [t EXCEPT !.argv = Append(Front(@), Append(Last(@), c))]
Argument(t, c) ==
  CASE c \in {" ", ";"} -> [t EXCEPT !.in = "", !.done = c = ";"]
    [] c \in {"'", "\"", "\\"} -> [t EXCEPT !.in = c]
    [] OTHER -> AddChar(t, c)
ArgChar(t0, c) ==
  LET t == [t0 EXCEPT !.used = @ + 1] IN
  CASE t0.done -> t0
    [] t.in = "" /\ c \in {" ", ";"} /\ ~t0.done -> [t EXCEPT !.done = c = ";"]
    [] t.in = "" /\ c \notin {" ", ";"} /\ ~t0.done -> Argument([t EXCEPT !.in = "a", !.argv = Append(@, <<>>)], c)
    [] t.in = "a" /\ ~t0.done -> Argument(t, c)
    [] t.in = "\\" /\ ~t0.done -> [AddChar(t, c) EXCEPT !.in = "a"]
    [] OTHER -> IF c = t.in THEN [t EXCEPT !.in = "a"]
                ELSE [AddChar(t, c) EXCEPT !.noglob = IF c = "*" THEN @ \cup {Len(t.argv)} ELSE @]
MakeArgv(text) == FoldLeft(ArgChar, NoArgs, text)
Balanced(t)    == t.in \notin {"'", "\"", "\\"}

(* CommandShell's loop: where the line's last command starts.              *)
LastCommand(text) ==
  FoldLeft(LAMBDA n, k : IF MakeArgv(SubSeq(text, n + 1, Len(text))).done
                         THEN n + MakeArgv(SubSeq(text, n + 1, Len(text))).used ELSE n,
           0, text)
-----------------------------------------------------------------------------
(* GetCommandByName: bsearch finds any that has the name for a beginning,  *)
(* and its neighbours tell whether it is the only one.                     *)
Abbreviates(key, n) == IsPrefix(key, Sorted[n].name)
GetCommandByName(key) ==
  LET exact == {n \in 1..Len(Sorted) : Sorted[n].name = key}
      canp  == {n \in 1..Len(Sorted) : Abbreviates(key, n)}
      alone(n) == ~\E m \in {n - 1, n + 1} \cap 1..Len(Sorted) : Abbreviates(key, m)
  IN IF exact # {} THEN {Sorted[n] : n \in exact}
     ELSE IF canp = {} THEN {NoCommand}
     ELSE {IF alone(n) THEN Sorted[n] ELSE Ambiguous : n \in canp}

(* FindStartOfCurrentCommand: start is where it is when the text ends.     *)
StartChar(t, c) ==
  LET n == t.n + 1 IN
  CASE t.in = "" /\ c = " " -> [t EXCEPT !.n = n, !.start = t.n, !.in = " "]
    [] t.in = " " /\ c = " " -> [t EXCEPT !.n = n]
    [] t.in = "q\\" -> [t EXCEPT !.n = n, !.in = t.q]
    [] t.in = "\\" -> [t EXCEPT !.n = n, !.in = "a"]
    [] t.in \in {"'", "\""} -> [t EXCEPT !.n = n, !.in = CASE c = "\\" -> "q\\" [] c = t.in -> "a" [] OTHER -> @]
    [] OTHER -> LET s == IF t.in \in {"", " "} THEN t.n ELSE t.start IN
                CASE c \in {"'", "\""} -> [t EXCEPT !.n = n, !.start = s, !.in = c, !.q = c]
                  [] c = "\\" -> [t EXCEPT !.n = n, !.start = s, !.in = c]
                  [] c = ";"  -> [t EXCEPT !.n = n, !.start = s, !.in = ""]
                  [] OTHER    -> [t EXCEPT !.n = n, !.start = s, !.in = "a"]
FindStartOfCurrentCommand(text) == FoldLeft(StartChar, [n |-> 0, start |-> 0, in |-> "", q |-> ""], text).start
-----------------------------------------------------------------------------
(* CompletionFunction: what to complete a word with.                       *)
HaveCommandNameOnly(text) == ~\E k \in 1..Len(text) : text[k] = " "
Names(set) == {f.name : f \in set}
What == LET cmd == SubSeq(line, FindStartOfCurrentCommand(line) + 1, Len(line)) IN
        IF HaveCommandNameOnly(cmd) THEN {"command"}
        ELSE IF MakeArgv(cmd).argv = <<>> THEN {"none"}
        ELSE {c.what : c \in GetCommandByName(MakeArgv(cmd).argv[1])}
Candidates(what, word) ==
  CASE what = "command" -> IF word = <<>> THEN {} ELSE {n \in Names(ToSet(Sorted)) : IsPrefix(word, n)}
    [] what \in {"remote", "local"} -> {n \in Names(files) : IsPrefix(word, n)}
    [] what = "dirs" -> {n \in Names({f \in files : f.dir}) : IsPrefix(word, n)}
    [] OTHER -> {}
Quoting(what) == IF what \in {"remote", "dirs"} THEN 1 ELSE quoting

(* The word at the cursor: from the open quote, else from the last blank   *)
(* outside quotes.                                                         *)
WordChar(t, c) ==
  LET n == t.n + 1 IN
  CASE c \in {"'", "\""} /\ t.q = c  -> [t EXCEPT !.n = n, !.q = "", !.from = t.space]
    [] c \in {"'", "\""} /\ t.q = "" -> [t EXCEPT !.n = n, !.q = c, !.from = n]
    [] c = " " /\ t.q = ""           -> [t EXCEPT !.n = n, !.space = n, !.from = n]
    [] OTHER -> [t EXCEPT !.n = n]
WordAt(text) == FoldLeft(WordChar, [n |-> 0, q |-> "", space |-> 0, from |-> 0], text)

Common(set) == LET one == CHOOSE n \in set : TRUE
               IN SubSeq(one, 1, Max({k \in 0..Len(one) : \A n \in set : IsPrefix(SubSeq(one, 1, k), n)}))
(* gl_filename_quote_characters has neither the quotes nor the backslash.  *)
QuoteChars == {" ", "*", ";"}
QuoteFor(add) == IF \E k \in 1..Len(add) : add[k] = "\"" THEN "'" ELSE "\""

(* gl_do_tab_completion.                                                   *)
gl_do_tab_completion(what) ==
  LET before == SubSeq(line, 1, pos)
      after  == SubSeq(line, pos + 1, Len(line))
      w      == WordAt(before)
      word   == SubSeq(line, w.from + 1, pos)
      set    == Candidates(what, word)
      one    == Cardinality(set) = 1
      add    == Common(set)
      opens  == w.q = "" /\ Quoting(what) > 0 /\ \E k \in 1..Len(add) : add[k] \in QuoteChars
      q      == IF opens THEN <<QuoteFor(add)>> ELSE IF w.q # "" THEN <<w.q>> ELSE <<>>
      slash  == \E f \in files : f.dir /\ what # "command" /\ {f.name} = set
      text   == SubSeq(line, 1, w.from) \o (IF opens THEN q ELSE <<>>) \o add
                \o (IF one THEN q \o (IF slash THEN <<"/">> ELSE <<" ">>) ELSE <<>>)
      gap    == IF ~one /\ after # <<>> /\ after[1] # " " THEN <<" ">> ELSE <<>>
  IN IF set = {} \/ (~one /\ word = <<>>) THEN [line |-> line, pos |-> pos]
     ELSE [line |-> text \o gap \o after, pos |-> Len(text)]

Tab == /\ tabs < 2 /\ tabs' = tabs + 1
       /\ \E what \in What :
            LET r == gl_do_tab_completion(what) IN line' = r.line /\ pos' = r.pos /\ quoting' = Quoting(what)
       /\ UNCHANGED files

CoInit == line \in Lines /\ pos \in 0..Len(line) /\ quoting \in {-1, 1} /\ files \in Dirs /\ tabs = 0
CoNext == Tab
CoSpec == CoInit /\ [][CoNext]_covars
-----------------------------------------------------------------------------
CoTypeOK == pos \in 0..Len(line) /\ quoting \in {-1, 1} /\ tabs \in 0..2

(* The command that is looked for completions is the one that the shell    *)
(* would carry out last, unless a backslash stands in quotes, which the    *)
(* shell does not heed there, or nothing follows the semicolon.            *)
Plain(text) == ~\E k \in 1..Len(text) : text[k] = "\\"
FindsCommand ==
  Plain(line) /\ (line # <<>> => Last(line) # ";") =>
    LET skip(n) == SubSeq(line, n + 1, Len(line)) IN
    MakeArgv(skip(FindStartOfCurrentCommand(line))).argv = MakeArgv(skip(LastCommand(line))).argv

(* A name that is short for one command only means that one.               *)
Resolves == \A k \in 0..Len(line) :
  LET key == SubSeq(line, 1, k)
      fit == {c \in ToSet(Sorted) : IsPrefix(key, c.name)}
      own == {c \in fit : c.name = key}
  IN GetCommandByName(key) = CASE own # {} -> own
                               [] own = {} /\ fit = {} -> {NoCommand}
                               [] own = {} /\ Cardinality(fit) = 1 -> fit
                               [] OTHER -> {Ambiguous}

(* Tab at the end of a line, when the word is what the shell would take it *)
(* for: if only one name will do it is then the last argument, not to be   *)
(* globbed, and the arguments before stay; else what all of them begin     *)
(* with is.  Quotes alone in a name are not quoted, nor is anything in a   *)
(* local file's before a remote file was completed once.                   *)
Args(text) == MakeArgv(SubSeq(text, LastCommand(text) + 1, Len(text)))
Quotable(n) == \A k \in 1..Len(n) : n[k] \notin {"'", "\"", "\\"}
Completes ==
  LET w == WordAt(line)
      word == SubSeq(line, w.from + 1, Len(line))
      old  == IF word = <<>> /\ w.q = "" THEN Append(Args(line).argv, <<>>) ELSE Args(line).argv
  IN /\ pos = Len(line) /\ Plain(line) /\ Args(line).argv # <<>> /\ Last(old) = word
     /\ line' # line /\ (\A f \in files : Quotable(f.name)) /\ quoting' = 1
     => \E what \in What :
          LET set == Candidates(what, word)
              one == Cardinality(set) = 1
              name == IF one /\ \E f \in files : f.dir /\ f.name \in set /\ what # "command"
                      THEN Append(Common(set), "/") ELSE Common(set)
          IN /\ Args(line').argv = Append(Front(old), name)
             /\ one => Balanced(Args(line')) /\ ((\E k \in 1..Len(name) : name[k] = "*") => Len(old) \in Args(line').noglob)
=============================================================================
