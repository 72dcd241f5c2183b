------------------------------ MODULE LineEditor ------------------------------
(***************************************************************************)
(* The shell's line editor: the line, what of it is on the screen, the     *)
(* kill buffer, vi's commands, the ring of earlier lines and the search in *)
(* it.  One step handles one key; gl_fixup brings the screen up to date    *)
(* with the characters and backspaces it thinks will do.                   *)
(***************************************************************************)
EXTENDS Integers, Sequences, SequencesExt, FiniteSetsExt

CONSTANTS
  Chars,       \* printing characters, a blank among them
  TermW,       \* gl_termw
  Prompt,      \* gl_prompt
  BufSize,     \* GL_BUF_SIZE
  KillSize,    \* sizeof(gl_killbuf)
  HIST_SIZE,   \* entries in the ring, one of them unused
  Files,       \* what the history file may hold: sequences of lines
  MaxSearch,   \* bound: characters looked for
  MaxKeys      \* bound: keys pressed

Nul == "" \* ends the text in gl_buf
Blank == " "
Ask   == <<"?", Blank>>
LineEnd   == BufSize

VARIABLES
  gl,           \* the line and the screen: gl_buf, gl_pos, gl_cnt, gl_killbuf, gl_fixup's gl_shift,
                \* off_left, off_right and last_prompt, and the terminal's row and column;
                \* joined, history: vi's r wrote over the end since the row was drawn
  gl_overwrite,
  gl_vi_preferred,
  vi,           \* gl_vi_mode, vi_count, vi_countbuf, vi_delete
  search,       \* gl_search_mode, search_string, search_last, search_forw_flg; bitten: see ZeroKey
  hist,         \* hist_buf, hist_pos, hist_last
  entered,      \* history: the lines that were to be kept, the same one twice in a row only once
  saved,        \* the history file
  at,           \* "line", "eof"
  keys          \* keys pressed
levars == <<gl, gl_overwrite, gl_vi_preferred, vi, search, hist, entered, saved, at, keys>>

Strlen(b)    == Min({i \in DOMAIN b : b[i] = Nul})
Part(b, i, j) == [k \in 1..Max({0, j - i}) |-> b[i + k - 1]]
Text(b)      == Part(b, 0, Strlen(b))
Strcpy(b, s) == [i \in DOMAIN b |-> IF i < Len(s) THEN s[i + 1] ELSE IF i = Len(s) THEN Nul ELSE b[i]]
Blanks(n)    == [k \in 1..n |-> Blank]

Puts(g, s)    == [g EXCEPT !.col = @ + Len(s),
                           !.row = [c \in DOMAIN @ |-> IF c >= g.col /\ c < g.col + Len(s)
                                                       THEN s[c - g.col + 1] ELSE @[c]]]
Backs(g, n)   == [g EXCEPT !.col = Max({0, @ - Max({0, n})})]
-----------------------------------------------------------------------------
(* gl_fixup, with gl_scroll 1 as gl_setwidth has it.  change: where the    *)
(* text begins to differ, -1 nowhere, -2 on a new row.  First the prompt.  *)
Anew(g, prompt, change) == change = -2 \/ prompt # g.last
Prompted(g, prompt, change) ==
  CASE change = -2 ->
         Puts([g EXCEPT !.pos = 0, !.cnt = 0, !.shift = 0, !.left = FALSE, !.right = FALSE,
                        !.last = prompt, !.col = 0, !.joined = FALSE], prompt)
    [] change # -2 /\ prompt # g.last ->
         Puts([g EXCEPT !.cnt = @ + Len(g.last) - Len(prompt), !.pos = g.shift, !.last = prompt, !.col = 0], prompt)
    [] OTHER -> g

(* What is to be seen: of the text before, g, and of the one now.          *)
Shifted(g, width, cnt, cur, chg) ==
  LET extra == IF g.right \/ (g.left /\ cur < g.shift + width) THEN 2 ELSE 0
  IN [width |-> width, cnt |-> cnt, cur |-> cur, chg |-> chg, shift |-> Max({0, cur + extra + 1 - width})]
View(g, width, cnt, cursor, chg) == Shifted(g, width, cnt, Max({0, Min({cursor, cnt})}), Min({chg, cnt}))

(* Which of it is written, from the place that has changed or all of it,   *)
(* with dollars for what there is no room for.                             *)
Edges(g, v, moved) ==
  [right |-> IF moved \/ v.chg >= 0 THEN v.cnt > v.shift + v.width - 1 ELSE g.right,
   left  |-> IF moved THEN v.shift > 0 ELSE g.left]
Bounds(g, v, e, moved, extent) ==
  LET edge == moved \/ v.chg < v.shift + (IF e.left THEN 1 ELSE 0)
      from == IF edge THEN v.shift ELSE v.chg
      to   == IF e.right THEN v.shift + v.width - 2 ELSE v.cnt
  IN [from |-> from, to |-> to, stop |-> IF ~moved /\ extent > 0 THEN Min({to, from + extent}) ELSE to,
      back |-> g.pos - (IF edge THEN g.shift ELSE v.chg),
      pad  |-> Max({0, (IF g.right THEN v.width - 1 ELSE g.cnt - g.shift)
                       - (IF e.right THEN v.width - 1 ELSE v.cnt - v.shift)})]
Written(g, v, e, b) ==
  LET mark  == b.from = v.shift /\ e.left
      more  == e.right /\ b.stop = b.to
      drawn == (IF mark THEN <<"$">> ELSE <<>>) \o Part(g.buf, b.from + (IF mark THEN 1 ELSE 0), b.stop)
               \o (IF more THEN <<"$">> ELSE Blanks(b.pad))
  IN [Puts(Backs(g, b.back), drawn) EXCEPT !.pos = b.stop + (IF more THEN 1 ELSE b.pad)]

(* Last the cursor.                                                        *)
Placed(d, v, e) ==
  [(IF d.pos > v.cur THEN Backs(d, d.pos - v.cur) ELSE Puts(d, Part(d.buf, d.pos, v.cur)))
   EXCEPT !.pos = v.cur, !.cnt = v.cnt, !.shift = v.shift, !.left = e.left, !.right = e.right]
Drawn(g, v, e, b, moved) == Placed(IF (moved \/ v.chg >= 0) /\ b.from <= b.to THEN Written(g, v, e, b) ELSE g, v, e)
Edged(g, v, e, moved, extent) == Drawn(g, v, e, Bounds(g, v, e, moved, extent), moved)
Redrawn(g, v, moved, extent)  == Edged(g, v, Edges(g, v, moved), moved, extent)
Viewed(g, v, extent)          == Redrawn(g, v, v.shift # g.shift, extent)
Fixed(g, prompt, change, cursor, extent) ==
  Viewed(g, View(g, TermW - Len(prompt), IF change >= 0 THEN Strlen(g.buf) ELSE g.cnt, cursor, change), extent)
gl_fixup(g, prompt, change, cursor, extent) ==
  Fixed(Prompted(g, prompt, change), prompt, IF Anew(g, prompt, change) THEN 0 ELSE change, cursor, extent)

Goto(g, to)   == gl_fixup(g, Prompt, -1, to, 0)
Fix(g, b, chg, to) == gl_fixup([g EXCEPT !.buf = b], Prompt, chg, to, 0)
-----------------------------------------------------------------------------
(* The editing operations.                                                 *)
Inserted(g, s) == [i \in DOMAIN g.buf |-> IF i < g.pos \/ i > g.cnt + Len(s) THEN g.buf[i]
                                          ELSE IF i < g.pos + Len(s) THEN s[i - g.pos + 1]
                                          ELSE g.buf[i - Len(s)]]
Over(g, s) == [i \in DOMAIN g.buf |-> IF i >= g.pos /\ i < g.pos + Len(s) THEN s[i - g.pos + 1]
                                      ELSE IF i = g.pos + Len(s) /\ i > g.cnt THEN Nul ELSE g.buf[i]]
gl_error(g) == [g EXCEPT !.err = TRUE]

gl_addchar(g, c) ==
  IF g.cnt >= BufSize - 1 THEN gl_error(g)
  ELSE IF ~gl_overwrite \/ g.pos = g.cnt THEN Fix(g, Inserted(g, <<c>>), g.pos, g.pos + 1)
  ELSE gl_fixup([g EXCEPT !.buf[g.pos] = c], Prompt, g.pos, g.pos + 1, 1)

YankTooLong(g) == LET n == Len(g.kill) IN
                  IF ~gl_overwrite THEN g.cnt + n >= BufSize - 1
                  ELSE g.pos + n > g.cnt /\ g.pos + n >= BufSize - 1
gl_yank(g) ==
  IF g.kill = <<>> THEN g
  ELSE IF YankTooLong(g) THEN gl_error(g)
  ELSE IF ~gl_overwrite THEN Fix(g, Inserted(g, g.kill), g.pos, g.pos + Len(g.kill))
  ELSE gl_fixup([g EXCEPT !.buf = Over(g, g.kill)], Prompt, g.pos, g.pos + Len(g.kill), Len(g.kill))

gl_transpose(g) ==
  IF g.pos = 0 \/ g.pos >= g.cnt THEN g
  ELSE gl_fixup([g EXCEPT !.buf[g.pos - 1] = g.buf[g.pos], !.buf[g.pos] = g.buf[g.pos - 1]],
                Prompt, g.pos - 1, g.pos, 2)

Without(g, at0) == [i \in DOMAIN g.buf |-> IF i >= at0 /\ i < g.cnt THEN g.buf[i + 1] ELSE g.buf[i]]
(* A defect to be caught: it is redrawn from one character on.             *)
gl_delLate(g, loc, killsave, vimode) ==
  IF (loc = -1 /\ g.pos > 0) \/ (loc = 0 /\ g.pos < g.cnt)
  THEN Fix([g EXCEPT !.kill = IF killsave /\ vimode THEN <<g.buf[g.pos + loc]>> ELSE @],
           Without(g, g.pos + loc), g.pos + loc + 1, g.pos + loc)
  ELSE g

gl_del(g, loc, killsave, vimode) ==
  IF (loc = -1 /\ g.pos > 0) \/ (loc = 0 /\ g.pos < g.cnt)
  THEN Fix([g EXCEPT !.kill = IF killsave /\ vimode THEN <<g.buf[g.pos + loc]>> ELSE @],
           Without(g, g.pos + loc), g.pos + loc, g.pos + loc)
  ELSE g

gl_kill(g, from) ==
  IF from < g.cnt /\ g.cnt - from < KillSize
  THEN Fix([g EXCEPT !.kill = Part(g.buf, from, g.cnt)], [g.buf EXCEPT ![from] = Nul], from, from)
  ELSE g

IsSpace(g, i) == g.buf[i] = Blank
WordEnd(g) ==
  LET gap == Min({g.cnt} \cup {i \in g.pos..g.cnt : IsSpace(g, i)})
  IN Min({g.cnt} \cup {i \in gap..g.cnt : ~IsSpace(g, i)})
WordStart(g) ==
  LET in  == Max({0} \cup {i \in 1..g.pos - 1 : ~IsSpace(g, i)})
      gap == Max({0} \cup {i \in 0..in : IsSpace(g, i)})
  IN IF gap < g.cnt /\ IsSpace(g, gap) THEN gap + 1 ELSE gap
gl_word(g, direction) == Goto(g, IF direction > 0 THEN WordEnd(g) ELSE WordStart(g))

(* With nothing to kill it looks at the byte before gl_killbuf.            *)
gl_killword(g, direction) ==
  LET from == Min({g.pos, IF direction > 0 THEN WordEnd(g) ELSE WordStart(g)})
      to   == Max({g.pos, IF direction > 0 THEN WordEnd(g) ELSE WordStart(g)})
      word == Part(g.buf, from, to)
      kept == IF word # <<>> /\ Last(word) = Blank THEN Front(word) ELSE word
  IN IF Len(word) >= KillSize THEN g
     ELSE FoldLeft(LAMBDA h, k : gl_del(h, 0, FALSE, FALSE), Goto([g EXCEPT !.kill = kept], from), word)
-----------------------------------------------------------------------------
(* The ring.                                                               *)
Step(i, by) == (i + by) % HIST_SIZE
IsBlank(s)  == \A k \in 1..Len(s) : s[k] = Blank
NoElem  == [there |-> FALSE, line |-> <<>>]
Elem(s) == [there |-> TRUE, line |-> s]
NoHist  == [buf |-> [i \in 0..HIST_SIZE - 1 |-> IF i = 0 THEN Elem(<<>>) ELSE NoElem], pos |-> 0, last |-> 0]

gl_histadd(h, lines, s) ==
  IF IsBlank(s) \/ (lines # <<>> /\ Last(lines) = s) THEN [h EXCEPT !.pos = h.last]
  ELSE LET next == Step(h.last, 1)
       IN [buf |-> [h.buf EXCEPT ![h.last] = Elem(s), ![next] = Elem(<<>>)], pos |-> next, last |-> next]
Kept(lines, s) == IF IsBlank(s) \/ (lines # <<>> /\ Last(lines) = s) THEN lines ELSE Append(lines, s)

hist_prev(h) == LET next == Step(h.pos, HIST_SIZE - 1)
                IN IF h.buf[h.pos].there /\ next # h.last THEN [h EXCEPT !.pos = next] ELSE h
PrevLine(h)  == IF hist_prev(h) = h THEN <<>> ELSE hist_prev(h).buf[hist_prev(h).pos].line
hist_next(h) == IF h.pos # h.last THEN [h EXCEPT !.pos = Step(@, 1)] ELSE h
NextLine(h)  == IF h.pos = h.last THEN <<>> ELSE hist_next(h).buf[hist_next(h).pos].line

gl_histsavefile(h) ==
  SelectSeq([k \in 1..HIST_SIZE - 2 |-> h.buf[Step(h.pos, k + 1)].line], LAMBDA s : s # <<>>)
-----------------------------------------------------------------------------
(* The search: what is typed is looked for in the line, then in earlier    *)
(* ones, or later ones after ^S.                                           *)
Begins(s, t) == {i \in 0..Len(s) - Len(t) : SubSeq(s, i + 1, i + Len(t)) = t}
NoSearch == [mode |-> FALSE, string |-> <<>>, last |-> 0, forw |-> FALSE, astray |-> FALSE]
search_prompt(str) == str \o Ask
Seek(h, str, forw) ==
  FoldLeft(LAMBDA a, k : IF a.done THEN a
                         ELSE LET p == IF forw THEN NextLine(a.hist) ELSE PrevLine(a.hist) IN
                              [hist |-> IF forw THEN hist_next(a.hist) ELSE hist_prev(a.hist),
                               line |-> p, done |-> p = <<>> \/ Begins(p, str) # {}],
           [hist |-> h, line |-> <<>>, done |-> FALSE], Blanks(HIST_SIZE + 1))

Asked(g, str, line, to) == gl_fixup([g EXCEPT !.buf = Strcpy(@, line)], search_prompt(str), 0, to, 0)

search_to(x, forw, new) ==
  LET str == x.search.string IN
  CASE ~x.search.mode ->
         [gl |-> Asked(x.gl, <<>>, <<>>, 0), hist |-> [x.hist EXCEPT !.pos = x.hist.last],
          search |-> [NoSearch EXCEPT !.mode = TRUE, !.last = x.hist.last, !.forw = forw]]
    [] x.search.mode /\ str # <<>> ->
         LET a == Seek(x.hist, str, forw) IN
         [gl |-> Asked(x.gl, str, a.line, Min({Len(a.line)} \cup Begins(a.line, str))), hist |-> a.hist,
          search |-> [x.search EXCEPT !.forw = forw, !.last = IF new /\ a.line # <<>> THEN a.hist.pos ELSE @]]
    [] OTHER -> [x EXCEPT !.search.forw = forw]

Look(x) ==
  LET str == x.search.string
      in  == Begins(Text(x.gl.buf), str)
  IN IF in # {} THEN [x EXCEPT !.gl = gl_fixup(@, search_prompt(str), 0, Min(in), 0)]
     ELSE search_to(x, x.search.forw, FALSE)
Here == [gl |-> gl, hist |-> hist, search |-> [search EXCEPT !.astray = FALSE]]
search_addchar(c) == Look([Here EXCEPT !.search.string = Append(@, c)])
search_unwind ==
  LET str == IF search.string = <<>> THEN <<>> ELSE Front(search.string)
      h   == [hist EXCEPT !.pos = IF str # <<>> THEN search.last ELSE hist.last]
  IN Look([gl |-> [gl EXCEPT !.buf = Strcpy(@, h.buf[h.pos].line)], hist |-> h,
           search |-> [Here.search EXCEPT !.string = str]])

(* What search_term leaves, when another key ends the search.              *)
Term  == IF search.mode THEN gl_fixup(gl, Prompt, 0, gl.pos, 0) ELSE gl
TermHist == IF search.mode /\ Strlen(gl.buf) = 0 THEN [hist EXCEPT !.pos = hist.last] ELSE hist
-----------------------------------------------------------------------------
(* A key.                                                                  *)
Key == at = "line" /\ keys < MaxKeys /\ keys' = keys + 1
Stays == at' = (IF gl'.err THEN "error" ELSE "line") /\ UNCHANGED <<gl_vi_preferred, entered, saved>>
Fresh(g) == [g EXCEPT !.row = [c \in DOMAIN @ |-> Blank]]
Start(g) == gl_fixup([Fresh(g) EXCEPT !.buf[0] = Nul, !.kill = <<>>], Prompt, -2, LineEnd, 0)
NoVi == [mode |-> FALSE, count |-> 0, typed |-> 0, delete |-> FALSE]

Control(g) == /\ Key /\ gl' = g /\ hist' = TermHist /\ search' = NoSearch
              /\ UNCHANGED <<gl_overwrite, vi>> /\ Stays

Printing == /\ Key /\ ~vi.mode /\ (search.mode => Len(search.string) < MaxSearch)
            /\ \E c \in Chars :
                 LET x == IF search.mode THEN search_addchar(c) ELSE [Here EXCEPT !.gl = gl_addchar(gl, c)]
                 IN gl' = x.gl /\ hist' = x.hist /\ search' = x.search
            /\ UNCHANGED <<gl_overwrite, vi>> /\ Stays

Moving   == \E to \in {0, Term.pos - 1, Term.cnt, Term.pos + 1} : Control(Goto(Term, to))
Deleting == Term.cnt > 0 /\ Control(gl_del(Term, 0, TRUE, vi.mode))
RubOut   == ~search.mode /\ Control(gl_del(gl, -1, FALSE, vi.mode))
Killing  == Control(gl_kill(Term, Term.pos)) \/ Control(gl_kill(Term, 0)) \/ Control(gl_killword(Term, -1))
Yanking  == Control(gl_yank(Term))
Swapping == Control(gl_transpose(Term))
Redraw   == Control(gl_fixup(Fresh(Term), Prompt, -2, Term.pos, 0))
Words    == ~search.mode /\ ~gl_vi_preferred /\ \E d \in {-1, 1} : Control(gl_word(gl, d))
Recall   == /\ Key /\ ~search.mode
            /\ \/ hist' = hist_prev(hist) /\ gl' = Fix(gl, Strcpy(gl.buf, PrevLine(hist)), 0, LineEnd)
               \/ hist' = hist_next(hist) /\ gl' = Fix(gl, Strcpy(gl.buf, NextLine(hist)), 0, LineEnd)
            /\ UNCHANGED <<gl_overwrite, vi, search>> /\ Stays
Searching == /\ Key
             /\ \E forw \in BOOLEAN : LET x == search_to(Here, forw, TRUE) IN
                  gl' = x.gl /\ hist' = x.hist /\ search' = x.search
             /\ UNCHANGED <<gl_overwrite, vi>> /\ Stays
Toggle   == /\ Key /\ gl' = Term /\ hist' = TermHist /\ search' = NoSearch
            /\ gl_overwrite' = ~gl_overwrite /\ UNCHANGED vi /\ Stays

EndInput(h) == at' = "eof" /\ saved' = gl_histsavefile(h) /\ hist' = h

(* The keys that gl_getline turns into 0, to ignore them: escape, ^N and   *)
(* ^P end the search, backspace unwinds it.  The case for 0 is ^D's.       *)
ZeroKey(x) ==
  /\ Key /\ search' = [x.search EXCEPT !.astray = TRUE]
  /\ IF x.gl.cnt = 0 THEN gl' = [x.gl EXCEPT !.buf[0] = Nul] /\ EndInput(x.hist)
     ELSE gl' = gl_del(x.gl, 0, TRUE, vi.mode) /\ hist' = x.hist /\ at' = "line" /\ UNCHANGED saved
  /\ UNCHANGED <<gl_overwrite, gl_vi_preferred, vi, entered>>
EndsSearch == search.mode /\ ZeroKey([gl |-> Term, hist |-> TermHist, search |-> NoSearch])
Unwinds    == search.mode /\ ZeroKey(search_unwind)
EndOfFile  == /\ Term.cnt = 0 /\ Key /\ gl' = Term /\ EndInput(TermHist)
              /\ UNCHANGED <<gl_overwrite, gl_vi_preferred, vi, search, entered>>

(* The line is read, remembered, carried out, and the next one asked for,  *)
(* unless it was to quit.                                                  *)
Newline ==
  LET line == Text(Term.buf)
      g    == [Term EXCEPT !.buf = [i \in DOMAIN @ |-> IF i \in Len(line)..Len(line) + 1 THEN Nul ELSE @[i]]]
      h    == IF line = <<>> THEN TermHist ELSE gl_histadd(TermHist, entered, line)
  IN /\ Key /\ search' = NoSearch /\ vi' = NoVi /\ UNCHANGED <<gl_overwrite, gl_vi_preferred>>
     /\ IF Term.cnt >= BufSize - 1
        THEN gl' = gl_error(Term) /\ hist' = TermHist /\ at' = "error" /\ UNCHANGED <<entered, saved>>
        ELSE /\ gl' = Start(g) /\ entered' = Kept(entered, line)
             /\ \/ at' = "line" /\ hist' = h /\ UNCHANGED saved
                \/ line # <<>> /\ EndInput(h)

(* ^C, or ^Z: the line is dropped.                                         *)
Interrupt == /\ Key /\ gl' = Start(Term) /\ hist' = TermHist /\ search' = NoSearch /\ vi' = NoVi
             /\ UNCHANGED gl_overwrite /\ Stays
-----------------------------------------------------------------------------
(* vi's commands.  v: the line, the ring, gl_overwrite and vi.             *)
ViOnce(v, c) ==
  LET g == v.gl
      Off(over) == [v EXCEPT !.vi.mode = FALSE, !.over = over]
  IN CASE c = "b" -> [v EXCEPT !.gl = gl_word(g, -1)]
       [] c = "w" -> [v EXCEPT !.gl = IF v.vi.delete THEN gl_killword(g, 1) ELSE gl_word(g, 1)]
       [] c = "h" -> [v EXCEPT !.gl = IF ~v.vi.delete THEN Goto(g, g.pos - 1) ELSE IF g.pos = 0 THEN g
                                      ELSE gl_del(Goto(g, g.pos - 1), 0, TRUE, v.vi.mode)]
       [] c = "l" -> [v EXCEPT !.gl = IF v.vi.delete THEN gl_del(g, 0, TRUE, v.vi.mode) ELSE Goto(g, g.pos + 1)]
       [] c = "k" -> [v EXCEPT !.gl = Fix(g, Strcpy(g.buf, PrevLine(v.hist)), 0, LineEnd), !.hist = hist_prev(@)]
       [] c = "j" -> [v EXCEPT !.gl = Fix(g, Strcpy(g.buf, NextLine(v.hist)), 0, LineEnd), !.hist = hist_next(@)]
       [] c = "$" -> [v EXCEPT !.gl = IF v.vi.delete THEN gl_kill(g, g.pos)
                                      ELSE Goto(g, IF Strlen(g.buf) > 1 THEN Strlen(g.buf) - 1 ELSE Strlen(g.buf))]
       [] c = "p" -> [v EXCEPT !.gl = gl_yank(Goto(g, g.pos + 1))]
       [] c = "P" -> [v EXCEPT !.gl = gl_yank(g)]
       [] c = "R" -> Off(TRUE)
       [] c = "i" -> Off(FALSE)
       [] c = "a" -> [Off(FALSE) EXCEPT !.gl = Goto(g, g.pos + 1)]

ToStart(g, deleting) ==
  IF ~deleting THEN Goto(g, 0)
  ELSE FoldLeft(LAMBDA h, k : IF h.cnt > 0 THEN gl_del(h, 0, FALSE, TRUE) ELSE h, Goto(g, 0), Blanks(g.pos))

Reset(v) == [v EXCEPT !.vi.count = 1, !.vi.typed = 0, !.vi.delete = FALSE]
Times(v) == IF v.vi.typed > 0 THEN v.vi.typed ELSE Max({1, v.vi.count})

Vi(v, c) ==
  CASE c \in {"b", "w", "h", "l", "k", "j", "$", "p", "P", "R", "i", "a"} ->
         Reset(FoldLeft(LAMBDA u, k : ViOnce(u, c), v, Blanks(Times(v))))
    [] c = "^" -> Reset(IF v.vi.delete THEN [v EXCEPT !.gl = ToStart(@, TRUE)] ELSE [v EXCEPT !.gl = ToStart(@, FALSE)])
    [] c = "2" -> [Reset(v) EXCEPT !.vi.typed = 2]
    [] c = "d" -> IF v.vi.delete
                  THEN [v EXCEPT !.gl = gl_kill(@, 0), !.vi.count = 1, !.vi.typed = 0, !.vi.delete = FALSE, !.vi.mode = FALSE]
                  ELSE [v EXCEPT !.vi.delete = TRUE, !.vi.count = Times(v), !.vi.typed = 0]
(* What is written over the end of the text joins it to what follows; that *)
(* the buffer's last byte is written over, and nothing ends the text, is   *)
(* left out.                                                               *)
Replaced(v, x) == Reset([v EXCEPT !.gl = [Fix(@, [@.buf EXCEPT ![v.gl.pos] = x], @.pos, @.pos)
                                          EXCEPT !.joined = @ \/ v.gl.pos = v.gl.cnt]])

ViKeys == {"b", "w", "h", "l", "k", "j", "$", "p", "P", "R", "i", "a", "^", "2", "d"}
V(g, w) == [gl |-> g, hist |-> hist, over |-> gl_overwrite, vi |-> w]
Vied(v) == /\ gl' = v.gl /\ hist' = v.hist /\ gl_overwrite' = v.over /\ vi' = v.vi
           /\ search' = [search EXCEPT !.astray = TRUE]
Commands(v) == \/ \E c \in ViKeys : (c = "2" => v.vi.typed = 0 /\ v.vi.count <= 1) /\ Vied(Vi(v, c))
               \/ v.gl.pos < BufSize - 1 /\ \E x \in Chars : Vied(Replaced(v, x))
ViCommand == Key /\ vi.mode /\ Commands(V(gl, vi)) /\ Stays
(* Escape and a command: vi's mode.                                        *)
Escape == /\ Key /\ ~search.mode /\ ~vi.mode
          /\ LET g == IF gl.pos > 0 THEN gl_fixup(gl, Prompt, -2, gl.pos - 1, 0) ELSE gl
                 w == [NoVi EXCEPT !.mode = TRUE, !.count = 1]
             IN IF gl.cnt > 0 \/ gl_vi_preferred THEN Commands(V(g, w))
                ELSE gl' = g /\ vi' = [w EXCEPT !.mode = FALSE] /\ UNCHANGED <<hist, gl_overwrite, search>>
          /\ Stays

Loaded(file) == FoldLeft(LAMBDA a, s : [hist |-> gl_histadd(a.hist, a.lines, s), lines |-> Kept(a.lines, s)],
                         [hist |-> NoHist, lines |-> <<>>], file)
NoLine == [buf |-> [i \in 0..BufSize - 1 |-> Nul], pos |-> 0, cnt |-> 0, kill |-> <<>>, shift |-> 0,
           left |-> FALSE, right |-> FALSE, last |-> <<>>, err |-> FALSE, joined |-> FALSE,
           row |-> [c \in 0..TermW |-> Blank], col |-> 0]
LeInit == /\ \E f \in Files : hist = Loaded(f).hist /\ entered = Loaded(f).lines
          /\ gl = Start(NoLine) /\ gl_overwrite = FALSE /\ gl_vi_preferred \in BOOLEAN
          /\ vi = NoVi /\ search = NoSearch /\ saved = <<>> /\ at = "line" /\ keys = 0
LeNext == \/ Printing \/ Moving \/ Deleting \/ RubOut \/ Killing \/ Yanking \/ Swapping \/ Redraw \/ Words
          \/ Recall \/ Searching \/ Toggle \/ EndsSearch \/ Unwinds \/ EndOfFile \/ Newline \/ Interrupt
          \/ ViCommand \/ Escape
LeSpec == LeInit /\ [][LeNext]_levars
-----------------------------------------------------------------------------
(* The line's length is what it is thought to be, and the cursor in it.    *)
LeTypeOK == /\ at = "line" => gl.cnt = Strlen(gl.buf) /\ gl.pos \in 0..gl.cnt
            /\ gl.col \in 0..TermW - 1 /\ hist.pos \in 0..HIST_SIZE - 1 /\ hist.last \in 0..HIST_SIZE - 1
            /\ Len(gl.kill) < KillSize

(* The row shows the prompt and as much of the line as there is room for,  *)
(* a dollar where there is more, nothing of what was there before, and the *)
(* cursor is on the character that typing would change.                    *)
Window(j) ==
  LET width == TermW - Len(gl.last)
      more  == gl.cnt > gl.shift + width - 1
  IN CASE j = 0 /\ gl.shift > 0 -> "$"
       [] j = width - 2 /\ more -> "$"
       [] j = width - 1 -> Blank
       [] OTHER -> IF gl.shift + j < gl.cnt THEN gl.buf[gl.shift + j] ELSE Blank
Shows == at = "line" /\ ~gl.joined =>
  /\ \A c \in 0..TermW - 1 : gl.row[c] = IF c < Len(gl.last) THEN gl.last[c + 1] ELSE Window(c - Len(gl.last))
  /\ gl.col = Len(gl.last) + gl.pos - gl.shift

(* The ring holds the last lines entered, and a line recalled is the one   *)
(* before or after.                                                        *)
RingHolds == \A k \in 1..Min({Len(entered), HIST_SIZE - 1}) :
               hist.buf[Step(hist.last, HIST_SIZE - k)] = Elem(entered[Len(entered) + 1 - k])

(* The history file gets the last lines, but for one, in order, when the   *)
(* one that was last recalled is not still being looked at.                *)
SavesLast == at = "eof" /\ hist.pos = hist.last =>
               LET n == Min({Len(entered), HIST_SIZE - 2}) IN saved = SubSeq(entered, Len(entered) - n + 1, Len(entered))

(* While a search goes on the line has what is looked for, or is empty.    *)
Finds == search.mode /\ ~search.astray /\ at = "line" =>
           gl.cnt = 0 \/ gl.pos \in Begins(Text(gl.buf), search.string)

(* "ignore the character": what ends a search changes nothing else.        *)
IgnoresEnd == EndsSearch => at' = "line" /\ Text(gl'.buf) = Text(gl.buf)
=============================================================================
