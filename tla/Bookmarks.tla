------------------------------ MODULE Bookmarks ------------------------------
(***************************************************************************)
(* The bookmarks file, which shells write one bookmark at a time, copying  *)
(* the rest, and the bookmark editor as the whole table it once read, each *)
(* through a file of its own that then takes the other's place.  Nothing   *)
(* locks it: "There is still a possibility that two different processes    *)
(* could be modifying the file at the same time", and between the removal  *)
(* of the one file and the renaming of the other there is none.            *)
(***************************************************************************)
EXTENDS Integers, Sequences, FiniteSets, FiniteSetsExt

CONSTANTS
  Shells,     \* ncftp processes
  Editor,     \* the ncftpbookmarks process
  Names,      \* bookmark names, tens: a copy's is one more, and sorts after it
  Starts,     \* what there is at first: [file, old], old under the name that version 1 used
  PageSize,   \* gHostListPageSize
  MaxSaves,   \* bound: files written
  MaxEntries  \* bound: bookmarks the editor lets there be

Procs     == Shells \cup {Editor}
Untitled  == 0
Blank     == 2  \* the name of the entry after the table's last, which is all zeros
Dead      == -1 \* of one that is deleted
CopyOf(n) == n + 1
NoFile    == [there |-> FALSE, lines |-> <<>>]
File(l)   == [there |-> TRUE, lines |-> l]
NoJob     == [names |-> {}, by |-> 0]

Entries == [name : Nat, by : Nat, long : BOOLEAN, torn : BOOLEAN]
Files   == [there : BOOLEAN, lines : Seq(Entries)]

(* What is assumed of the constants: the window has two rows.              *)
BkAssumption ==
  /\ Editor \notin Shells /\ Names \subseteq Nat
  /\ PageSize \in Nat /\ PageSize >= 2
  /\ \A s \in Starts : \A f \in {s.file, s.old} : f \in Files /\ (f.there \/ f = NoFile)

VARIABLES
  file, old,        \* the bookmarks file and the old one
  tmp,              \* process -> the lines of its temporary file
  saves,            \* files written: says which entry is which
  at,               \* process -> what it does: "idle", "written", "removed", "count", "read", "gone"
  book,             \* history: the file as it was when there was one
  job,              \* history: process -> the names that its file may change, and as which entry
  fresh,            \* history: process -> nobody has changed the file since it read it
  spoiled,          \* history: process -> "migrated": took the old file for none, "torn": split a
                    \* long line, "halfway": went on with its file closed
  orphaned,         \* history: a process died between removal and renaming
  gBookmarkTable,   \* the editor's table
  nb,               \* entries counted in the file before the table is read
  gHilitedHost, gHostListWinStart, \* the row that is marked, the first one in the window, from 0
  selected,         \* gCurHostListItem # NULL
  adrift,           \* history: what was deleted has left the window hanging past the end
  goal              \* what is to be marked after the table was read again
bkvars == <<file, old, tmp, saves, at, book, job, fresh, spoiled, orphaned,
            gBookmarkTable, nb, gHilitedHost, gHostListWinStart, selected, adrift, goal>>
edvars == <<gBookmarkTable, nb, gHilitedHost, gHostListWinStart, selected, adrift, goal>>

Entry(n, long) == [name |-> n, by |-> saves, long |-> long, torn |-> FALSE]
NamesIn(lines) == {lines[k].name : k \in 1..Len(lines)}
gNumBookmarks  == Len(gBookmarkTable)
Others(p)      == [q \in Procs |-> IF q = p THEN fresh[q] ELSE FALSE]
-----------------------------------------------------------------------------
(* OpenBookmarkFile.  If there is only the old file, it is renamed, but    *)
(* the answer is that there is none.                                       *)
Migrates == ~file.there /\ old.there
OpenBookmarkFile == IF Migrates THEN file' = old /\ old' = NoFile ELSE UNCHANGED <<file, old>>

(* GetBookmark: the bookmark of that name, else the last one that has a    *)
(* longer name.                                                            *)
GetBookmark(key, lines) ==
  LET exact == {k \in 1..Len(lines) : lines[k].name = key}
      abbr  == {k \in 1..Len(lines) : lines[k].name = CopyOf(key)}
  IN IF exact # {} THEN <<lines[Min(exact)]>> ELSE IF abbr # {} THEN <<lines[Max(abbr)]>> ELSE <<>>

(* PutBookmark's copy, in which a line that its buffer cannot hold becomes *)
(* two.                                                                    *)
Copied(e) == [name |-> e.name, by |-> e.by, long |-> FALSE, torn |-> e.torn \/ e.long]

With(lines, e) ==
  LET copy == [j \in 1..Len(lines) |-> IF lines[j].name = e.name THEN e ELSE Copied(lines[j])]
  IN IF e.name \in NamesIn(lines) THEN copy ELSE Append(copy, e)

Writes(p, lines, names) ==
  /\ tmp' = [tmp EXCEPT ![p] = lines]
  /\ job' = [job EXCEPT ![p] = [names |-> names, by |-> saves]]
  /\ saves' = saves + 1

(* PutBookmark as far as SwapBookmarkFiles; a line that cannot be written  *)
(* ends it, except the replaced entry's, after which it goes on with the   *)
(* file closed, whatever comes of that.                                    *)
PutBookmark(p) ==
  /\ at[p] = "idle" /\ saves < MaxSaves
  /\ OpenBookmarkFile
  /\ \E n \in Names :
       LET lines == file.lines
           old0  == IF Migrates THEN {"migrated"} ELSE {}
           long0 == IF \E k \in 1..Len(lines) : lines[k].long /\ lines[k].name # n THEN {"torn"} ELSE {}
       IN \/ /\ Writes(p, With(lines, Entry(n, FALSE)), {n})
             /\ spoiled' = [spoiled EXCEPT ![p] = old0 \cup long0]
          \/ /\ \E k \in 1..Len(lines) : /\ lines[k].name = n
                                         /\ Writes(p, [j \in 1..k - 1 |-> Copied(lines[j])], {n})
             /\ spoiled' = [spoiled EXCEPT ![p] = {"halfway"}]
  /\ fresh' = [fresh EXCEPT ![p] = file = book \/ Migrates]
  /\ at' = [at EXCEPT ![p] = "written"]
  /\ UNCHANGED <<book, orphaned, edvars>>

(* SwapBookmarkFiles.                                                      *)
(* A defect to be caught: the removal comes before the writing.            *)
RenamesLater(p) ==
  /\ at[p] = "removed"
  /\ \/ file' = File(tmp[p]) /\ at' = [at EXCEPT ![p] = IF p = Editor THEN "count" ELSE "idle"]
     \/ UNCHANGED file /\ at' = [at EXCEPT ![p] = "written"]
  /\ book' = (IF file' = file THEN book ELSE file') /\ orphaned' = FALSE /\ fresh' = Others(p)
  /\ UNCHANGED <<old, tmp, saves, job, spoiled, edvars>>

Removes(p) ==
  /\ at[p] = "written"
  /\ file' = NoFile /\ at' = [at EXCEPT ![p] = "removed"]
  /\ fresh' = Others(p)
  /\ UNCHANGED <<old, tmp, saves, book, job, spoiled, orphaned, edvars>>

Renames(p) ==
  /\ at[p] = "removed"
  /\ file' = File(tmp[p]) /\ book' = file' /\ orphaned' = FALSE
  /\ tmp' = [tmp EXCEPT ![p] = <<>>] /\ job' = [job EXCEPT ![p] = NoJob] /\ spoiled' = [spoiled EXCEPT ![p] = {}]
  /\ at' = [at EXCEPT ![p] = IF p = Editor THEN "count" ELSE "idle"]
  /\ fresh' = [Others(p) EXCEPT ![p] = p = Editor]
  /\ UNCHANGED <<old, saves, edvars>>

(* The process is killed, or gets ^C, which the editor leaves by.          *)
Dies(p) ==
  /\ at[p] \in {"written", "removed"}
  /\ at' = [at EXCEPT ![p] = "gone"]
  /\ orphaned' = (orphaned \/ at[p] = "removed")
  /\ tmp' = [tmp EXCEPT ![p] = <<>>] /\ job' = [job EXCEPT ![p] = NoJob] /\ spoiled' = [spoiled EXCEPT ![p] = {}]
  /\ UNCHANGED <<file, old, saves, book, fresh, edvars>>
-----------------------------------------------------------------------------
(* The editor: SaveAndReload after every change.  SaveBookmarkTable does   *)
(* nothing with an empty table, and writes the rest without what is        *)
(* deleted.                                                                *)
Undeleted(table) ==
  LET kept[k \in 0..Len(table)] ==
        IF k = 0 THEN <<>>
        ELSE IF table[k].name = Dead THEN kept[k - 1] ELSE Append(kept[k - 1], table[k])
  IN kept[Len(table)]

SaveAndReload(table, names, g) ==
  /\ at[Editor] = "idle"
  /\ gBookmarkTable' = table /\ goal' = g
  /\ IF table = <<>> THEN at' = [at EXCEPT ![Editor] = "count"] /\ UNCHANGED <<tmp, job, saves>>
     ELSE /\ saves < MaxSaves
          /\ Writes(Editor, Undeleted(table), names)
          /\ at' = [at EXCEPT ![Editor] = "written"]
  /\ UNCHANGED <<file, old, book, fresh, spoiled, orphaned, nb, gHilitedHost, gHostListWinStart, selected, adrift>>

Row  == gHilitedHost + 1
NoGoal == [op |-> "start", to |-> 0]
Zero == [name |-> Blank, by |-> 0, long |-> FALSE, torn |-> FALSE]
Current == IF Row <= gNumBookmarks THEN gBookmarkTable[Row] ELSE Zero
Now(e)  == [k \in 1..gNumBookmarks |-> IF k = Row THEN e ELSE gBookmarkTable[k]]

HostWinNew == /\ gNumBookmarks < MaxEntries
              /\ SaveAndReload(Append(gBookmarkTable, Entry(Untitled, FALSE)), {Untitled},
                               [op |-> "first", to |-> 0])

HostWinDup == /\ selected /\ gNumBookmarks < MaxEntries /\ Current.name \in Names \cup {Blank}
              /\ LET n == CopyOf(Current.name) IN
                 SaveAndReload(Append(gBookmarkTable, [Current EXCEPT !.name = n]), {n}, [op |-> "search", to |-> n])

(* HostWinEdit searches for the entry by the name it had before.           *)
HostWinEdit == /\ selected
               /\ \E n \in Names \cup {Current.name}, long \in BOOLEAN :
                    SaveAndReload(Now(Entry(n, long)), {n, Current.name}, [op |-> "search", to |-> Current.name])

HostWinDelete == /\ selected
                 /\ LET newi == IF gHilitedHost = gNumBookmarks - 1 THEN gHilitedHost - 1 ELSE gHilitedHost IN
                    SaveAndReload(Now([Current EXCEPT !.name = Dead]), {Current.name}, [op |-> "row", to |-> newi])

(* LoadBookmarkTable opens the file twice, to count and to read.           *)
Counts ==
  /\ at[Editor] = "count" /\ OpenBookmarkFile
  /\ nb' = Len(file.lines) /\ at' = [at EXCEPT ![Editor] = "read"]
  /\ UNCHANGED <<tmp, saves, book, job, fresh, spoiled, orphaned,
                 gBookmarkTable, gHilitedHost, gHostListWinStart, selected, adrift, goal>>

(* SortBookmarks puts each line after those that come before it.           *)
Before(lines, k) == {j \in 1..Len(lines) : lines[j].name < lines[k].name \/ (lines[j].name = lines[k].name /\ j < k)}
SortBookmarks(lines) ==
  [i \in 1..Len(lines) |-> lines[CHOOSE k \in 1..Len(lines) : Cardinality(Before(lines, k)) = i - 1]]
PageWith(i) == Max({0, i - PageSize + 1})
Hangs(start, n) == start > 0 /\ start + PageSize > n
Marks(i) == gHilitedHost' = i /\ gHostListWinStart' = PageWith(i) /\ selected' = TRUE /\ adrift' = FALSE

Marked(table) ==
  CASE goal.op = "start"  -> gHilitedHost' = 0 /\ gHostListWinStart' = 0 /\ selected' = (table # <<>>) /\ adrift' = FALSE
    [] goal.op = "first"  -> Marks(0)
    [] goal.op = "search" -> LET found == {k \in 1..Len(table) : table[k].name = goal.to} IN
                             \E k \in IF found = {} THEN {1} ELSE found : Marks(k - 1)
    [] goal.op = "row"    -> /\ selected' = (goal.to >= 0)
                             /\ gHilitedHost' = CASE goal.to < 0 -> gHilitedHost
                                                  [] goal.to >= 0 /\ goal.to < Len(table) -> goal.to
                                                  [] OTHER -> 0
                             /\ adrift' = (adrift \/ goal.to >= Len(table)
                                           \/ Hangs(gHostListWinStart, Len(table)))
                             /\ UNCHANGED gHostListWinStart

LoadBookmarkTable ==
  /\ at[Editor] = "read" /\ OpenBookmarkFile
  /\ LET table == SortBookmarks(SubSeq(file.lines, 1, Min({nb, Len(file.lines)})))
     IN gBookmarkTable' = table /\ Marked(table)
  /\ fresh' = [fresh EXCEPT ![Editor] = file = book /\ Len(file.lines) = nb]
  /\ at' = [at EXCEPT ![Editor] = "idle"] /\ nb' = 0 /\ goal' = NoGoal
  /\ UNCHANGED <<tmp, saves, book, job, spoiled, orphaned>>

(* NewHilitedHostIndex, from the keys up, down, page up, page down and the *)
(* capital letters.                                                        *)
NewHilitedHostIndex(i) ==
  LET last == gHostListWinStart + Min({gNumBookmarks, PageSize}) - 1 IN
  /\ at[Editor] = "idle" /\ gNumBookmarks > 0 /\ selected' = TRUE
  /\ \/ /\ i < gHostListWinStart
        /\ gHilitedHost' = Max({0, i}) /\ gHostListWinStart' = Max({0, i})
     \/ /\ i >= gHostListWinStart /\ i > last
        /\ gHilitedHost' = Min({i, gNumBookmarks - 1})
        /\ gHostListWinStart' = Max({0, gHilitedHost' - (PageSize - 1)})
     \/ /\ i >= gHostListWinStart /\ i <= last
        /\ gHilitedHost' = i /\ UNCHANGED gHostListWinStart
  /\ adrift' = (adrift /\ Hangs(gHostListWinStart', gNumBookmarks))
  /\ UNCHANGED <<file, old, tmp, saves, at, book, job, fresh, spoiled, orphaned, gBookmarkTable, nb, goal>>

Moves == \E by \in {-1, 1, -PageSize, PageSize} : NewHilitedHostIndex(gHilitedHost + by)
HostWinZoomTo == \E i \in 0..gNumBookmarks - 1 : NewHilitedHostIndex(i)

BkInit == /\ \E s \in Starts : file = s.file /\ old = s.old
          /\ tmp = [p \in Procs |-> <<>>] /\ saves = 0
          /\ at = [p \in Procs |-> IF p = Editor THEN "count" ELSE "idle"]
          /\ book = (IF file.there THEN file ELSE old) /\ orphaned = FALSE
          /\ job = [p \in Procs |-> NoJob]
          /\ fresh = [p \in Procs |-> FALSE] /\ spoiled = [p \in Procs |-> {}]
          /\ gBookmarkTable = <<>> /\ nb = 0 /\ gHilitedHost = 0 /\ gHostListWinStart = 0
          /\ selected = FALSE /\ adrift = FALSE /\ goal = NoGoal
BkNext == \/ \E p \in Shells : PutBookmark(p)
          \/ \E p \in Procs : Removes(p) \/ Renames(p) \/ Dies(p)
          \/ HostWinNew \/ HostWinDup \/ HostWinEdit \/ HostWinDelete
          \/ Counts \/ LoadBookmarkTable \/ Moves \/ HostWinZoomTo
BkSpec == BkInit /\ [][BkNext]_bkvars
-----------------------------------------------------------------------------
BkTypeOK == /\ DOMAIN at = Procs /\ gHilitedHost >= 0 /\ gHostListWinStart >= 0
            /\ file.lines # <<>> => file.there

(* The bookmarks file, once there, is gone only while a process is about   *)
(* to rename its own, or when one has died just then.                      *)
NeverMissing == ~file.there /\ book.there => old.there \/ orphaned \/ \E p \in Procs : at[p] = "removed"

(* A process that writes the file, when nobody else has changed it since   *)
(* this one read it, changes nothing but the bookmark it was to change,    *)
(* and that name then finds what it saved.                                 *)
Kept(p) == \A k \in 1..Len(book.lines) :
             book.lines[k].name \in job[p].names \/ \E j \in 1..Len(tmp[p]) : tmp[p][j] = book.lines[k]
SaveOf(p) ==
  at[p] = "removed" /\ at'[p] \in {"idle", "count"} /\ fresh[p] /\ spoiled[p] = {} =>
    /\ Kept(p) /\ file'.there
    /\ p \in Shells => \A n \in job[p].names : GetBookmark(n, file'.lines)[1].by = job[p].by
SavesOne == \A p \in Procs : SaveOf(p)

(* The entry that is marked is one of the table's, and in the window,      *)
(* unless what was deleted has left the window hanging past the end.       *)
Shows == at[Editor] = "idle" /\ selected /\ ~adrift /\ gNumBookmarks > 0 =>
         gHilitedHost \in gHostListWinStart..gHostListWinStart + PageSize - 1 /\ gHilitedHost < gNumBookmarks
-----------------------------------------------------------------------------
(* What every step keeps.  In the table, once read and until somebody      *)
(* changes the file, is all that the file has; what is to be marked when   *)
(* it is read again is in the window.                                      *)
BkTypes ==
  /\ \A f \in {file, old, book} : f \in Files /\ (f.there \/ f = NoFile)
  /\ tmp \in [Procs -> Seq(Entries)] /\ saves \in Nat
  /\ at \in [Procs -> {"idle", "written", "removed", "count", "read", "gone"}]
  /\ \A p \in Shells : at[p] \notin {"count", "read"}
  /\ job \in [Procs -> [names : SUBSET Int, by : Nat]]
  /\ fresh \in [Procs -> BOOLEAN] /\ DOMAIN spoiled = Procs /\ orphaned \in BOOLEAN
  /\ DOMAIN gBookmarkTable = 1..Len(gBookmarkTable) /\ Len(gBookmarkTable) \in Nat
  /\ at[Editor] = "idle" => gBookmarkTable \in Seq(Entries)
  /\ gHilitedHost \in Nat /\ gHostListWinStart \in Nat /\ nb \in Nat
  /\ selected \in BOOLEAN /\ adrift \in BOOLEAN
  /\ goal \in [op : {"start", "first", "search", "row"}, to : Int]

Saving == \A p \in Procs : at[p] \in {"written", "removed"} /\ fresh[p] /\ spoiled[p] = {} =>
            /\ Kept(p)
            /\ p \in Shells => \A n \in job[p].names : GetBookmark(n, tmp[p])[1].by = job[p].by
TableHas == at[Editor] = "idle" /\ fresh[Editor] =>
              \A k \in 1..Len(book.lines) : \E j \in 1..gNumBookmarks : gBookmarkTable[j] = book.lines[k]
InWindow(i) == i \in gHostListWinStart..gHostListWinStart + PageSize - 1
Window == ~adrift =>
  IF at[Editor] = "idle"
  THEN /\ ~Hangs(gHostListWinStart, gNumBookmarks)
       /\ selected => /\ InWindow(gHilitedHost)
                      /\ gHilitedHost < gNumBookmarks
                         \/ (gNumBookmarks = 0 /\ gHilitedHost = 0 /\ gHostListWinStart = 0)
  ELSE goal.op = "row" /\ goal.to >= 0 => InWindow(goal.to)

BkInv == BkTypes /\ NeverMissing /\ Saving /\ TableHas /\ Window
=============================================================================
