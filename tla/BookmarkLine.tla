---------------------------- MODULE BookmarkLine ----------------------------
(***************************************************************************)
(* A line of the bookmarks file: the bookmark's fields between commas, of  *)
(* which all but the first are written with the characters that mean       *)
(* something there escaped, and what reading makes of it.                  *)
(*                                                                         *)
(* Characters are one-letter strings; "^" stands for one that does not     *)
(* print, "H" for one above 127, which is negative as a char, "F" and "0"  *)
(* are hexadecimal digits, "x" is none of these.                           *)
(***************************************************************************)
EXTENDS Naturals, Sequences

CONSTANTS Fields,  \* what bookmarkName and the field after it may hold
          TokSize  \* the room in ParseHostLine's token

(* What is assumed of them: they are sequences.                            *)
BlAssumption == /\ TokSize \in Nat
                /\ \A f \in Fields : Len(f) \in Nat /\ f = [k \in 1..Len(f) |-> f[k]]

VARIABLES bookmarkName, name, line
bmvars == <<bookmarkName, name, line>>

Special == {"\\", ",", "$"}

(* BmEscapeTok, of which sprintf prints the negative "H" as ffffffe9, and  *)
(* goes on after the first two digits.                                     *)
EscapedChar(c) ==
  CASE c \in Special -> <<"\\", c>>
    [] c = "^" -> <<"$", "0", "0">>
    [] c = "H" -> <<"$", "F", "F">>
    [] OTHER -> <<c>>
Escaped(src) ==
  LET dst[k \in 0..Len(src)] == IF k = 0 THEN <<>> ELSE dst[k - 1] \o EscapedChar(src[k])
  IN dst[Len(src)]

WriteBmLine == bookmarkName \o <<",">> \o Escaped(name) \o <<",">>

(* ParseHostLine's tokens, a character at a time: an escaped one, the two  *)
(* digits after a dollar, which are dropped when they are none, and what   *)
(* ends the field.  What its token cannot hold is left out.                *)
HexCharToNibble(pair) == CASE pair = <<"0", "0">> -> <<"^">>
                           [] pair = <<"F", "F">> -> <<"Y">>
                           [] pair \in {<<"0", "F">>, <<"F", "0">>} -> <<"?">>
                           [] OTHER -> <<>>
Put(t, chars) == IF Len(t.token) + Len(chars) <= TokSize - 1 THEN [t EXCEPT !.token = @ \o chars] ELSE t
Take(t, c) ==
  CASE t.held = <<"\\">> -> Put([t EXCEPT !.held = <<>>], <<c>>)
    [] t.held = <<"$">> -> [t EXCEPT !.held = <<"$", c>>]
    [] Len(t.held) = 2 -> Put([t EXCEPT !.held = <<>>], HexCharToNibble(<<t.held[2], c>>))
    [] t.held = <<>> /\ c \in {"\\", "$"} -> [t EXCEPT !.held = <<c>>]
    [] t.held = <<>> /\ c = "," -> [fields |-> Append(t.fields, t.token), token |-> <<>>, held |-> <<>>]
    [] OTHER -> Put(t, <<c>>)
After(t, text) ==
  LET seen[k \in 0..Len(text)] == IF k = 0 THEN t ELSE Take(seen[k - 1], text[k])
  IN seen[Len(text)]

(* At the end of the line what was held back is as plain as it looks.      *)
Start == [fields |-> <<>>, token |-> <<>>, held |-> <<>>]
ParseHostLine(text) ==
  LET t == After(Start, text)
      e == IF t.held = <<"$", ",">> THEN Take([t EXCEPT !.held = <<>>, !.token = Append(@, "$")], ",")
           ELSE Put(t, t.held)
  IN IF e.token = <<>> THEN e.fields ELSE Append(e.fields, e.token)

BlInit == bookmarkName \in Fields /\ name \in Fields /\ line = WriteBmLine
BlNext == UNCHANGED bmvars
-----------------------------------------------------------------------------
(* A bookmark that is written and read is the same, but for characters     *)
(* above 127; its name, which is not escaped, must have none that means    *)
(* something.                                                              *)
Plain(s)  == \A k \in 1..Len(s) : s[k] \notin Special
ReadsBack == /\ Plain(bookmarkName) /\ Len(bookmarkName) < TokSize
             /\ (\A k \in 1..Len(name) : name[k] # "H") /\ Len(name) < TokSize
             => ParseHostLine(line) = <<bookmarkName, name>>
BlInv == bookmarkName \in Fields /\ name \in Fields /\ line = WriteBmLine
=============================================================================
