----------------------------- MODULE TransferMC -----------------------------
(***************************************************************************)
(* The transfers of libncftp for TLC: files (Transfer) and streams         *)
(* (StreamTransfer), the translation of texts (TextTransfer) and the       *)
(* reader of lines (LineReader), which share no state, so that a behaviour *)
(* is of one part.  The servers differ in what decides a transfer, the     *)
(* calls are those of the programs; the texts and what a peer sends as     *)
(* lines are all that are not longer than two buffers.                     *)
(***************************************************************************)
EXTENDS Copies

VARIABLE part

Able      == [mlst |-> FALSE, size |-> TRUE, mdtm |-> TRUE, rest |-> "always", utime |-> TRUE]
MCServers == {Able, [Able EXCEPT !.mlst = TRUE], [Able EXCEPT !.size = FALSE],
              [Able EXCEPT !.mdtm = FALSE], [Able EXCEPT !.rest = "never"],
              [Able EXCEPT !.rest = "binary"]}
MCRequests == {NoOp, [NoOp EXCEPT !.append = TRUE],
               [NoOp EXCEPT !.resume = TRUE, !.delete = TRUE],
               [NoOp EXCEPT !.resume = TRUE, !.ascii = TRUE],
               [NoOp EXCEPT !.ask = TRUE, !.delete = TRUE],
               [NoOp EXCEPT !.tmp = TRUE],
               [NoOp EXCEPT !.tmp = TRUE, !.resume = TRUE, !.delete = TRUE]}

MCTexts   == UNION {[1..n -> {CR, LF, "x"}] : n \in 0..6}
MCStreams == UNION {[1..n -> {Cr, Lf, Nul, "x"}] : n \in 0..6}

(* The parts that do not run stay in one of their initial states.          *)
MCInit == /\ part \in {"files", "streams", "texts", "lines"}
          /\ IF part = "lines" THEN TRUE ELSE requireEOLN = TRUE /\ sent = <<>>
          /\ IF part = "texts" THEN TRUE ELSE tkind = "get" /\ text = <<>>
          /\ Init /\ (part # "files" => dir = "get" /\ server = Able /\ remote["file"].data = <<>>)
          /\ SInit /\ (part # "streams" => (\A k \in DOMAIN host : host[k]) /\ rfile = Missing)
          /\ TInit /\ LInit
MCNext == \/ part = "files" /\ Next /\ UNCHANGED <<part, svars, tvars, lvars>>
          \/ part = "streams" /\ SNext /\ UNCHANGED <<part, vars, tvars, lvars>>
          \/ part = "texts" /\ TNext /\ UNCHANGED <<part, vars, svars, lvars>>
          \/ part = "lines" /\ LNext /\ UNCHANGED <<part, vars, svars, tvars>>
MCSpec == MCInit /\ [][MCNext]_<<part, vars, svars, tvars, lvars>>
=============================================================================
