----------------------------- MODULE MCMemoTab -----------------------------
(***************************************************************************)
(* Small instances of MemoTab: yesterday and today, a note for each,       *)
(* and a month before without a day of its own.                            *)
(***************************************************************************)
EXTENDS MemoTab, TLC

CONSTANTS n1, n2, june, july

NotesOfDays == 1 :> {Empty, n1} @@ 2 :> {Empty, n2}

InJuly == [d \in Dates |-> july]
=============================================================================
