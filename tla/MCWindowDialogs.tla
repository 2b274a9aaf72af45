--------------------------- MODULE MCWindowDialogs ---------------------------
(***************************************************************************)
(* Three days in a row, each with a window of its own: with the hours of   *)
(* MCHours the day before may bound the wake hour of the selected day, the *)
(* day after its bed hour, and both at once.                               *)
(***************************************************************************)
EXTENDS WindowDialogs
=============================================================================
