----------------------- MODULE MCFirestoreTransaction -----------------------
(***************************************************************************)
(* Two calls: one for an hour that both windows hold, and one for an hour  *)
(* that only its own window holds.                                         *)
(***************************************************************************)
EXTENDS FirestoreTransaction, TLC

CONSTANTS c1, c2

HourOfCall == c1 :> 9 @@ c2 :> 8

MinutesOfCall == c1 :> 30 @@ c2 :> 60

WindowOfCall == c1 :> [startHour |-> 9, endHour |-> 24] @@
                c2 :> [startHour |-> 7, endHour |-> 24]
=============================================================================
