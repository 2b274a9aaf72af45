------------------------------ MODULE EnergyLog ------------------------------
(***************************************************************************)
(* What the record of energy minutes promises, without screens, timers or  *)
(* transactions: the user asks for values and deletions, each request      *)
(* keeps its day, its hour and its value for as long as it waits, and it   *)
(* is applied at most once or lost.                                        *)
(***************************************************************************)
EXTENDS Integers

CONSTANTS Dates, Hours, Minutes, Unset, NoHour

VARIABLES
    stored,    \* the minutes stored for each hour of each day
    waiting,   \* requests not yet applied
    asked      \* the number of requests made so far

vars == <<stored, waiting, asked>>

Empty == [h \in Hours |-> Unset]

Request == [edit : Nat, date : Dates, hour : Hours \cup {NoHour},
            minutes : Minutes \cup {Unset}]

Init ==
    /\ stored = [d \in Dates |-> Empty]
    /\ waiting = {}
    /\ asked = 0

\* A value for an hour replaces at most a value that waits for the same hour.
AskValue(d, h, m) ==
    /\ asked' = asked + 1
    /\ \E old \in SUBSET {r \in waiting : r.date = d /\ r.hour = h} :
           waiting' = (waiting \ old) \cup
               {[edit |-> asked + 1, date |-> d, hour |-> h, minutes |-> m]}
    /\ UNCHANGED stored

AskDeletion(d) ==
    /\ asked' = asked + 1
    /\ waiting' = waiting \cup
           {[edit |-> asked + 1, date |-> d, hour |-> NoHour, minutes |-> Unset]}
    /\ UNCHANGED stored

\* A request that concerns no record: the window of a day.
AskOther ==
    /\ asked' = asked + 1
    /\ UNCHANGED <<stored, waiting>>

Apply(r) ==
    /\ stored' = [stored EXCEPT ![r.date] =
           IF r.hour = NoHour THEN Empty ELSE [@ EXCEPT ![r.hour] = r.minutes]]
    /\ waiting' = waiting \ {r}
    /\ UNCHANGED asked

\* Requests are lost together when the process that made them dies.
Lose(gone) ==
    /\ waiting' = waiting \ gone
    /\ UNCHANGED <<stored, asked>>

Next ==
    \/ \E d \in Dates, h \in Hours, m \in Minutes : AskValue(d, h, m)
    \/ \E d \in Dates : AskDeletion(d)
    \/ AskOther
    \/ \E r \in waiting : Apply(r)
    \/ \E gone \in SUBSET waiting : Lose(gone)

Spec == Init /\ [][Next]_vars
=============================================================================
