--------------------------- MODULE EnergyDocument ---------------------------
(***************************************************************************)
(* The document of one day, and what one call of updateEnergyLog makes of  *)
(* it: it enters the minutes of an hour, or no hour, and recomputes the    *)
(* total for the window it is given.                                       *)
(***************************************************************************)
EXTENDS ActiveHours

CONSTANTS
    Hours, Minutes,
    Unset,          \* no minutes are recorded for the hour
    NoHour,         \* a call that only brings a window
    NoDocument,
    Calls,          \* the calls of updateEnergyLog for this day
    HourOf, MinutesOf, WindowOf   \* their arguments

ASSUME CallAssumption ==
    /\ Hours \subseteq 0..23 /\ NoHour \notin Hours
    /\ Minutes \subseteq Nat /\ Unset \notin Minutes
    /\ HourOf \in [Calls -> Hours \cup {NoHour}]
    /\ \A c \in Calls : HourOf[c] # NoHour => MinutesOf[c] \in Minutes
    /\ WindowOf \in [Calls -> Window]

Records == [Hours -> Minutes \cup {Unset}]

Totals == {ActiveMinutes(records, w, Unset) : records \in Records, w \in Window}

Document == [records : Records, window : Window, totalActiveMinutes : Totals]

ASSUME DocumentAssumption == NoDocument \notin Document

NoRecords == [h \in Hours |-> Unset]

RecordsOf(doc) == IF doc = NoDocument THEN NoRecords ELSE doc.records

WithCall(records, c) ==
    IF HourOf[c] = NoHour THEN records ELSE [records EXCEPT ![HourOf[c]] = MinutesOf[c]]

\* Variant: the total is computed before the hour is entered.
FieldsTotalFirst(records, c) ==
    [records |-> WithCall(records, c), window |-> WindowOf[c],
     totalActiveMinutes |-> ActiveMinutes(records, WindowOf[c], Unset)]

\* The fields the call sets, from the records it has read.
Fields(records, c) ==
    [records |-> WithCall(records, c), window |-> WindowOf[c],
     totalActiveMinutes |-> ActiveMinutes(WithCall(records, c), WindowOf[c], Unset)]

\* What the call makes of the document it finds.
Updated(doc, c) == Fields(RecordsOf(doc), c)
=============================================================================
