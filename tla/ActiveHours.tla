----------------------------- MODULE ActiveHours -----------------------------
(***************************************************************************)
(* The window of active hours of a day, as EnergyService.updateEnergyLog   *)
(* and HomeScreen both compute it.  A window is a wake hour and a bed hour *)
(* in the encoding the documents store: the bed hour is 24 at midnight,    *)
(* 24 + h at hour h of the next day, or, in older documents and in the     *)
(* global settings, a raw hour below the wake hour, which also means the   *)
(* next day.                                                               *)
(***************************************************************************)
EXTENDS Integers, FiniteSetsExt

Window == [startHour : 0..23, endHour : 0..47]

\* The day runs past midnight.
IsOvernight(w) == w.endHour < w.startHour \/ w.endHour >= 24

\* The bed hour with the 24 + h encoding undone.
ActualEnd(w) == IF w.endHour >= 24 THEN w.endHour - 24 ELSE w.endHour

\* The last hour of a window within one day.
LastHour(w) == IF w.endHour = 24 THEN 23 ELSE w.endHour

\* Variant: the bed hour is included overnight as well.
IsActiveInclusive(h, w) ==
    IF IsOvernight(w)
    THEN h >= w.startHour \/ h <= ActualEnd(w)
    ELSE w.startHour <= h /\ h <= LastHour(w)

\* Overnight the bed hour itself is excluded; within one day it is included.
IsActive(h, w) ==
    IF IsOvernight(w)
    THEN h >= w.startHour \/ h < ActualEnd(w)
    ELSE w.startHour <= h /\ h <= LastHour(w)

GoalMinutes(w) ==
    60 * IF IsOvernight(w)
         THEN (24 - w.startHour) + ActualEnd(w)
         ELSE LastHour(w) - w.startHour + 1

\* The minutes recorded in active hours; an hour without a record has none.
ActiveMinutes(records, w, unset) ==
    MapThenSumSet(LAMBDA h : records[h],
                  {h \in DOMAIN records : records[h] # unset /\ IsActive(h, w)})
=============================================================================
