-------------------------- MODULE MCAlarmScheduler --------------------------
(***************************************************************************)
(* Small instances of AlarmScheduler: the hours around midnight.           *)
(***************************************************************************)
EXTENDS AlarmScheduler, TLC

LateEvening == [startHour |-> 22, endHour |-> 24, intervalMinutes |-> 60, alarmOn |-> TRUE]

PastMidnight == [startHour |-> 23, endHour |-> 0, intervalMinutes |-> 30, alarmOn |-> TRUE]

\* The callers do the same things.
CallerSymmetry == Permutations(Callers)
=============================================================================
