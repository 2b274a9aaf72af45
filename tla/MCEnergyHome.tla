---------------------------- MODULE MCEnergyHome ----------------------------
(***************************************************************************)
(* Small instances of EnergyHome.  The windows: the day of the field       *)
(* initialisers 7..24 has hour 23 active and hours 0, 1 asleep; LongNight  *)
(* lasts until two the next morning and has all three active.              *)
(***************************************************************************)
EXTENDS EnergyHomeProperties

LongNight == [startHour |-> 22, endHour |-> 26]
EarlyDay == [startHour |-> 6, endHour |-> 23]

OneWindow == {DefaultWindow}
EarlyWindow == {EarlyDay}
=============================================================================
