---------------------------- MODULE WindowDialogs ----------------------------
(***************************************************************************)
(* The two dialogs that choose wake and bed hours: the picker of           *)
(* SettingsScreen for the default window, and the dialog of HomeScreen for *)
(* the window of one day, bounded by the windows of the days beside it.    *)
(*                                                                         *)
(* The picker stores a bed hour of the next day as it is; the dialog adds  *)
(* 24.  Both encodings meet in the logs, because the first value recorded  *)
(* on a day stores the default window with it.                             *)
(***************************************************************************)
EXTENDS ActiveHours

CONSTANTS
    Days,
    WakeTaps, BedTaps,   \* bounds: the hours the user taps in a list
    MaxSaves,            \* bound: the windows saved, by either dialog
    Enabled,             \* "hurry": other days come in front, or logs go, while
                         \* the dialog opens
    NoLog, Closed

Picker == [isEndHour : BOOLEAN, value : 0..24]
Bounds == [minStart : 0..23, maxEnd : 0..23]
Dialog == [minStart : 0..23, maxEnd : 0..23, start : 0..23, end : 0..47, raised : BOOLEAN]

ASSUME DaysAssumption ==
    /\ Days \subseteq Int
    /\ MaxSaves \in Nat
    /\ NoLog \notin Window
    /\ Closed \notin Picker \cup Bounds \cup Dialog

VARIABLES
    settings,     \* startHour and endHour of the settings document
    homeDefault,  \* _defaultStartHour and _defaultEndHour, read by HomeScreen
    logs,         \* the window in the log of each day
    selectedDay,
    picker,       \* the picker of the settings
    opening,      \* the bounds _showTimeSettings has read
    dialog,       \* the dialog of the day
    saves         \* counts for MaxSaves

vars == <<settings, homeDefault, logs, selectedDay, picker, opening, dialog, saves>>

LogOf(d) == IF d \in Days THEN logs[d] ELSE NoLog

\* _localStartHour and _localEndHour at rest.
LocalWindow == IF logs[selectedDay] = NoLog THEN homeDefault ELSE logs[selectedDay]

-----------------------------------------------------------------------------
(* The picker of the settings *)

\* The hours of the list.  A wake hour stays before a bed hour of the same day.
WakeBound ==
    IF IsOvernight(settings) THEN 23
    ELSE IF settings.endHour > 0 THEN settings.endHour - 1 ELSE 0

PickerHours(p) ==
    IF p.isEndHour THEN settings.startHour..24 \cup 1..(settings.startHour - 1)
    ELSE 0..WakeBound

\* Variant: a wake hour that meets the bed hour is not clamped.
OpenPickerUnclamped(isEndHour) ==
    /\ picker = Closed /\ opening = Closed /\ dialog = Closed
    /\ picker' = [isEndHour |-> isEndHour,
           value |-> IF isEndHour THEN settings.endHour ELSE settings.startHour]
    /\ UNCHANGED <<settings, homeDefault, logs, selectedDay, opening, dialog, saves>>

\* A picker and the dialog are modal: neither opens over the other.
OpenPicker(isEndHour) ==
    /\ picker = Closed /\ opening = Closed /\ dialog = Closed
    /\ picker' = [isEndHour |-> isEndHour,
           value |-> IF isEndHour THEN settings.endHour
                     ELSE IF settings.startHour > WakeBound THEN WakeBound
                     ELSE settings.startHour]
    /\ UNCHANGED <<settings, homeDefault, logs, selectedDay, opening, dialog, saves>>

PickHour ==
    /\ picker # Closed
    /\ \E h \in PickerHours(picker) \cap (IF picker.isEndHour THEN BedTaps ELSE WakeTaps) :
           picker' = [picker EXCEPT !.value = h]
    /\ UNCHANGED <<settings, homeDefault, logs, selectedDay, opening, dialog, saves>>

\* Variant: a bed hour of the next day is stored as the dialog stores it.
SavePickerEncoded ==
    /\ picker # Closed
    /\ saves < MaxSaves /\ saves' = saves + 1
    /\ settings' = IF ~picker.isEndHour THEN [settings EXCEPT !.startHour = picker.value]
                   ELSE [settings EXCEPT !.endHour =
                            IF picker.value < settings.startHour THEN 24 + picker.value
                            ELSE picker.value]
    /\ picker' = Closed
    /\ UNCHANGED <<homeDefault, logs, selectedDay, opening, dialog>>

SavePicker ==
    /\ picker # Closed
    /\ saves < MaxSaves /\ saves' = saves + 1
    /\ settings' = IF picker.isEndHour THEN [settings EXCEPT !.endHour = picker.value]
                   ELSE [settings EXCEPT !.startHour = picker.value]
    /\ picker' = Closed
    /\ UNCHANGED <<homeDefault, logs, selectedDay, opening, dialog>>

CancelPicker ==
    /\ picker # Closed
    /\ picker' = Closed
    /\ UNCHANGED <<settings, homeDefault, logs, selectedDay, opening, dialog, saves>>

-----------------------------------------------------------------------------
(* The home screen *)

\* A new HomeScreen reads the default window; a living one keeps what it has.
NewHome ==
    /\ picker = Closed /\ opening = Closed /\ dialog = Closed
    /\ homeDefault' = settings
    /\ \E d \in Days : selectedDay' = d
    /\ UNCHANGED <<settings, logs, picker, opening, dialog, saves>>

ChangeDay(d) ==
    /\ picker = Closed /\ dialog = Closed
    /\ opening # Closed => "hurry" \in Enabled
    /\ selectedDay' = d
    /\ UNCHANGED <<settings, homeDefault, logs, picker, opening, dialog, saves>>

\* The first value of a day stores the default window as well.
RecordEnergy ==
    /\ picker = Closed /\ dialog = Closed /\ logs[selectedDay] = NoLog
    /\ logs' = [logs EXCEPT ![selectedDay] = LocalWindow]
    /\ UNCHANGED <<settings, homeDefault, selectedDay, picker, opening, dialog, saves>>

\* The calendar deletes the log of any day.
DeleteDailyLog(d) ==
    /\ picker = Closed /\ dialog = Closed
    /\ opening # Closed => "hurry" \in Enabled
    /\ logs' = [logs EXCEPT ![d] = NoLog]
    /\ UNCHANGED <<settings, homeDefault, selectedDay, picker, opening, dialog, saves>>

\* Variant: the day before bounds nothing.
MinStartHourUnread(prev) == 0

\* The lower bound of the wake hour: the bed hour of the day before, if it is
\* stored as an hour below its wake hour.
MinStartHour(prev) ==
    IF prev # NoLog /\ prev.endHour < prev.startHour THEN prev.endHour ELSE 0

\* Variant: only the default window bounds the bed hour.
MaxEndHourOfDefault(next) == homeDefault.startHour

\* The upper bound of a bed hour on the next day: the wake hour of that day.
MaxEndHour(next) == IF next = NoLog THEN homeDefault.startHour ELSE next.startHour

\* _showTimeSettings reads the two days beside the selected one.
ShowTimeSettings ==
    /\ picker = Closed /\ opening = Closed /\ dialog = Closed
    /\ opening' = [minStart |-> MinStartHour(LogOf(selectedDay - 1)),
                   maxEnd |-> MaxEndHour(LogOf(selectedDay + 1))]
    /\ UNCHANGED <<settings, homeDefault, logs, selectedDay, picker, dialog, saves>>

\* The bed hour the dialog starts with: with the 24 + h encoding, or the wake
\* hour when the list would not hold it.
InitialEnd(w, maxEnd) ==
    LET encoded == IF w.endHour < w.startHour THEN 24 + w.endHour ELSE w.endHour
        valid == \/ w.startHour <= encoded /\ encoded <= 24
                 \/ 24 <= encoded /\ encoded <= 24 + maxEnd
    IN  IF valid THEN encoded ELSE w.startHour

\* The dialog appears, for the day and the window that are there by now.
DialogShown ==
    /\ opening # Closed /\ dialog = Closed
    /\ dialog' = [minStart |-> opening.minStart, maxEnd |-> opening.maxEnd,
                  start |-> IF LocalWindow.startHour < opening.minStart
                            THEN opening.minStart ELSE LocalWindow.startHour,
                  end |-> InitialEnd(LocalWindow, opening.maxEnd),
                  raised |-> LocalWindow.startHour < opening.minStart]
    /\ opening' = Closed
    /\ UNCHANGED <<settings, homeDefault, logs, selectedDay, picker, saves>>

WakeHours(g) == g.minStart..23

BedHours(g) == g.start..24 \cup 25..(24 + g.maxEnd)

\* Variant: the bed hour stays when the wake hour passes it.
ChooseWakeAlone(h) ==
    /\ dialog # Closed /\ h \in WakeHours(dialog)
    /\ dialog' = [dialog EXCEPT !.start = h]
    /\ UNCHANGED <<settings, homeDefault, logs, selectedDay, picker, opening, saves>>

ChooseWake(h) ==
    /\ dialog # Closed /\ h \in WakeHours(dialog)
    /\ dialog' = [dialog EXCEPT !.start = h, !.end = IF @ < h THEN h ELSE @]
    /\ UNCHANGED <<settings, homeDefault, logs, selectedDay, picker, opening, saves>>

ChooseBed(h) ==
    /\ dialog # Closed /\ h \in BedHours(dialog)
    /\ dialog' = [dialog EXCEPT !.end = h]
    /\ UNCHANGED <<settings, homeDefault, logs, selectedDay, picker, opening, saves>>

\* _updateSettings stores both hours as they are in the dialog.
SaveDialog ==
    /\ dialog # Closed
    /\ saves < MaxSaves /\ saves' = saves + 1
    /\ logs' = [logs EXCEPT ![selectedDay] =
                    [startHour |-> dialog.start, endHour |-> dialog.end]]
    /\ dialog' = Closed
    /\ UNCHANGED <<settings, homeDefault, selectedDay, picker, opening>>

CancelDialog ==
    /\ dialog # Closed
    /\ dialog' = Closed
    /\ UNCHANGED <<settings, homeDefault, logs, selectedDay, picker, opening, saves>>

-----------------------------------------------------------------------------
(* The export *)

\* Variant: midnight counts as an hour of the next day, but is not decoded.
ExportGoalUndecoded(w) ==
    60 * IF w.endHour < w.startHour \/ w.endHour >= 24
         THEN (24 - w.startHour) + (IF w.endHour > 24 THEN w.endHour - 24 ELSE w.endHour)
         ELSE w.endHour - w.startHour + 1

\* The goal of a day as _exportLogsCSV computes it, with > 24 where the service
\* has >= 24.
ExportGoal(w) ==
    60 * IF w.endHour < w.startHour \/ w.endHour > 24
         THEN (24 - w.startHour) + (IF w.endHour > 24 THEN w.endHour - 24 ELSE w.endHour)
         ELSE LastHour(w) - w.startHour + 1

-----------------------------------------------------------------------------
(* Specification *)

Init ==
    /\ settings = [startHour |-> 7, endHour |-> 24]
    /\ homeDefault = settings
    /\ logs = [d \in Days |-> NoLog]
    /\ selectedDay \in Days
    /\ picker = Closed /\ opening = Closed /\ dialog = Closed
    /\ saves = 0

Next ==
    \/ \E isEndHour \in BOOLEAN : OpenPicker(isEndHour)
    \/ PickHour
    \/ SavePicker \/ CancelPicker
    \/ NewHome
    \/ \E d \in Days : ChangeDay(d) \/ DeleteDailyLog(d)
    \/ RecordEnergy
    \/ ShowTimeSettings \/ DialogShown
    \/ \E h \in WakeTaps : ChooseWake(h)
    \/ \E h \in BedTaps : ChooseBed(h)
    \/ SaveDialog \/ CancelDialog

Spec == Init /\ [][Next]_vars

-----------------------------------------------------------------------------
(* Properties *)

SettingsWindow == [startHour : 0..23, endHour : 0..24]

\* Every variable holds a value of its type.
WindowTypeOK ==
    /\ settings \in SettingsWindow /\ homeDefault \in SettingsWindow
    /\ logs \in [Days -> Window \cup {NoLog}]
    /\ selectedDay \in Days
    /\ saves \in 0..MaxSaves
    /\ picker \in Picker \cup {Closed}
    /\ opening \in Bounds \cup {Closed}
    /\ dialog \in Dialog \cup {Closed}

\* The value of the picker is in its list, in either encoding and after any
\* changes of the other hour: DropdownButton fails on a value its list lacks.
PickerOffersItsValue == picker # Closed => picker.value \in PickerHours(picker)

\* The values of the dialog are in its lists, unless the day before forced a
\* later wake hour on it.
DialogOffersItsValues ==
    dialog # Closed /\ ~dialog.raised =>
        dialog.start \in WakeHours(dialog) /\ dialog.end \in BedHours(dialog)

\* The bed hour was set against the day's own wake hour, before it was raised.
RaisedPastBed(g) == g.raised /\ g.end < g.start

\* A window with a bed hour of the next day ends before that day's wake hour, if
\* that day had a window when the dialog was opened and saved, and no day or log
\* changed in between ("hurry").  Excepted is a dialog whose wake hour the day
\* before has raised past its bed hour: of a day stored as 7..31, after one of
\* 9..8 and before a wake hour of 5, it offers 8..7, and a save of that without
\* another choice lasts until 7.
BedBeforeNextWake ==
    [][SaveDialog /\ ~RaisedPastBed(dialog) /\ LogOf(selectedDay + 1) # NoLog
           /\ IsOvernight(logs'[selectedDay]) =>
       ActualEnd(logs'[selectedDay]) <= LogOf(selectedDay + 1).startHour]_vars

\* A saved window wakes no earlier than the bed hour of the day before, if that
\* one came from the settings.
WakeAfterPreviousBed ==
    [][SaveDialog /\ LogOf(selectedDay - 1) # NoLog
           /\ LogOf(selectedDay - 1).endHour < LogOf(selectedDay - 1).startHour =>
       LogOf(selectedDay - 1).endHour <= logs'[selectedDay].startHour]_vars

\* A saved window wakes no earlier than the day before goes to bed, whichever
\* way its bed hour is stored.
WakesAfterBed ==
    [][SaveDialog /\ LogOf(selectedDay - 1) # NoLog /\ IsOvernight(LogOf(selectedDay - 1)) =>
       ActualEnd(LogOf(selectedDay - 1)) <= logs'[selectedDay].startHour]_vars

\* The goal of a window counts its active hours, unless its bed hour of the next
\* day lies beyond its own wake hour.
GoalCountsHours ==
    \A w \in {settings} \cup ({logs[d] : d \in Days} \ {NoLog}) :
        ~(IsOvernight(w) /\ ActualEnd(w) > w.startHour) =>
            GoalMinutes(w) = 60 * Cardinality({h \in 0..23 : IsActive(h, w)})

\* The export divides the minutes of a day by the same goal as the service.
ExportGoalAgrees ==
    \A d \in Days : logs[d] # NoLog => ExportGoal(logs[d]) = GoalMinutes(logs[d])
=============================================================================
