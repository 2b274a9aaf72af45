---------------------------- MODULE WindowProofs ----------------------------
(***************************************************************************)
(* Proofs about WindowDialogs for every set of days, every hour tapped and *)
(* any number of windows saved.                                            *)
(***************************************************************************)
EXTENDS WindowDialogs, FiniteSetTheorems, TLAPS

-----------------------------------------------------------------------------
(* The hours *)

\* A window of the settings that is stored with a log is one a log can have.
LEMMA SettingsAreWindows == SettingsWindow \subseteq Window
  BY DEF SettingsWindow, Window

LEMMA LogOfType ==
    ASSUME WindowTypeOK, NEW d
    PROVE  LogOf(d) \in Window \cup {NoLog}
  BY DEF WindowTypeOK, LogOf

LEMMA LocalWindowType ==
    ASSUME WindowTypeOK
    PROVE  LocalWindow \in Window
  BY SettingsAreWindows DEF WindowTypeOK, LocalWindow

LEMMA MinStartHourType ==
    ASSUME NEW w \in Window \cup {NoLog}
    PROVE  MinStartHour(w) \in 0..23
  BY DEF MinStartHour, Window

LEMMA MaxEndHourType ==
    ASSUME WindowTypeOK, NEW w \in Window \cup {NoLog}
    PROVE  MaxEndHour(w) \in 0..23
  BY DEF MaxEndHour, Window, WindowTypeOK, SettingsWindow

\* The bed hour the dialog starts with is one of its list, or the wake hour.
LEMMA InitialEndRange ==
    ASSUME NEW w \in Window, NEW m \in 0..23
    PROVE  /\ InitialEnd(w, m) \in 0..47
           /\ \/ w.startHour <= InitialEnd(w, m) /\ InitialEnd(w, m) <= 24
              \/ 24 <= InitialEnd(w, m) /\ InitialEnd(w, m) <= 24 + m
<1> DEFINE encoded == IF w.endHour < w.startHour THEN 24 + w.endHour ELSE w.endHour
<1>1. w.startHour \in 0..23 /\ w.endHour \in 0..47
  BY DEF Window
<1>2. encoded \in 0..47
  BY <1>1
<1> HIDE DEF encoded
<1>3. CASE \/ w.startHour <= encoded /\ encoded <= 24
           \/ 24 <= encoded /\ encoded <= 24 + m
  <2>1. InitialEnd(w, m) = encoded
    BY <1>3 DEF InitialEnd, encoded
  <2> QED
    BY <1>2, <1>3, <2>1
<1>4. CASE ~(\/ w.startHour <= encoded /\ encoded <= 24
             \/ 24 <= encoded /\ encoded <= 24 + m)
  <2>1. InitialEnd(w, m) = w.startHour
    BY <1>4 DEF InitialEnd, encoded
  <2> QED
    BY <1>1, <2>1
<1> QED
  BY <1>3, <1>4

\* The export and the service divide by the same goal, for every window in any
\* encoding, although they tell midnight apart in different places.
THEOREM SameGoal ==
    ASSUME NEW w \in Window
    PROVE  ExportGoal(w) = GoalMinutes(w)
<1>1. w.startHour \in 0..23 /\ w.endHour \in 0..47
  BY DEF Window
<1>2. CASE w.endHour = 24
  BY <1>1, <1>2 DEF ExportGoal, GoalMinutes, IsOvernight, ActualEnd, LastHour
<1>3. CASE w.endHour # 24
  BY <1>1, <1>3 DEF ExportGoal, GoalMinutes, IsOvernight, ActualEnd, LastHour
<1> QED
  BY <1>2, <1>3

\* An interval has as many members as there are steps from end to end.
LEMMA IntervalCount ==
    ASSUME NEW a \in Int, NEW b \in Int, a <= b + 1
    PROVE  IsFiniteSet(a..b) /\ Cardinality(a..b) = b - a + 1
<1>1. IsFiniteSet(a..b) /\ Cardinality(a..b) = IF a > b THEN 0 ELSE b - a + 1
  BY FS_Interval, Zenon
<1> QED
  BY <1>1

\* The goal of a window is an hour for each active hour, in any encoding, if its
\* bed hour of the next day is not beyond its own wake hour.
THEOREM GoalOfActiveHours ==
    ASSUME NEW w \in Window, ~(IsOvernight(w) /\ ActualEnd(w) > w.startHour)
    PROVE  GoalMinutes(w) = 60 * Cardinality({h \in 0..23 : IsActive(h, w)})
<1>1. w.startHour \in 0..23 /\ w.endHour \in 0..47
  BY DEF Window
<1> DEFINE A == {h \in 0..23 : IsActive(h, w)}
<1>2. CASE IsOvernight(w)
  <2> DEFINE Evening == w.startHour..23
             Morning == 0..(ActualEnd(w) - 1)
  <2>1. ActualEnd(w) \in 0..23 /\ ActualEnd(w) <= w.startHour
    BY <1>1, <1>2 DEF ActualEnd, IsOvernight
  <2>2. A = Evening \cup Morning
    BY <1>1, <1>2, <2>1 DEF IsActive
  <2>3. Evening \cap Morning = {}
    BY <1>1, <2>1
  <2>4. IsFiniteSet(Evening) /\ Cardinality(Evening) = 24 - w.startHour
    <3>1. w.startHour \in Int /\ 23 \in Int /\ w.startHour <= 23 + 1
      BY <1>1
    <3>2. /\ IsFiniteSet(w.startHour..23)
          /\ Cardinality(w.startHour..23) = 23 - w.startHour + 1
      BY <3>1, IntervalCount, Zenon
    <3> QED
      BY <3>1, <3>2
  <2>5. IsFiniteSet(Morning) /\ Cardinality(Morning) = ActualEnd(w)
    <3> DEFINE last == ActualEnd(w) - 1
    <3>1. last \in Int /\ 0 <= last + 1
      BY <2>1
    <3>2. IsFiniteSet(0..last) /\ Cardinality(0..last) = last - 0 + 1
      BY <3>1, IntervalCount
    <3> QED
      BY <2>1, <3>2
  <2> HIDE DEF Evening, Morning
  <2>6. Cardinality(Evening \cap Morning) = 0
    BY <2>3, FS_EmptySet
  <2>7. Cardinality(A) = (24 - w.startHour) + ActualEnd(w)
    BY <1>1, <2>1, <2>2, <2>4, <2>5, <2>6, FS_Union
  <2> QED
    BY <1>2, <2>7 DEF GoalMinutes
<1>3. CASE ~IsOvernight(w)
  <2>1. LastHour(w) = w.endHour /\ w.startHour <= w.endHour /\ w.endHour \in 0..23
    BY <1>1, <1>3 DEF LastHour, IsOvernight
  <2>2. A = w.startHour..w.endHour
    BY <1>1, <1>3, <2>1 DEF IsActive
  <2>3. Cardinality(A) = w.endHour - w.startHour + 1
    <3>1. /\ w.startHour \in Int /\ w.endHour \in Int
          /\ w.startHour <= w.endHour + 1
      BY <1>1, <2>1
    <3>2. Cardinality(w.startHour..w.endHour) = w.endHour - w.startHour + 1
      BY <3>1, IntervalCount, Zenon
    <3> QED
      BY <2>2, <3>2, Zenon
  <2> QED
    BY <1>3, <2>1, <2>3 DEF GoalMinutes
<1> QED
  BY <1>2, <1>3

-----------------------------------------------------------------------------
(* The two dialogs *)

\* The hours 0 and 0 are the only window of the settings that ends at 0, so the
\* list of bed hours, which has a 0 only after a wake hour of 0, holds them all.
EndsAtZeroFromZero == settings.endHour = 0 => settings.startHour = 0

WindowInv ==
    /\ WindowTypeOK
    /\ EndsAtZeroFromZero
    /\ PickerOffersItsValue
    /\ DialogOffersItsValues
    /\ dialog # Closed => dialog.start \in WakeHours(dialog)

LEMMA WindowInvInit == Init => WindowInv
<1> SUFFICES ASSUME Init PROVE WindowInv
  OBVIOUS
<1>1. settings \in SettingsWindow /\ settings \in Window
  BY DEF Init, SettingsWindow, Window
<1>2. logs \in [Days -> Window \cup {NoLog}]
  BY DEF Init
<1> QED
  BY <1>1, <1>2, DaysAssumption
  DEF Init, WindowInv, WindowTypeOK, EndsAtZeroFromZero, PickerOffersItsValue,
      DialogOffersItsValues

LEMMA WindowInvNext == WindowInv /\ [Next]_vars => WindowInv'
<1> SUFFICES ASSUME WindowInv, [Next]_vars
             PROVE  WindowInv'
  OBVIOUS
<1> USE DaysAssumption
<1>1. WindowTypeOK /\ EndsAtZeroFromZero /\ PickerOffersItsValue /\ DialogOffersItsValues
      /\ (dialog # Closed => dialog.start \in WakeHours(dialog))
  BY DEF WindowInv
<1>2. settings.startHour \in 0..23 /\ settings.endHour \in 0..24
      /\ settings = [startHour |-> settings.startHour, endHour |-> settings.endHour]
  BY <1>1 DEF WindowTypeOK, SettingsWindow
<1>3. WakeBound \in 0..23
  BY <1>2 DEF WakeBound, IsOvernight
\* The picker
<1>a. ASSUME NEW b \in BOOLEAN, OpenPicker(b)
      PROVE  WindowInv'
  <2>1. picker' \in Picker
    BY <1>a, <1>2, <1>3 DEF OpenPicker, Picker
  <2>2. picker'.value \in PickerHours(picker')
    <3>1. CASE b
      <4>1. picker'.isEndHour /\ picker'.value = settings.endHour
        BY <1>a, <3>1 DEF OpenPicker
      <4>2. settings.endHour \in settings.startHour..24 \cup 1..(settings.startHour - 1)
        BY <1>1, <1>2 DEF EndsAtZeroFromZero
      <4> QED
        BY <4>1, <4>2 DEF PickerHours
    <3>2. CASE ~b
      <4>1. /\ ~picker'.isEndHour
            /\ picker'.value = IF settings.startHour > WakeBound THEN WakeBound
                               ELSE settings.startHour
        BY <1>a, <3>2 DEF OpenPicker
      <4> QED
        BY <4>1, <1>2, <1>3 DEF PickerHours
    <3> QED
      BY <3>1, <3>2
  <2>3. PickerOffersItsValue'
    BY <1>a, <2>1, <2>2 DEF OpenPicker, PickerOffersItsValue, PickerHours, WakeBound
  <2> QED
    BY <1>a, <1>1, <2>1, <2>3
    DEF OpenPicker, WindowInv, WindowTypeOK, EndsAtZeroFromZero, DialogOffersItsValues,
        WakeHours, BedHours
<1>b. CASE PickHour
  <2>1. PICK h \in PickerHours(picker) : picker' = [picker EXCEPT !.value = h]
    BY <1>b DEF PickHour
  <2>2. picker \in Picker
    BY <1>b, <1>1 DEF PickHour, WindowTypeOK
  <2>3. h \in 0..24
    BY <2>1, <1>2, <1>3 DEF PickerHours
  <2>4. /\ picker' \in Picker /\ picker'.value = h
        /\ picker'.isEndHour = picker.isEndHour
    BY <2>1, <2>2, <2>3 DEF Picker
  <2>5. PickerOffersItsValue'
    BY <1>b, <2>1, <2>4 DEF PickHour, PickerOffersItsValue, PickerHours, WakeBound
  <2> QED
    BY <1>b, <1>1, <2>4, <2>5
    DEF PickHour, WindowInv, WindowTypeOK, EndsAtZeroFromZero, DialogOffersItsValues,
        WakeHours, BedHours
<1>c. CASE SavePicker
  <2>1. picker \in Picker /\ picker.value \in PickerHours(picker)
    BY <1>c, <1>1 DEF SavePicker, WindowTypeOK, PickerOffersItsValue
  <2>2. settings' \in SettingsWindow /\ EndsAtZeroFromZero'
    <3>1. CASE picker.isEndHour
      <4>1. settings' = [startHour |-> settings.startHour, endHour |-> picker.value]
        BY <1>c, <1>2, <3>1 DEF SavePicker
      <4>2. picker.value \in 0..24 /\ (picker.value = 0 => settings.startHour = 0)
        BY <2>1, <1>2, <3>1 DEF PickerHours, Picker
      <4> QED
        BY <4>1, <4>2, <1>2 DEF SettingsWindow, EndsAtZeroFromZero
    <3>2. CASE ~picker.isEndHour
      <4>1. settings' = [startHour |-> picker.value, endHour |-> settings.endHour]
        BY <1>c, <1>2, <3>2 DEF SavePicker
      <4>2. picker.value \in 0..WakeBound
        BY <2>1, <3>2 DEF PickerHours
      <4>3. settings.endHour = 0 => WakeBound = 0
        BY <1>1, <1>2 DEF WakeBound, IsOvernight, EndsAtZeroFromZero
      <4> QED
        BY <4>1, <4>2, <4>3, <1>2, <1>3 DEF SettingsWindow, EndsAtZeroFromZero
    <3> QED
      BY <3>1, <3>2
  <2> QED
    BY <1>c, <1>1, <2>2
    DEF SavePicker, WindowInv, WindowTypeOK, PickerOffersItsValue, DialogOffersItsValues,
        WakeHours, BedHours
<1>d. CASE CancelPicker
  BY <1>d, <1>1
  DEF CancelPicker, WindowInv, WindowTypeOK, EndsAtZeroFromZero, PickerOffersItsValue,
      DialogOffersItsValues, WakeHours, BedHours
\* The home screen
<1>e. CASE NewHome
  BY <1>e, <1>1
  DEF NewHome, WindowInv, WindowTypeOK, EndsAtZeroFromZero, PickerOffersItsValue,
      DialogOffersItsValues, WakeHours, BedHours
<1>f. ASSUME NEW d \in Days, ChangeDay(d)
      PROVE  WindowInv'
  BY <1>f, <1>1
  DEF ChangeDay, WindowInv, WindowTypeOK, EndsAtZeroFromZero, PickerOffersItsValue,
      DialogOffersItsValues, WakeHours, BedHours
<1>g. CASE RecordEnergy
  <2>1. logs' \in [Days -> Window \cup {NoLog}]
    BY <1>g, <1>1, LocalWindowType DEF RecordEnergy, WindowTypeOK
  <2> QED
    BY <1>g, <1>1, <2>1
    DEF RecordEnergy, WindowInv, WindowTypeOK, EndsAtZeroFromZero, PickerOffersItsValue,
        DialogOffersItsValues, WakeHours, BedHours
<1>h. ASSUME NEW d \in Days, DeleteDailyLog(d)
      PROVE  WindowInv'
  <2>1. logs' \in [Days -> Window \cup {NoLog}]
    BY <1>h, <1>1 DEF DeleteDailyLog, WindowTypeOK
  <2> QED
    BY <1>h, <1>1, <2>1
    DEF DeleteDailyLog, WindowInv, WindowTypeOK, EndsAtZeroFromZero, PickerOffersItsValue,
        DialogOffersItsValues, WakeHours, BedHours
\* The dialog
<1>i. CASE ShowTimeSettings
  <2>1. opening' \in Bounds
    <3>1. /\ MinStartHour(LogOf(selectedDay - 1)) \in 0..23
          /\ MaxEndHour(LogOf(selectedDay + 1)) \in 0..23
      BY <1>1, LogOfType, MinStartHourType, MaxEndHourType
    <3> QED
      BY <1>i, <3>1 DEF ShowTimeSettings, Bounds
  <2> QED
    BY <1>i, <1>1, <2>1
    DEF ShowTimeSettings, WindowInv, WindowTypeOK, EndsAtZeroFromZero, PickerOffersItsValue,
        DialogOffersItsValues, WakeHours, BedHours
<1>j. CASE DialogShown
  <2> DEFINE w == LocalWindow
             g == dialog'
  <2>1. w \in Window /\ w.startHour \in 0..23
    BY <1>1, LocalWindowType DEF Window
  <2>2. opening \in Bounds /\ opening.minStart \in 0..23 /\ opening.maxEnd \in 0..23
    BY <1>j, <1>1 DEF DialogShown, WindowTypeOK, Bounds
  <2>3. /\ InitialEnd(w, opening.maxEnd) \in 0..47
        /\ \/ w.startHour <= InitialEnd(w, opening.maxEnd) /\ InitialEnd(w, opening.maxEnd) <= 24
           \/ 24 <= InitialEnd(w, opening.maxEnd)
              /\ InitialEnd(w, opening.maxEnd) <= 24 + opening.maxEnd
    BY <2>1, <2>2, InitialEndRange
  <2>4. g = [minStart |-> opening.minStart, maxEnd |-> opening.maxEnd,
             start |-> IF w.startHour < opening.minStart THEN opening.minStart
                       ELSE w.startHour,
             end |-> InitialEnd(w, opening.maxEnd),
             raised |-> w.startHour < opening.minStart]
    BY <1>j DEF DialogShown
  <2> HIDE DEF w, g
  <2>5. g \in Dialog
    BY <2>1, <2>2, <2>3, <2>4 DEF Dialog
  <2>6. g.start \in WakeHours(g)
    BY <2>1, <2>2, <2>4 DEF WakeHours
  <2>7. ~g.raised => g.end \in BedHours(g)
    <3> SUFFICES ASSUME ~g.raised
                 PROVE  g.end \in BedHours(g)
      OBVIOUS
    <3>1. /\ g.end = InitialEnd(w, opening.maxEnd)
          /\ g.maxEnd = opening.maxEnd
          /\ g.raised = (w.startHour < opening.minStart)
          /\ g.start = IF w.startHour < opening.minStart THEN opening.minStart
                       ELSE w.startHour
      BY <2>4
    <3>2. g.start = w.startHour
      BY <3>1
    <3> QED
      BY <2>1, <2>2, <2>3, <3>1, <3>2 DEF BedHours
  <2> USE DEF g
  <2> QED
    BY <1>j, <1>1, <2>5, <2>6, <2>7
    DEF DialogShown, WindowInv, WindowTypeOK, EndsAtZeroFromZero, PickerOffersItsValue,
        PickerHours, WakeBound, DialogOffersItsValues, WakeHours, BedHours
<1>k. ASSUME NEW h, ChooseWake(h)
      PROVE  WindowInv'
  <2>1. /\ dialog \in Dialog /\ h \in WakeHours(dialog)
        /\ dialog' = [dialog EXCEPT !.start = h, !.end = IF @ < h THEN h ELSE @]
    BY <1>k, <1>1 DEF ChooseWake, WindowTypeOK
  <2>2. /\ dialog.minStart \in 0..23 /\ dialog.maxEnd \in 0..23 /\ dialog.end \in 0..47
        /\ h \in dialog.minStart..23
    BY <2>1 DEF Dialog, WakeHours
  <2> DEFINE e == IF dialog.end < h THEN h ELSE dialog.end
  <2>a. dialog' = [dialog EXCEPT !.start = h, !.end = e]
    BY <2>1
  <2>b. e \in 0..47 /\ h \in 0..23
    BY <2>2
  <2> HIDE DEF e
  <2> DEFINE r == [minStart |-> dialog.minStart, maxEnd |-> dialog.maxEnd, start |-> h,
                   end |-> e, raised |-> dialog.raised]
  <2>d. dialog = [minStart |-> dialog.minStart, maxEnd |-> dialog.maxEnd,
                  start |-> dialog.start, end |-> dialog.end, raised |-> dialog.raised]
    BY <2>1 DEF Dialog
  <2>e. dialog' = r
    BY <2>a, <2>d
  <2>f. dialog.raised \in BOOLEAN /\ dialog.minStart \in 0..23 /\ dialog.maxEnd \in 0..23
    BY <2>1 DEF Dialog
  <2>g. r \in Dialog
    BY <2>b, <2>f DEF Dialog
  <2>c. /\ dialog' \in Dialog
        /\ dialog'.start = h /\ dialog'.minStart = dialog.minStart
        /\ dialog'.maxEnd = dialog.maxEnd /\ dialog'.raised = dialog.raised
        /\ dialog'.end = e
    BY <2>e, <2>g
  <2>3. /\ dialog' \in Dialog
        /\ dialog'.start = h /\ dialog'.minStart = dialog.minStart
        /\ dialog'.maxEnd = dialog.maxEnd /\ dialog'.raised = dialog.raised
        /\ dialog'.end = IF dialog.end < h THEN h ELSE dialog.end
    BY <2>c DEF e
  <2>4. dialog'.start \in WakeHours(dialog')
    BY <2>2, <2>3 DEF WakeHours
  <2>5. ~dialog'.raised => dialog'.end \in BedHours(dialog')
    <3> SUFFICES ASSUME ~dialog.raised
                 PROVE  dialog'.end \in BedHours(dialog')
      BY <2>3
    <3>1. dialog.end \in dialog.start..24 \cup 25..(24 + dialog.maxEnd)
      BY <1>k, <1>1 DEF ChooseWake, DialogOffersItsValues, BedHours
    <3> QED
      BY <2>2, <2>3, <3>1 DEF BedHours
  <2> QED
    BY <1>k, <1>1, <2>3, <2>4, <2>5
    DEF ChooseWake, WindowInv, WindowTypeOK, EndsAtZeroFromZero, PickerOffersItsValue,
        PickerHours, WakeBound, DialogOffersItsValues
<1>l. ASSUME NEW h, ChooseBed(h)
      PROVE  WindowInv'
  <2>1. /\ dialog \in Dialog /\ h \in BedHours(dialog)
        /\ dialog' = [dialog EXCEPT !.end = h]
    BY <1>l, <1>1 DEF ChooseBed, WindowTypeOK
  <2>2. h \in 0..47
    BY <2>1 DEF Dialog, BedHours
  <2>3. /\ dialog' \in Dialog
        /\ dialog'.start = dialog.start /\ dialog'.minStart = dialog.minStart
        /\ dialog'.maxEnd = dialog.maxEnd /\ dialog'.end = h
    BY <2>1, <2>2 DEF Dialog
  <2>4. dialog'.start \in WakeHours(dialog') /\ dialog'.end \in BedHours(dialog')
    BY <1>l, <1>1, <2>1, <2>3 DEF ChooseBed, WakeHours, BedHours
  <2> QED
    BY <1>l, <1>1, <2>3, <2>4
    DEF ChooseBed, WindowInv, WindowTypeOK, EndsAtZeroFromZero, PickerOffersItsValue,
        PickerHours, WakeBound, DialogOffersItsValues
<1>m. CASE SaveDialog
  <2>1. dialog \in Dialog
    BY <1>m, <1>1 DEF SaveDialog, WindowTypeOK
  <2>2. [startHour |-> dialog.start, endHour |-> dialog.end] \in Window
    BY <2>1 DEF Dialog, Window
  <2>3. logs' \in [Days -> Window \cup {NoLog}]
    BY <1>m, <1>1, <2>2 DEF SaveDialog, WindowTypeOK
  <2> QED
    BY <1>m, <1>1, <2>3
    DEF SaveDialog, WindowInv, WindowTypeOK, EndsAtZeroFromZero, PickerOffersItsValue,
        PickerHours, WakeBound, DialogOffersItsValues
<1>n. CASE CancelDialog
  BY <1>n, <1>1
  DEF CancelDialog, WindowInv, WindowTypeOK, EndsAtZeroFromZero, PickerOffersItsValue,
      PickerHours, WakeBound, DialogOffersItsValues
<1>o. CASE UNCHANGED vars
  BY <1>o, <1>1
  DEF vars, WindowInv, WindowTypeOK, EndsAtZeroFromZero, PickerOffersItsValue,
      PickerHours, WakeBound, DialogOffersItsValues, WakeHours, BedHours
<1> QED
  BY <1>a, <1>b, <1>c, <1>d, <1>e, <1>f, <1>g, <1>h, <1>i, <1>j, <1>k, <1>l, <1>m, <1>n, <1>o
  DEF Next

\* Every variable keeps its type.
THEOREM WindowTyping == Spec => []WindowTypeOK
<1>1. WindowInv => WindowTypeOK
  BY DEF WindowInv
<1> QED
  BY <1>1, WindowInvInit, WindowInvNext, PTL DEF Spec

\* The picker of the settings never shows a value its list lacks.
THEOREM PickerOffersItsValueAlways == Spec => []PickerOffersItsValue
<1>1. WindowInv => PickerOffersItsValue
  BY DEF WindowInv
<1> QED
  BY <1>1, WindowInvInit, WindowInvNext, PTL DEF Spec

\* The dialog of a day never shows a value its lists lack, unless the day before
\* raised its wake hour.
THEOREM DialogOffersItsValuesAlways == Spec => []DialogOffersItsValues
<1>1. WindowInv => DialogOffersItsValues
  BY DEF WindowInv
<1> QED
  BY <1>1, WindowInvInit, WindowInvNext, PTL DEF Spec

\* Every stored day is exported with the goal its share was computed with.
THEOREM ExportGoalAgreesAlways == Spec => []ExportGoalAgrees
<1>1. WindowInv => ExportGoalAgrees
  <2> SUFFICES ASSUME WindowInv, NEW d \in Days, logs[d] # NoLog
               PROVE  ExportGoal(logs[d]) = GoalMinutes(logs[d])
    BY DEF ExportGoalAgrees
  <2>1. logs[d] \in Window
    BY DEF WindowInv, WindowTypeOK
  <2> QED
    BY <2>1, SameGoal
<1> QED
  BY <1>1, WindowInvInit, WindowInvNext, PTL DEF Spec

\* The goal of every stored window, and of the settings, counts its active hours.
THEOREM GoalCountsHoursAlways == Spec => []GoalCountsHours
<1>1. WindowInv => GoalCountsHours
  <2> SUFFICES ASSUME WindowInv,
                      NEW w \in {settings} \cup ({logs[d] : d \in Days} \ {NoLog}),
                      ~(IsOvernight(w) /\ ActualEnd(w) > w.startHour)
               PROVE  GoalMinutes(w) = 60 * Cardinality({h \in 0..23 : IsActive(h, w)})
    BY DEF GoalCountsHours
  <2>1. w \in Window
    BY SettingsAreWindows DEF WindowInv, WindowTypeOK
  <2> QED
    BY <2>1, GoalOfActiveHours
<1> QED
  BY <1>1, WindowInvInit, WindowInvNext, PTL DEF Spec

-----------------------------------------------------------------------------
(* The days side by side *)

\* While the user waits for the dialog, its bounds are those of the days beside.
BoundsHold ==
    /\ opening # Closed =>
           /\ opening.minStart = MinStartHour(LogOf(selectedDay - 1))
           /\ opening.maxEnd = MaxEndHour(LogOf(selectedDay + 1))
    /\ dialog # Closed =>
           /\ dialog.minStart = MinStartHour(LogOf(selectedDay - 1))
           /\ dialog.maxEnd = MaxEndHour(LogOf(selectedDay + 1))
           /\ opening = Closed

LEMMA BoundsHoldNext ==
    ASSUME "hurry" \notin Enabled
    PROVE  WindowInv /\ BoundsHold /\ [Next]_vars => BoundsHold'
<1> SUFFICES ASSUME WindowInv, BoundsHold, [Next]_vars
             PROVE  BoundsHold'
  OBVIOUS
<1> USE DaysAssumption
<1>0. WindowTypeOK
  BY DEF WindowInv
\* The bounds read the logs of other days, the default window and the day.
<1>1. ASSUME opening' = opening, dialog' = dialog, selectedDay' = selectedDay,
             homeDefault' = homeDefault, logs' = logs
      PROVE  BoundsHold'
  BY <1>1 DEF BoundsHold, MinStartHour, MaxEndHour, LogOf
<1>2. ASSUME opening' = Closed, dialog' = Closed
      PROVE  BoundsHold'
  BY <1>2 DEF BoundsHold
<1>a. ASSUME NEW b \in BOOLEAN, OpenPicker(b) PROVE BoundsHold'
  BY <1>1, <1>a DEF OpenPicker
<1>b. CASE PickHour
  BY <1>1, <1>b DEF PickHour
<1>c. CASE SavePicker
  BY <1>1, <1>c DEF SavePicker
<1>d. CASE CancelPicker
  BY <1>1, <1>d DEF CancelPicker
<1>e. CASE NewHome
  BY <1>2, <1>e DEF NewHome
<1>f. ASSUME NEW d \in Days, ChangeDay(d) PROVE BoundsHold'
  BY <1>2, <1>f DEF ChangeDay
<1>g. CASE RecordEnergy
  <2>1. selectedDay \in Int
    BY <1>0 DEF WindowTypeOK
  <2>2. ASSUME NEW k \in {selectedDay - 1, selectedDay + 1}
        PROVE  LogOf(k)' = LogOf(k)
    BY <1>g, <1>0, <2>1 DEF RecordEnergy, LogOf, WindowTypeOK
  <2>3. /\ LogOf(selectedDay - 1)' = LogOf(selectedDay - 1)
        /\ LogOf(selectedDay + 1)' = LogOf(selectedDay + 1)
    BY <1>g, <2>2 DEF RecordEnergy, LogOf
  <2> QED
    BY <1>g, <2>3 DEF RecordEnergy, BoundsHold, MinStartHour, MaxEndHour
<1>h. ASSUME NEW d \in Days, DeleteDailyLog(d) PROVE BoundsHold'
  BY <1>2, <1>h DEF DeleteDailyLog
<1>i. CASE ShowTimeSettings
  BY <1>i DEF ShowTimeSettings, BoundsHold, MinStartHour, MaxEndHour, LogOf
<1>j. CASE DialogShown
  <2>1. /\ dialog'.minStart = opening.minStart /\ dialog'.maxEnd = opening.maxEnd
        /\ opening # Closed /\ opening' = Closed
        /\ UNCHANGED <<homeDefault, logs, selectedDay>>
    BY <1>j DEF DialogShown
  <2> QED
    BY <2>1 DEF BoundsHold, MinStartHour, MaxEndHour, LogOf
<1>k. ASSUME NEW h, ChooseWake(h) PROVE BoundsHold'
  <2>1. /\ dialog \in Dialog /\ dialog # Closed
        /\ dialog' = [dialog EXCEPT !.start = h, !.end = IF @ < h THEN h ELSE @]
        /\ UNCHANGED <<homeDefault, logs, selectedDay, opening>>
    BY <1>k, <1>0 DEF ChooseWake, WindowTypeOK
  <2>2. dialog'.minStart = dialog.minStart /\ dialog'.maxEnd = dialog.maxEnd
    BY <2>1 DEF Dialog
  <2> QED
    BY <2>1, <2>2 DEF BoundsHold, MinStartHour, MaxEndHour, LogOf
<1>l. ASSUME NEW h, ChooseBed(h) PROVE BoundsHold'
  <2>1. /\ dialog \in Dialog /\ dialog # Closed
        /\ dialog' = [dialog EXCEPT !.end = h]
        /\ UNCHANGED <<homeDefault, logs, selectedDay, opening>>
    BY <1>l, <1>0 DEF ChooseBed, WindowTypeOK
  <2>2. dialog'.minStart = dialog.minStart /\ dialog'.maxEnd = dialog.maxEnd
    BY <2>1 DEF Dialog
  <2> QED
    BY <2>1, <2>2 DEF BoundsHold, MinStartHour, MaxEndHour, LogOf
<1>m. CASE SaveDialog
  <2>1. opening' = Closed
    BY <1>m DEF SaveDialog, BoundsHold
  <2> QED
    BY <1>m, <2>1 DEF SaveDialog, BoundsHold
<1>n. CASE CancelDialog
  BY <1>n DEF CancelDialog, BoundsHold, MinStartHour, MaxEndHour, LogOf
<1>o. CASE UNCHANGED vars
  BY <1>1, <1>o DEF vars
<1> QED
  BY <1>a, <1>b, <1>c, <1>d, <1>e, <1>f, <1>g, <1>h, <1>i, <1>j, <1>k, <1>l, <1>m, <1>n, <1>o
  DEF Next

LEMMA BoundsHoldInit == Init => BoundsHold
  BY DEF Init, BoundsHold

\* The bed hour of a dialog is never beyond its upper bound, raised or not.
BedWithinBound == dialog # Closed => dialog.end <= 24 + dialog.maxEnd

LEMMA BedWithinBoundInit == Init => BedWithinBound
  BY DEF Init, BedWithinBound

LEMMA BedWithinBoundNext == WindowInv /\ BedWithinBound /\ [Next]_vars => BedWithinBound'
<1> SUFFICES ASSUME WindowInv, BedWithinBound, [Next]_vars
             PROVE  BedWithinBound'
  OBVIOUS
<1> USE DaysAssumption
<1>0. WindowTypeOK
  BY DEF WindowInv
<1>1. ASSUME UNCHANGED dialog
      PROVE  BedWithinBound'
  BY <1>1 DEF BedWithinBound
<1>2. ASSUME dialog' = Closed
      PROVE  BedWithinBound'
  BY <1>2 DEF BedWithinBound
<1>3. CASE DialogShown
  <2>1. opening.maxEnd \in 0..23 /\ LocalWindow \in Window
    BY <1>0, <1>3, LocalWindowType DEF DialogShown, WindowTypeOK, Bounds
  <2>2. InitialEnd(LocalWindow, opening.maxEnd) \in 0..47
        /\ InitialEnd(LocalWindow, opening.maxEnd) <= 24 + opening.maxEnd
    BY <2>1, InitialEndRange
  <2>3. /\ dialog'.maxEnd = opening.maxEnd
        /\ dialog'.end = InitialEnd(LocalWindow, opening.maxEnd)
    BY <1>3 DEF DialogShown
  <2> QED
    BY <2>2, <2>3 DEF BedWithinBound
<1>4. ASSUME NEW h, ChooseWake(h)
      PROVE  BedWithinBound'
  <2>1. /\ dialog \in Dialog /\ dialog # Closed /\ h \in WakeHours(dialog)
        /\ dialog' = [dialog EXCEPT !.start = h, !.end = IF @ < h THEN h ELSE @]
    BY <1>0, <1>4 DEF ChooseWake, WindowTypeOK
  <2>2. /\ dialog.maxEnd \in 0..23 /\ dialog.end \in 0..47 /\ h \in dialog.minStart..23
        /\ dialog.minStart \in 0..23
    BY <2>1 DEF Dialog, WakeHours
  <2>3. /\ dialog'.maxEnd = dialog.maxEnd
        /\ dialog'.end = IF dialog.end < h THEN h ELSE dialog.end
    BY <2>1 DEF Dialog
  <2>4. dialog.end <= 24 + dialog.maxEnd
    BY <2>1 DEF BedWithinBound
  <2> QED
    BY <2>2, <2>3, <2>4 DEF BedWithinBound
<1>5. ASSUME NEW h, ChooseBed(h)
      PROVE  BedWithinBound'
  <2>1. /\ dialog \in Dialog /\ h \in BedHours(dialog)
        /\ dialog' = [dialog EXCEPT !.end = h]
    BY <1>0, <1>5 DEF ChooseBed, WindowTypeOK
  <2>2. /\ dialog.maxEnd \in 0..23
        /\ h \in dialog.start..24 \cup 25..(24 + dialog.maxEnd) /\ dialog.start \in 0..23
    BY <2>1 DEF Dialog, BedHours
  <2>3. dialog'.maxEnd = dialog.maxEnd /\ dialog'.end = h
    BY <2>1 DEF Dialog
  <2> QED
    BY <2>2, <2>3 DEF BedWithinBound
<1>6. ASSUME NEW d \in Days, ChangeDay(d) \/ DeleteDailyLog(d)
      PROVE  BedWithinBound'
  BY <1>1, <1>6 DEF ChangeDay, DeleteDailyLog
<1>7. ASSUME NEW b \in BOOLEAN, OpenPicker(b)
      PROVE  BedWithinBound'
  BY <1>1, <1>7 DEF OpenPicker
<1>8. CASE SaveDialog \/ CancelDialog
  BY <1>2, <1>8 DEF SaveDialog, CancelDialog
<1>9. CASE PickHour \/ SavePicker \/ CancelPicker \/ NewHome \/ RecordEnergy
           \/ ShowTimeSettings \/ UNCHANGED vars
  BY <1>1, <1>9
  DEF PickHour, SavePicker, CancelPicker, NewHome, RecordEnergy, ShowTimeSettings, vars
<1> QED
  BY <1>3, <1>4, <1>5, <1>6, <1>7, <1>8, <1>9 DEF Next

\* Unless the user hurries ahead of the dialog, or the day before raises the wake
\* hour past the bed hour, a window saved overnight ends before the next day's
\* wake hour.
THEOREM BedBeforeNextWakeAlways ==
    ASSUME "hurry" \notin Enabled
    PROVE  Spec => BedBeforeNextWake
<1> DEFINE Ends == SaveDialog /\ ~RaisedPastBed(dialog) /\ LogOf(selectedDay + 1) # NoLog
                       /\ IsOvernight(logs'[selectedDay]) =>
                   ActualEnd(logs'[selectedDay]) <= LogOf(selectedDay + 1).startHour
<1>1. WindowInv /\ BoundsHold /\ BedWithinBound /\ [Next]_vars => [Ends]_vars
  <2> SUFFICES ASSUME WindowInv, BoundsHold, BedWithinBound, SaveDialog,
                      ~RaisedPastBed(dialog), LogOf(selectedDay + 1) # NoLog,
                      IsOvernight(logs'[selectedDay])
               PROVE  ActualEnd(logs'[selectedDay]) <= LogOf(selectedDay + 1).startHour
    OBVIOUS
  <2> USE DaysAssumption
  <2>1. dialog \in Dialog /\ dialog # Closed /\ logs'[selectedDay] =
            [startHour |-> dialog.start, endHour |-> dialog.end]
    BY DEF WindowInv, WindowTypeOK, SaveDialog
  <2>2. /\ dialog.start \in 0..23 /\ dialog.end \in 0..47 /\ dialog.maxEnd \in 0..23
        /\ dialog.raised \in BOOLEAN
    BY <2>1 DEF Dialog
  <2>3. dialog.end >= dialog.start
    <3>1. CASE dialog.raised
      BY <2>2, <3>1 DEF RaisedPastBed
    <3>2. CASE ~dialog.raised
      <4>1. dialog.end \in dialog.start..24 \cup 25..(24 + dialog.maxEnd)
        BY <2>1, <3>2 DEF WindowInv, DialogOffersItsValues, BedHours
      <4> QED
        BY <2>2, <4>1
    <3> QED
      BY <3>1, <3>2
  <2>4. dialog.maxEnd = LogOf(selectedDay + 1).startHour
    BY <2>1 DEF BoundsHold, MaxEndHour
  <2>5. dialog.end >= 24
    BY <2>1, <2>2, <2>3 DEF IsOvernight
  <2>6. ActualEnd(logs'[selectedDay]) = dialog.end - 24
    BY <2>1, <2>2, <2>5 DEF ActualEnd
  <2>7. dialog.end <= 24 + dialog.maxEnd
    BY <2>1 DEF BedWithinBound
  <2> QED
    BY <2>2, <2>4, <2>6, <2>7
<1>2. BedBeforeNextWake <=> [][Ends]_vars
  BY DEF BedBeforeNextWake
<1> QED
  BY <1>1, <1>2, WindowInvInit, WindowInvNext, BoundsHoldInit, BoundsHoldNext,
     BedWithinBoundInit, BedWithinBoundNext, PTL DEF Spec

\* With the same patience a saved window wakes no earlier than a bed hour the
\* day before took from the settings.
THEOREM WakeAfterPreviousBedAlways ==
    ASSUME "hurry" \notin Enabled
    PROVE  Spec => WakeAfterPreviousBed
<1> DEFINE Wakes == SaveDialog /\ LogOf(selectedDay - 1) # NoLog
                       /\ LogOf(selectedDay - 1).endHour < LogOf(selectedDay - 1).startHour =>
                    LogOf(selectedDay - 1).endHour <= logs'[selectedDay].startHour
<1>1. WindowInv /\ BoundsHold /\ [Next]_vars => [Wakes]_vars
  <2> SUFFICES ASSUME WindowInv, BoundsHold, SaveDialog, LogOf(selectedDay - 1) # NoLog,
                      LogOf(selectedDay - 1).endHour < LogOf(selectedDay - 1).startHour
               PROVE  LogOf(selectedDay - 1).endHour <= logs'[selectedDay].startHour
    OBVIOUS
  <2> USE DaysAssumption
  <2>1. dialog \in Dialog /\ dialog # Closed /\ logs'[selectedDay] =
            [startHour |-> dialog.start, endHour |-> dialog.end]
    BY DEF WindowInv, WindowTypeOK, SaveDialog
  <2>2. dialog.start \in dialog.minStart..23 /\ dialog.minStart \in 0..23
    BY <2>1 DEF WindowInv, WakeHours, Dialog
  <2>3. dialog.minStart = LogOf(selectedDay - 1).endHour
    BY <2>1 DEF BoundsHold, MinStartHour
  <2> QED
    BY <2>1, <2>2, <2>3
<1>2. WakeAfterPreviousBed <=> [][Wakes]_vars
  BY DEF WakeAfterPreviousBed
<1> QED
  BY <1>1, <1>2, WindowInvInit, WindowInvNext, BoundsHoldInit, BoundsHoldNext, PTL DEF Spec
=============================================================================
