-------------------------- MODULE EnergyHomeProofs --------------------------
(***************************************************************************)
(* Proofs about EnergyHome for every value of its constants: types, the    *)
(* pending edit, where stored minutes come from, the implementation of     *)
(* EnergyLog, and that a commit is the step FirestoreTransaction           *)
(* implements.  Where minutes come from and EnergyLog need that the day    *)
(* never changes under a pending edit, which the calendar picker breaks:   *)
(* they are stated for an instance without it.                             *)
(***************************************************************************)
EXTENDS EnergyHomeProperties, TLAPS

-----------------------------------------------------------------------------
(* The documents *)

LEMMA WindowsInAll ==
    /\ DefaultWindow \in AllWindows
    /\ UserWindow \in AllWindows
    /\ Windows \subseteq AllWindows
  BY DEF AllWindows

LEMMA NoRecordsType == NoRecords \in Records
  BY DEF NoRecords, Records

LEMMA DocsElement ==
    ASSUME NEW r \in Records, NEW w \in AllWindows
    PROVE  Doc(r, w) \in Docs
  BY DEF Docs

\* The records and the window of whatever the stream or the server holds.
LEMMA RecordsOfType ==
    ASSUME NEW doc \in Docs \cup {NoDoc, Unknown}
    PROVE  RecordsOf(doc) \in Records
  BY NoRecordsType DEF RecordsOf, Docs, Doc

LEMMA WindowAfterFrameType ==
    ASSUME NEW doc \in Docs \cup {NoDoc, Unknown}, NEW default \in AllWindows
    PROVE  WindowAfterFrame(doc, default) \in AllWindows
  BY DEF WindowAfterFrame, Docs, Doc

\* A write makes a document of a document.
LEMMA AppliedType ==
    ASSUME NEW doc \in Docs \cup {NoDoc}, NEW u \in Write
    PROVE  Applied(doc, u) \in Docs \cup {NoDoc}
<1>1. RecordsOf(doc) \in Records
  BY RecordsOfType
<1>2. CASE u.hour = NoHour
  BY <1>1, <1>2, DocsElement DEF Applied, Written, Write
<1>3. CASE u.hour # NoHour
  <2>1. u.hour \in Hours /\ u.minutes \in Minutes \cup {Unset} /\ u.window \in AllWindows
    BY <1>3 DEF Write
  <2>2. [RecordsOf(doc) EXCEPT ![u.hour] = u.minutes] \in Records
    BY <1>1, <2>1 DEF Records
  <2> QED
    BY <1>3, <2>1, <2>2, DocsElement DEF Applied, Written
<1> QED
  BY <1>2, <1>3

-----------------------------------------------------------------------------
(* Types *)

\* The shape of a call.
LEMMA WriteRecord ==
    ASSUME NEW i \in 1..MaxEdits, NEW k \in Kinds, NEW d \in Dates,
           NEW h \in Hours \cup {NoHour}, NEW m \in Minutes \cup {Unset},
           NEW w \in AllWindows
    PROVE  [edit |-> i, kind |-> k, date |-> d, hour |-> h, minutes |-> m,
            window |-> w, mounted |-> TRUE] \in Write
  BY DEF Write

\* The call that _flushPending makes is a write.
LEMMA PendingWriteType == TypeOK => PendingWrite \subseteq Write
<1> SUFFICES ASSUME TypeOK, pending # NoPending PROVE PendingWrite \subseteq Write
  BY DEF PendingWrite
<1>1. /\ pending.hour \in Hours /\ pending.minutes \in Minutes
      /\ pending.edit \in 1..MaxEdits
  BY DEF TypeOK
<1>2. selectedDate \in Dates /\ localWindow \in AllWindows /\ "energy" \in Kinds
  BY DEF TypeOK, Kinds
<1>3. [edit |-> pending.edit, kind |-> "energy", date |-> selectedDate,
       hour |-> pending.hour, minutes |-> pending.minutes,
       window |-> localWindow, mounted |-> TRUE] \in Write
  BY <1>1, <1>2, WriteRecord
<1> QED
  BY <1>3 DEF PendingWrite

LEMMA UnmountedType == ASSUME NEW W \in SUBSET Write PROVE Unmounted(W) \subseteq Write
<1> SUFFICES ASSUME NEW u \in W PROVE [u EXCEPT !.mounted = FALSE] \in Write
  BY DEF Unmounted
<1> QED
  BY DEF Write

\* What every handler that flushes leaves behind.
LEMMA FlushType ==
    ASSUME TypeOK, FlushPending
    PROVE  /\ inflight' \subseteq Write
           /\ pending' = NoPending
           /\ debounce' = FALSE
  BY PendingWriteType DEF FlushPending, TypeOK

\* The history grows by one gesture, inside its bound.
LEMMA LoggedType ==
    ASSUME TypeOK, CanEdit,
           NEW k \in Kinds, NEW d \in Dates, NEW h \in Hours \cup {NoHour},
           NEW m \in Minutes \cup {Unset}, NEW w \in AllWindows,
           Logged(k, d, h, m, w)
    PROVE  /\ NextEdit \in 1..MaxEdits
           /\ edits' \in Seq(Edit) /\ Len(edits') <= MaxEdits
           /\ Len(edits') = NextEdit
<1>1. [kind |-> k, date |-> d, hour |-> h, minutes |-> m, window |-> w] \in Edit
  BY DEF Edit
<1>2. edits \in Seq(Edit) /\ Len(edits) \in Nat /\ MaxEdits \in Nat
  BY ConstantsAssumption DEF TypeOK
<1> QED
  BY <1>1, <1>2 DEF Logged, CanEdit, NextEdit

LEMMA FreshHomeType ==
    ASSUME NEW d \in Dates, FreshHome(d)
    PROVE  /\ selectedDate' \in Dates
           /\ selectedHour' \in Hours \cup {NoHour}
           /\ isNextDay' \in BOOLEAN
           /\ localWindow' \in AllWindows
           /\ defaultWindow' \in AllWindows
           /\ loading' \in BOOLEAN
           /\ snapshot' \in Docs \cup {NoDoc, Unknown}
           /\ optimistic' \in Records
           /\ pending' = NoPending
           /\ debounce' = FALSE
           /\ isSaveError' \in BOOLEAN
  BY WindowsInAll, NoRecordsType, ConstantsAssumption DEF FreshHome, HourOn

\* The initial state is well typed.
LEMMA InitType == Init => TypeOK
<1> SUFFICES ASSUME Init PROVE TypeOK
  OBVIOUS
<1>1. edits \in Seq(Edit) /\ Len(edits) = 0 /\ 0 <= MaxEdits
  BY ConstantsAssumption DEF Init
<1> QED
  BY <1>1, WindowsInAll, NoRecordsType, ConstantsAssumption DEF Init, TypeOK

\* Every step keeps the types.
LEMMA NextType == TypeOK /\ [Next]_vars => TypeOK'
<1> SUFFICES ASSUME TypeOK, [Next]_vars PROVE TypeOK'
  OBVIOUS
<1> USE DEF TypeOK
<1>1. CASE DebounceFires
  BY <1>1, FlushType DEF DebounceFires
<1>2. CASE AppPaused
  BY <1>2, FlushType DEF AppPaused
<1>3. ASSUME NEW m \in Minutes, UpdateEnergy(m) PROVE TypeOK'
  <2>1. inflight' \subseteq Write
    BY <1>3, PendingWriteType DEF UpdateEnergy
  <2>2. selectedHour \in Hours /\ optimistic' \in Records
    BY <1>3 DEF UpdateEnergy, Records
  <2>3. NextEdit \in 1..MaxEdits /\ edits' \in Seq(Edit) /\ Len(edits') <= MaxEdits
    BY <1>3, <2>2, LoggedType DEF UpdateEnergy, Kinds
  <2> QED
    BY <1>3, <2>1, <2>2, <2>3 DEF UpdateEnergy
<1>4. ASSUME NEW w \in Windows, UpdateSettings(w) PROVE TypeOK'
  <2>1. NextEdit \in 1..MaxEdits /\ edits' \in Seq(Edit) /\ Len(edits') <= MaxEdits
    BY <1>4, LoggedType, WindowsInAll DEF UpdateSettings, Kinds
  <2>2. inflight' \subseteq Write
    <3>1. [edit |-> NextEdit, kind |-> "window", date |-> selectedDate, hour |-> NoHour,
           minutes |-> Unset, window |-> w, mounted |-> TRUE] \in Write
      BY <2>1, WindowsInAll, WriteRecord DEF Kinds
    <3> QED
      BY <1>4, <3>1 DEF UpdateSettings
  <2>3. localWindow' \in AllWindows
    BY <1>4, WindowAfterFrameType DEF UpdateSettings
  <2> QED
    BY <1>4, <2>1, <2>2, <2>3 DEF UpdateSettings
<1>5. ASSUME NEW h \in Hours, NEW nextDay \in BOOLEAN, TapRow(h, nextDay) PROVE TypeOK'
  BY <1>5, FlushType DEF TapRow, SelectHour
<1>6. ASSUME NEW delta \in {-1, 1}, StepHour(delta) PROVE TypeOK'
  BY <1>6, FlushType DEF StepHour, SelectHour
<1>7. ASSUME NEW d \in Dates, MoveTo(d) PROVE TypeOK'
  BY <1>7, FlushType, NoRecordsType, ConstantsAssumption DEF MoveTo, HourOn
<1>8. ASSUME NEW delta \in {-1, 1}, ChangeDate(delta) PROVE TypeOK'
  BY <1>7, <1>8 DEF ChangeDate
<1>9. CASE GoToday
  BY <1>7, <1>9, ConstantsAssumption DEF GoToday
<1>10. ASSUME NEW d \in Dates, PickDate(d) PROVE TypeOK'
  BY <1>10 DEF PickDate
<1>11. CASE DefaultsLoaded
  BY <1>11, WindowAfterFrameType, WindowsInAll DEF DefaultsLoaded
<1>12. CASE StreamEmits
  BY <1>12, WindowAfterFrameType DEF StreamEmits
<1>13. ASSUME NEW d \in Dates, Sync(d) PROVE TypeOK'
  BY <1>13 DEF Sync, home
<1>14. ASSUME NEW d \in Dates, OpenHomeTab(d) PROVE TypeOK'
  <2>1. CASE d = initialDate
    BY <1>14, <2>1 DEF OpenHomeTab, home
  <2>2. CASE d # initialDate
    <3>1. inflight' \subseteq Write
      BY <1>14, <2>2, PendingWriteType, UnmountedType DEF OpenHomeTab
    <3> QED
      BY <1>14, <2>2, <3>1, FreshHomeType DEF OpenHomeTab
  <2> QED
    BY <2>1, <2>2
<1>15. ASSUME NEW d \in Dates, DeleteLog(d) PROVE TypeOK'
  <2>1. NextEdit \in 1..MaxEdits /\ edits' \in Seq(Edit) /\ Len(edits') <= MaxEdits
    BY <1>15, LoggedType, WindowsInAll DEF DeleteLog, Kinds
  <2>2. inflight' \subseteq Write
    <3>1. [edit |-> NextEdit, kind |-> "delete", date |-> d, hour |-> NoHour,
           minutes |-> Unset, window |-> DefaultWindow, mounted |-> TRUE] \in Write
      BY <2>1, WindowsInAll, WriteRecord DEF Kinds
    <3> QED
      BY <1>15, <3>1 DEF DeleteLog
  <2> QED
    BY <1>15, <2>1, <2>2 DEF DeleteLog, home
<1>16. ASSUME NEW t \in {"home", "trend"}, SwitchTab(t) PROVE TypeOK'
  BY <1>16 DEF SwitchTab, home
<1>17. CASE SignOut
  BY <1>17, UnmountedType DEF SignOut, DroppedEdit
<1>18. CASE SignIn
  BY <1>18, FreshHomeType, ConstantsAssumption DEF SignIn
<1>19. CASE Relaunch
  <2>1. PICK gone \in SUBSET {u \in inflight : u.kind # "delete"} :
            /\ inflight' = Unmounted(inflight \ gone)
            /\ lost' = lost \cup DroppedEdit \cup {u.edit : u \in gone}
    BY <1>19 DEF Relaunch
  <2>2. inflight' \subseteq Write
    BY <2>1, UnmountedType
  <2>3. {u.edit : u \in gone} \subseteq 1..MaxEdits
    BY DEF Write
  <2>4. lost' \subseteq 1..MaxEdits
    BY <2>1, <2>3 DEF DroppedEdit
  <2> QED
    BY <1>19, <2>2, <2>4, FreshHomeType, ConstantsAssumption DEF Relaunch
<1>20. ASSUME NEW u \in inflight, NEW lostReply \in BOOLEAN, Commit(u, lostReply)
       PROVE  TypeOK'
  <2>1. u \in Write /\ u.date \in Dates /\ u.edit \in 1..MaxEdits
    BY DEF Write
  <2>2. Applied(server[u.date], u) \in Docs \cup {NoDoc}
    BY <2>1, AppliedType
  <2>3. lost' \subseteq 1..MaxEdits
    BY <1>20, <2>1 DEF Commit
  <2> QED
    BY <1>20, <2>1, <2>2, <2>3 DEF Commit, Answered
<1>21. ASSUME NEW u \in inflight, Fail(u) PROVE TypeOK'
  <2>1. u \in Write /\ u.edit \in 1..MaxEdits
    BY DEF Write
  <2> QED
    BY <1>21, <2>1 DEF Fail, Answered
<1>22. CASE UNCHANGED vars
  BY <1>22 DEF vars, home
<1> QED
  BY <1>1, <1>2, <1>3, <1>4, <1>5, <1>6, <1>8, <1>9, <1>10, <1>11, <1>12, <1>13,
     <1>14, <1>15, <1>16, <1>17, <1>18, <1>19, <1>20, <1>21, <1>22
     DEF Next, Network

\* Every reachable state is well typed, and every stored total is the total of
\* the stored records in the stored window (updateEnergyLog).
THEOREM Typing == Spec => []TypeOK
  BY InitType, NextType, PTL DEF Spec

-----------------------------------------------------------------------------
(* The pending edit: armed, on the selected hour, and shown *)

PendingOK ==
    /\ PendingIsArmed
    /\ PendingHourIsSelected
    /\ pending # NoPending => optimistic[pending.hour] = pending.minutes

\* A screen without a pending edit and without a timer satisfies it.
LEMMA NothingPending == pending' = NoPending /\ debounce' = FALSE => PendingOK'
  BY DEF PendingOK, PendingIsArmed, PendingHourIsSelected

LEMMA PendingStep == TypeOK /\ PendingOK /\ [Next]_vars => PendingOK'
<1> SUFFICES ASSUME TypeOK, PendingOK, [Next]_vars PROVE PendingOK'
  OBVIOUS
<1> USE NothingPending
<1> DEFINE Kept == UNCHANGED <<selectedHour, optimistic, pending, debounce>>
<1>0. ASSUME Kept PROVE PendingOK'
  BY <1>0 DEF PendingOK, PendingIsArmed, PendingHourIsSelected
<1>1. CASE DebounceFires
  BY <1>1 DEF DebounceFires, FlushPending
<1>2. CASE AppPaused
  BY <1>2 DEF AppPaused, FlushPending
<1>3. ASSUME NEW m \in Minutes, UpdateEnergy(m) PROVE PendingOK'
  <2>1. selectedHour \in Hours /\ NextEdit \in Nat
    BY <1>3 DEF UpdateEnergy, TypeOK, NextEdit
  <2>2. pending' = [hour |-> selectedHour, minutes |-> m, edit |-> NextEdit]
        /\ pending' # NoPending
    BY <1>3, <2>1, MarkersAssumption DEF UpdateEnergy
  <2>3. optimistic'[selectedHour] = m
    BY <1>3, <2>1 DEF UpdateEnergy, TypeOK, Records
  <2> QED
    BY <1>3, <2>2, <2>3 DEF UpdateEnergy, PendingOK, PendingIsArmed, PendingHourIsSelected
<1>4. ASSUME NEW w \in Windows, UpdateSettings(w) PROVE PendingOK'
  BY <1>0, <1>4 DEF UpdateSettings
<1>5. ASSUME NEW h \in Hours, NEW nextDay \in BOOLEAN, TapRow(h, nextDay) PROVE PendingOK'
  BY <1>5 DEF TapRow, SelectHour, FlushPending
<1>6. ASSUME NEW delta \in {-1, 1}, StepHour(delta) PROVE PendingOK'
  BY <1>6 DEF StepHour, SelectHour, FlushPending
<1>7. ASSUME NEW delta \in {-1, 1}, ChangeDate(delta) PROVE PendingOK'
  BY <1>7 DEF ChangeDate, MoveTo, FlushPending
<1>8. CASE GoToday
  BY <1>8 DEF GoToday, MoveTo, FlushPending
<1>9. ASSUME NEW d \in Dates, PickDate(d) PROVE PendingOK'
  BY <1>0, <1>9 DEF PickDate
<1>10. CASE DefaultsLoaded
  BY <1>0, <1>10 DEF DefaultsLoaded
<1>11. CASE StreamEmits
  BY <1>0, <1>11 DEF StreamEmits
<1>12. ASSUME NEW d \in Dates, Sync(d) PROVE PendingOK'
  BY <1>0, <1>12 DEF Sync, home
<1>13. ASSUME NEW d \in Dates, OpenHomeTab(d) PROVE PendingOK'
  <2>1. CASE d = initialDate
    BY <1>0, <1>13, <2>1 DEF OpenHomeTab, home
  <2>2. CASE d # initialDate
    BY <1>13, <2>2 DEF OpenHomeTab, FreshHome
  <2> QED
    BY <2>1, <2>2
<1>14. ASSUME NEW d \in Dates, DeleteLog(d) PROVE PendingOK'
  BY <1>0, <1>14 DEF DeleteLog, home
<1>15. ASSUME NEW t \in {"home", "trend"}, SwitchTab(t) PROVE PendingOK'
  BY <1>0, <1>15 DEF SwitchTab, home
<1>16. CASE SignOut
  BY <1>16 DEF SignOut
<1>17. CASE SignIn
  BY <1>17 DEF SignIn, FreshHome
<1>18. CASE Relaunch
  BY <1>18 DEF Relaunch, FreshHome
<1>19. ASSUME NEW u \in inflight, NEW lostReply \in BOOLEAN, Commit(u, lostReply)
       PROVE  PendingOK'
  BY <1>0, <1>19 DEF Commit
<1>20. ASSUME NEW u \in inflight, Fail(u) PROVE PendingOK'
  BY <1>0, <1>20 DEF Fail
<1>21. CASE UNCHANGED vars
  BY <1>0, <1>21 DEF vars, home
<1> QED
  BY <1>1, <1>2, <1>3, <1>4, <1>5, <1>6, <1>7, <1>8, <1>9, <1>10, <1>11, <1>12,
     <1>13, <1>14, <1>15, <1>16, <1>17, <1>18, <1>19, <1>20, <1>21 DEF Next, Network

LEMMA PendingAlways == Spec => []PendingOK
<1>1. Init => PendingOK
  BY DEF Init, PendingOK, PendingIsArmed, PendingHourIsSelected
<1> QED
  BY <1>1, PendingStep, Typing, PTL DEF Spec

\* Every edit that waits has a running timer that will send it, and no timer
\* runs for nothing (_updateEnergy, _flushPending, dispose).
THEOREM PendingIsArmedAlways == Spec => []PendingIsArmed
<1>1. PendingOK => PendingIsArmed
  BY DEF PendingOK
<1> QED
  BY <1>1, PendingAlways, PTL

\* The hour of the edit that waits is the selected one, so _updateEnergy never
\* finds an edit of another hour to flush.
THEOREM PendingHourIsSelectedAlways == Spec => []PendingHourIsSelected
<1>1. PendingOK => PendingHourIsSelected
  BY DEF PendingOK
<1> QED
  BY <1>1, PendingAlways, PTL

\* What is about to be sent is what the screen shows for its hour.
THEOREM PendingIsShownAlways == Spec => []PendingIsShown
<1>1. TypeOK /\ PendingOK => PendingIsShown
  <2> SUFFICES ASSUME TypeOK, PendingOK, pending # NoPending
               PROVE  Shown[pending.hour] = pending.minutes
    BY DEF PendingIsShown
  <2>1. pending.hour \in Hours /\ pending.minutes \in Minutes
    BY DEF TypeOK
  <2>2. optimistic[pending.hour] = pending.minutes /\ pending.minutes # Unset
    BY <2>1, ConstantsAssumption DEF PendingOK
  <2> QED
    BY <2>1, <2>2 DEF Shown
<1> QED
  BY <1>1, Typing, PendingAlways, PTL

-----------------------------------------------------------------------------
(* The kinds of step *)

\* Nothing that carries a value moves.
StepKeeps == UNCHANGED <<server, inflight, pending, selectedDate, edits>>

\* The pending edit becomes a call for the day that is selected before the step.
StepFlushes ==
    /\ signedIn
    /\ inflight' \in {inflight \cup PendingWrite, Unmounted(inflight \cup PendingWrite)}
    /\ pending' = NoPending
    /\ UNCHANGED <<server, edits>>

\* The pending edit is forgotten, and with it calls that have not got through.
StepDrops ==
    /\ \E kept \in SUBSET inflight : inflight' \in {kept, Unmounted(kept)}
    /\ pending' = NoPending
    /\ UNCHANGED <<server, edits>>

LEMMA StepKinds ==
    ASSUME "picker" \notin Enabled, TypeOK, [Next]_vars
    PROVE  \/ StepKeeps \/ StepFlushes \/ StepDrops
           \/ \E m \in Minutes : UpdateEnergy(m)
           \/ \E w \in Windows : UpdateSettings(w)
           \/ \E d \in Dates : DeleteLog(d)
           \/ \E u \in inflight : Fail(u) \/ \E lostReply \in BOOLEAN : Commit(u, lostReply)
<1>1. CASE DebounceFires
  BY <1>1 DEF DebounceFires, FlushPending, StepFlushes
<1>2. CASE AppPaused
  BY <1>2 DEF AppPaused, FlushPending, StepFlushes
<1>3. ASSUME NEW h \in Hours, NEW nextDay \in BOOLEAN, TapRow(h, nextDay) PROVE StepFlushes
  BY <1>3 DEF TapRow, SelectHour, HomeInFront, FlushPending, StepFlushes
<1>4. ASSUME NEW delta \in {-1, 1}, StepHour(delta) PROVE StepFlushes
  BY <1>4 DEF StepHour, SelectHour, HomeInFront, FlushPending, StepFlushes
<1>5. ASSUME NEW delta \in {-1, 1}, ChangeDate(delta) PROVE StepFlushes
  BY <1>5 DEF ChangeDate, MoveTo, HomeInFront, FlushPending, StepFlushes
<1>6. CASE GoToday
  BY <1>6 DEF GoToday, MoveTo, HomeInFront, FlushPending, StepFlushes
<1>7. ASSUME NEW d \in Dates, PickDate(d) PROVE FALSE
  BY <1>7 DEF PickDate
<1>8. CASE DefaultsLoaded
  BY <1>8 DEF DefaultsLoaded, StepKeeps
<1>9. CASE StreamEmits
  BY <1>9 DEF StreamEmits, StepKeeps
<1>10. ASSUME NEW d \in Dates, Sync(d) PROVE StepKeeps
  BY <1>10 DEF Sync, home, StepKeeps
<1>11. ASSUME NEW d \in Dates, OpenHomeTab(d) PROVE StepKeeps \/ StepFlushes
  BY <1>11 DEF OpenHomeTab, FreshHome, home, StepKeeps, StepFlushes
<1>12. ASSUME NEW t \in {"home", "trend"}, SwitchTab(t) PROVE StepKeeps
  BY <1>12 DEF SwitchTab, home, StepKeeps
<1>13. CASE SignOut
  BY <1>13 DEF SignOut, StepDrops
<1>14. CASE SignIn
  BY <1>14 DEF SignIn, FreshHome, StepDrops
<1>15. CASE Relaunch
  BY <1>15 DEF Relaunch, FreshHome, StepDrops
<1>16. CASE UNCHANGED vars
  BY <1>16 DEF vars, home, StepKeeps
<1> QED
  BY <1>1, <1>2, <1>3, <1>4, <1>5, <1>6, <1>7, <1>8, <1>9, <1>10, <1>11, <1>12,
     <1>13, <1>14, <1>15, <1>16 DEF Next, Network

-----------------------------------------------------------------------------
(* Every call and the pending edit are a gesture of the history *)

CallOK(u) ==
    /\ u.edit \in 1..Len(edits)
    /\ u.kind = "energy" => u.hour \in Hours /\ Entered(u.edit, u.date, u.hour, u.minutes)
    /\ u.kind # "energy" => /\ u.hour = NoHour /\ u.minutes = Unset
                            /\ edits[u.edit].kind = u.kind /\ edits[u.edit].date = u.date

Provenance ==
    /\ \A u \in inflight : CallOK(u)
    /\ pending # NoPending =>
           /\ pending.edit \in 1..Len(edits)
           /\ Entered(pending.edit, selectedDate, pending.hour, pending.minutes)

\* No two of them are the same gesture.
Distinct ==
    /\ \A u, v \in inflight : u.edit = v.edit => u = v
    /\ pending # NoPending => \A u \in inflight : u.edit # pending.edit

\* A gesture of the history stays what it is.
LEMMA HistoryKept ==
    ASSUME TypeOK, NEW k \in Kinds, NEW d \in Dates, NEW h \in Hours \cup {NoHour},
           NEW m \in Minutes \cup {Unset}, NEW w \in AllWindows, CanEdit,
           Logged(k, d, h, m, w)
    PROVE  /\ Len(edits') = Len(edits) + 1 /\ Len(edits) \in Nat
           /\ \A i \in DOMAIN edits : i \in DOMAIN edits' /\ edits'[i] = edits[i]
           /\ NextEdit \in DOMAIN edits'
           /\ edits'[NextEdit] = [kind |-> k, date |-> d, hour |-> h,
                                  minutes |-> m, window |-> w]
<1>1. edits \in Seq(Edit)
  BY DEF TypeOK
<1>2. [kind |-> k, date |-> d, hour |-> h, minutes |-> m, window |-> w] \in Edit
  BY DEF Edit
<1> QED
  BY <1>1, <1>2 DEF Logged, NextEdit

\* What stays true of a call when the history grows or its screen goes away.
LEMMA CallKept ==
    ASSUME NEW u, CallOK(u),
           \A i \in DOMAIN edits : i \in DOMAIN edits' /\ edits'[i] = edits[i],
           Len(edits) \in Nat, Len(edits') \in Nat, Len(edits) <= Len(edits')
    PROVE  CallOK(u)'
  BY DEF CallOK, Entered

LEMMA UnmountedCalls ==
    ASSUME NEW W \in SUBSET Write, NEW x \in Unmounted(W)
    PROVE  \E u \in W : /\ x = [u EXCEPT !.mounted = FALSE]
                        /\ x.edit = u.edit /\ x.kind = u.kind /\ x.date = u.date
                        /\ x.hour = u.hour /\ x.minutes = u.minutes
<1>1. PICK u \in W : x = [u EXCEPT !.mounted = FALSE]
  BY DEF Unmounted
<1>2. u \in Write
  OBVIOUS
<1> QED
  BY <1>1, <1>2 DEF Write

LEMMA ProvenanceStep ==
    ASSUME "picker" \notin Enabled, TypeOK, PendingOK, Provenance, Distinct, [Next]_vars
    PROVE  Provenance' /\ Distinct'
<1>0. edits \in Seq(Edit) /\ Len(edits) \in Nat /\ DOMAIN edits = 1..Len(edits)
  BY DEF TypeOK
<1>1. CASE StepKeeps
  BY <1>1 DEF StepKeeps, Provenance, Distinct, CallOK, Entered
<1>2. CASE StepFlushes
  <2> DEFINE W == inflight \cup PendingWrite
  <2>1. W \in SUBSET Write
    BY PendingWriteType DEF TypeOK
  <2>2. \A u \in W : CallOK(u)
    <3>1. ASSUME NEW u \in PendingWrite PROVE CallOK(u)
      <4>1. pending # NoPending /\ pending.hour \in Hours
        BY <3>1 DEF PendingWrite, TypeOK
      <4>2. /\ u.edit = pending.edit /\ u.kind = "energy" /\ u.date = selectedDate
            /\ u.hour = pending.hour /\ u.minutes = pending.minutes
        BY <3>1, <4>1 DEF PendingWrite
      <4> QED
        BY <4>1, <4>2 DEF CallOK, Provenance
    <3> QED
      BY <3>1 DEF Provenance
  <2>3. \A u, v \in W : u.edit = v.edit => u = v
    <3>1. \A u \in PendingWrite : pending # NoPending /\ u.edit = pending.edit
      BY DEF PendingWrite
    <3>2. \A u, v \in PendingWrite : u = v
      BY DEF PendingWrite
    <3> QED
      BY <3>1, <3>2 DEF Distinct
  <2>4. CASE inflight' = W
    BY <1>2, <2>2, <2>3, <2>4 DEF StepFlushes, Provenance, Distinct, CallOK, Entered
  <2>5. CASE inflight' = Unmounted(W)
    <3>1. ASSUME NEW x \in Unmounted(W) PROVE CallOK(x)
      BY <2>1, <2>2, UnmountedCalls DEF CallOK
    <3>2. ASSUME NEW x \in Unmounted(W), NEW y \in Unmounted(W), x.edit = y.edit
          PROVE  x = y
      <4>1. PICK u \in W : x = [u EXCEPT !.mounted = FALSE] /\ x.edit = u.edit
        BY <2>1, UnmountedCalls
      <4>2. PICK v \in W : y = [v EXCEPT !.mounted = FALSE] /\ y.edit = v.edit
        BY <2>1, UnmountedCalls
      <4> QED
        BY <2>3, <3>2, <4>1, <4>2
    <3> QED
      BY <1>2, <2>5, <3>1, <3>2 DEF StepFlushes, Provenance, Distinct, CallOK, Entered
  <2> QED
    BY <1>2, <2>4, <2>5 DEF StepFlushes
<1>3. CASE StepDrops
  <2>1. PICK kept \in SUBSET inflight : inflight' \in {kept, Unmounted(kept)}
    BY <1>3 DEF StepDrops
  <2>2. kept \in SUBSET Write
    BY DEF TypeOK
  <2>3. CASE inflight' = kept
    BY <1>3, <2>3 DEF StepDrops, Provenance, Distinct, CallOK, Entered
  <2>4. CASE inflight' = Unmounted(kept)
    <3>1. ASSUME NEW x \in Unmounted(kept) PROVE CallOK(x)
      BY <2>2, UnmountedCalls DEF CallOK, Provenance
    <3>2. ASSUME NEW x \in Unmounted(kept), NEW y \in Unmounted(kept),
                 x.edit = y.edit
          PROVE  x = y
      <4>1. PICK u \in kept : x = [u EXCEPT !.mounted = FALSE] /\ x.edit = u.edit
        BY <2>2, UnmountedCalls
      <4>2. PICK v \in kept : y = [v EXCEPT !.mounted = FALSE] /\ y.edit = v.edit
        BY <2>2, UnmountedCalls
      <4> QED
        BY <3>2, <4>1, <4>2 DEF Distinct
    <3> QED
      BY <1>3, <2>4, <3>1, <3>2 DEF StepDrops, Provenance, Distinct, CallOK, Entered
  <2> QED
    BY <2>1, <2>3, <2>4
<1>4. ASSUME NEW m \in Minutes, UpdateEnergy(m) PROVE Provenance' /\ Distinct'
  <2>1. inflight' = inflight /\ selectedDate' = selectedDate /\ selectedHour \in Hours
        /\ pending' = [hour |-> selectedHour, minutes |-> m, edit |-> NextEdit]
        /\ CanEdit /\ Logged("energy", selectedDate, selectedHour, m, localWindow)
    BY <1>4 DEF UpdateEnergy, PendingOK, PendingHourIsSelected, TypeOK
  <2>2. /\ Len(edits') = Len(edits) + 1
        /\ \A i \in DOMAIN edits : i \in DOMAIN edits' /\ edits'[i] = edits[i]
        /\ NextEdit \in DOMAIN edits'
        /\ edits'[NextEdit] = [kind |-> "energy", date |-> selectedDate,
               hour |-> selectedHour, minutes |-> m, window |-> localWindow]
    BY <2>1, HistoryKept DEF TypeOK, Kinds
  <2>3. \A u \in inflight : CallOK(u)'
    BY <1>0, <2>2, CallKept DEF Provenance
  <2>4. \A u \in inflight : u.edit # NextEdit
    BY <1>0 DEF Provenance, CallOK, NextEdit
  <2>5. /\ pending' # NoPending => /\ pending'.edit = NextEdit
                                   /\ pending'.hour = selectedHour
                                   /\ pending'.minutes = m
        /\ selectedDate' = selectedDate
    BY <2>1
  <2>6. NextEdit \in 1..Len(edits')
    BY <1>0, <2>2 DEF NextEdit
  <2>7. Distinct'
    BY <2>1, <2>4 DEF Distinct
  <2>8. Provenance'
    BY <2>1, <2>2, <2>3, <2>5, <2>6 DEF Provenance, Entered
  <2> QED
    BY <2>7, <2>8
<1>5. ASSUME NEW w \in Windows, UpdateSettings(w) PROVE Provenance' /\ Distinct'
  <2> DEFINE new == [edit |-> NextEdit, kind |-> "window", date |-> selectedDate,
                     hour |-> NoHour, minutes |-> Unset, window |-> w, mounted |-> TRUE]
  <2>1. inflight' = inflight \cup {new} /\ UNCHANGED <<pending, selectedDate>>
        /\ CanEdit /\ Logged("window", selectedDate, NoHour, Unset, w)
    BY <1>5 DEF UpdateSettings
  <2>0. "window" \in Kinds /\ selectedDate \in Dates /\ w \in AllWindows
    BY WindowsInAll DEF TypeOK, Kinds
  <2>2. /\ Len(edits') = Len(edits) + 1
        /\ \A i \in DOMAIN edits : i \in DOMAIN edits' /\ edits'[i] = edits[i]
        /\ edits'[NextEdit] = [kind |-> "window", date |-> selectedDate, hour |-> NoHour,
                               minutes |-> Unset, window |-> w]
    BY <2>0, <2>1, HistoryKept
  <2>3. \A u \in inflight : CallOK(u)'
    BY <1>0, <2>2, CallKept DEF Provenance
  <2>4. ASSUME NEW u, u = new PROVE CallOK(u)'
    BY <1>0, <2>2, <2>4 DEF CallOK, NextEdit
  <2>5. \A u \in inflight' : CallOK(u)'
    BY <2>1, <2>3, <2>4
  <2>6. pending # NoPending =>
            /\ pending.edit \in DOMAIN edits
            /\ Entered(pending.edit, selectedDate, pending.hour, pending.minutes)'
    BY <1>0, <2>1, <2>2 DEF Provenance, Entered
  <2>7. Provenance'
    BY <1>0, <2>1, <2>2, <2>5, <2>6 DEF Provenance
  <2>8. /\ new.edit = Len(edits) + 1
        /\ \A u \in inflight : u.edit <= Len(edits)
        /\ pending # NoPending => pending.edit <= Len(edits)
    BY <1>0 DEF Provenance, CallOK, NextEdit
  <2>9. /\ \A u \in inflight : u.edit # new.edit
        /\ pending # NoPending => pending.edit # new.edit
    BY <1>0, <2>8
  <2>10. Distinct'
    <3> HIDE DEF new
    <3> QED
      BY <2>1, <2>9 DEF Distinct
  <2> QED
    BY <2>7, <2>10
<1>6. ASSUME NEW d \in Dates, DeleteLog(d) PROVE Provenance' /\ Distinct'
  <2> DEFINE new == [edit |-> NextEdit, kind |-> "delete", date |-> d, hour |-> NoHour,
                     minutes |-> Unset, window |-> DefaultWindow, mounted |-> TRUE]
  <2>1. inflight' = inflight \cup {new} /\ UNCHANGED <<pending, selectedDate>>
        /\ CanEdit /\ Logged("delete", d, NoHour, Unset, DefaultWindow)
    BY <1>6 DEF DeleteLog, home
  <2>0. "delete" \in Kinds /\ d \in Dates /\ DefaultWindow \in AllWindows
    BY WindowsInAll DEF TypeOK, Kinds
  <2>2. /\ Len(edits') = Len(edits) + 1
        /\ \A i \in DOMAIN edits : i \in DOMAIN edits' /\ edits'[i] = edits[i]
        /\ edits'[NextEdit] = [kind |-> "delete", date |-> d, hour |-> NoHour,
                               minutes |-> Unset, window |-> DefaultWindow]
    BY <2>0, <2>1, HistoryKept
  <2>3. \A u \in inflight : CallOK(u)'
    BY <1>0, <2>2, CallKept DEF Provenance
  <2>4. ASSUME NEW u, u = new PROVE CallOK(u)'
    BY <1>0, <2>2, <2>4 DEF CallOK, NextEdit
  <2>5. \A u \in inflight' : CallOK(u)'
    BY <2>1, <2>3, <2>4
  <2>6. pending # NoPending =>
            /\ pending.edit \in DOMAIN edits
            /\ Entered(pending.edit, selectedDate, pending.hour, pending.minutes)'
    BY <1>0, <2>1, <2>2 DEF Provenance, Entered
  <2>7. Provenance'
    BY <1>0, <2>1, <2>2, <2>5, <2>6 DEF Provenance
  <2>8. /\ new.edit = Len(edits) + 1
        /\ \A u \in inflight : u.edit <= Len(edits)
        /\ pending # NoPending => pending.edit <= Len(edits)
    BY <1>0 DEF Provenance, CallOK, NextEdit
  <2>9. /\ \A u \in inflight : u.edit # new.edit
        /\ pending # NoPending => pending.edit # new.edit
    BY <1>0, <2>8
  <2>10. Distinct'
    <3> HIDE DEF new
    <3> QED
      BY <2>1, <2>9 DEF Distinct
  <2> QED
    BY <2>7, <2>10
<1>7. ASSUME NEW u \in inflight,
             Fail(u) \/ \E lostReply \in BOOLEAN : Commit(u, lostReply)
      PROVE  Provenance' /\ Distinct'
  <2>1. inflight' = inflight \ {u} /\ UNCHANGED <<pending, selectedDate, edits>>
    BY <1>7 DEF Fail, Commit
  <2> QED
    BY <2>1 DEF Provenance, Distinct, CallOK, Entered
<1> QED
  BY <1>1, <1>2, <1>3, <1>4, <1>5, <1>6, <1>7, StepKinds

LEMMA ProvenanceAlways ==
    ASSUME "picker" \notin Enabled
    PROVE  Spec => [](TypeOK /\ PendingOK /\ Provenance /\ Distinct)
<1>1. Init => Provenance /\ Distinct
  BY DEF Init, Provenance, Distinct
<1>2. TypeOK /\ PendingOK /\ (Provenance /\ Distinct) /\ [Next]_vars
        => (Provenance /\ Distinct)'
  BY ProvenanceStep
<1> QED
  BY <1>1, <1>2, Typing, PendingAlways, PTL DEF Spec

-----------------------------------------------------------------------------
(* The records a write leaves *)

LEMMA AppliedRecords ==
    ASSUME NEW doc \in Docs \cup {NoDoc}, NEW u \in Write
    PROVE  /\ u.kind = "delete" => Applied(doc, u) = NoDoc
           /\ u.kind # "delete" =>
                  /\ Applied(doc, u) \in Docs
                  /\ RecordsOf(Applied(doc, u)) =
                         IF u.hour = NoHour THEN RecordsOf(doc)
                         ELSE [RecordsOf(doc) EXCEPT ![u.hour] = u.minutes]
<1>0. RecordsOf(NoDoc) = NoRecords
  BY DEF RecordsOf
<1>1. RecordsOf(doc) \in Records
  BY RecordsOfType
<1> DEFINE new == IF u.hour = NoHour THEN RecordsOf(doc)
                  ELSE [RecordsOf(doc) EXCEPT ![u.hour] = u.minutes]
<1>2. u.hour # NoHour => u.hour \in Hours
  BY DEF Write
<1>3. u.minutes \in Minutes \cup {Unset} /\ u.window \in AllWindows
  BY DEF Write
<1>4. new \in Records
  BY <1>1, <1>2, <1>3 DEF Records
<1>5. Doc(new, u.window) \in Docs /\ Doc(new, u.window).records = new
  BY <1>3, <1>4, DocsElement DEF Doc
<1>6. RecordsOf(Doc(new, u.window)) = new
  BY <1>5, MarkersAssumption DEF RecordsOf
<1> QED
  BY <1>5, <1>6 DEF Applied, Written

\* What Commit makes of every day's records.
LEMMA CommitRecords ==
    ASSUME TypeOK, NEW u \in inflight, NEW lostReply \in BOOLEAN, Commit(u, lostReply)
    PROVE  /\ u \in Write
           /\ \A d \in Dates : d # u.date => server'[d] = server[d]
           /\ server'[u.date] = Applied(server[u.date], u)
           /\ server[u.date] \in Docs \cup {NoDoc}
           /\ u.date \in Dates
  BY DEF Commit, TypeOK, Write

-----------------------------------------------------------------------------
(* Stored minutes were entered for their hour and day *)

LEMMA StoredStep ==
    ASSUME "picker" \notin Enabled, TypeOK, Provenance, StoredWhereEntered, [Next]_vars
    PROVE  StoredWhereEntered'
<1>1. ASSUME server' = server,
             \A i \in DOMAIN edits : i \in DOMAIN edits' /\ edits'[i] = edits[i]
      PROVE  StoredWhereEntered'
  BY <1>1 DEF StoredWhereEntered, Entered
<1>2. CASE StepKeeps \/ StepFlushes \/ StepDrops
  BY <1>1, <1>2 DEF StepKeeps, StepFlushes, StepDrops
<1>3. ASSUME NEW m \in Minutes, UpdateEnergy(m) PROVE StoredWhereEntered'
  BY <1>1, <1>3, HistoryKept DEF UpdateEnergy, TypeOK, Kinds
<1>4. ASSUME NEW w \in Windows, UpdateSettings(w) PROVE StoredWhereEntered'
  BY <1>1, <1>4, HistoryKept, WindowsInAll DEF UpdateSettings, TypeOK, Kinds
<1>5. ASSUME NEW d \in Dates, DeleteLog(d) PROVE StoredWhereEntered'
  BY <1>1, <1>5, HistoryKept, WindowsInAll DEF DeleteLog, Kinds
<1>6. ASSUME NEW u \in inflight, Fail(u) PROVE StoredWhereEntered'
  BY <1>1, <1>6 DEF Fail
<1>7. ASSUME NEW u \in inflight, NEW lostReply \in BOOLEAN, Commit(u, lostReply)
      PROVE  StoredWhereEntered'
  <2> SUFFICES ASSUME NEW d \in Dates, NEW h \in Hours, RecordsOf(server'[d])[h] # Unset
               PROVE  \E i \in DOMAIN edits : Entered(i, d, h, RecordsOf(server'[d])[h])
    BY <1>7 DEF StoredWhereEntered, Entered, Commit
  <2>1. /\ u \in Write /\ u.date \in Dates /\ server[u.date] \in Docs \cup {NoDoc}
        /\ server'[u.date] = Applied(server[u.date], u)
    BY <1>7, CommitRecords
  <2>2. CallOK(u)
    BY DEF Provenance
  <2>3. CASE d # u.date
    BY <1>7, <2>3, CommitRecords DEF StoredWhereEntered
  <2>4. CASE d = u.date /\ u.kind = "delete"
    BY <2>1, <2>4, AppliedRecords DEF RecordsOf, NoRecords
  <2>5. CASE d = u.date /\ u.kind # "delete"
    <3>1. RecordsOf(server'[d]) =
             IF u.hour = NoHour THEN RecordsOf(server[d])
             ELSE [RecordsOf(server[d]) EXCEPT ![u.hour] = u.minutes]
      BY <2>1, <2>5, AppliedRecords
    <3>2. RecordsOf(server[d]) \in Records
      BY <2>1, <2>5, RecordsOfType
    <3>3. CASE u.hour # NoHour /\ h = u.hour
      <4>1. u.kind = "energy"
        BY <2>2, <3>3 DEF CallOK
      <4>2. RecordsOf(server'[d])[h] = u.minutes
        BY <3>1, <3>2, <3>3 DEF Records
      <4>3. Entered(u.edit, d, h, u.minutes)
        BY <2>2, <2>5, <3>3, <4>1 DEF CallOK
      <4> QED
        BY <4>2, <4>3 DEF Entered
    <3>4. CASE u.hour = NoHour \/ h # u.hour
      <4>1. RecordsOf(server'[d])[h] = RecordsOf(server[d])[h]
        BY <3>1, <3>2, <3>4 DEF Records
      <4> QED
        BY <4>1 DEF StoredWhereEntered
    <3> QED
      BY <3>3, <3>4
  <2> QED
    BY <2>3, <2>4, <2>5
<1> QED
  BY <1>2, <1>3, <1>4, <1>5, <1>6, <1>7, StepKinds

\* Without the picker, minutes stored for an hour of a day were entered for
\* that hour of that day (_flushPending before every change of day).
THEOREM StoredWhereEnteredAlways ==
    ASSUME "picker" \notin Enabled
    PROVE  Spec => []StoredWhereEntered
<1>1. Init => StoredWhereEntered
  BY DEF Init, StoredWhereEntered, RecordsOf, NoRecords
<1>2. (TypeOK /\ PendingOK /\ Provenance /\ Distinct) /\ StoredWhereEntered /\ [Next]_vars
        => StoredWhereEntered'
  BY StoredStep
<1> QED
  BY <1>1, <1>2, ProvenanceAlways, PTL DEF Spec

-----------------------------------------------------------------------------
(* One write, one hour of one day *)

LEMMA ServerChanges ==
    ASSUME [Next]_vars
    PROVE  \/ server' = server
           \/ \E u \in inflight, lostReply \in BOOLEAN : Commit(u, lostReply)
  BY DEF Next, Network, DebounceFires, AppPaused, UpdateEnergy, UpdateSettings, TapRow,
         StepHour, SelectHour, ChangeDate, GoToday, MoveTo, PickDate, DefaultsLoaded,
         StreamEmits, Sync, OpenHomeTab, DeleteLog, SwitchTab, SignOut, SignIn, Relaunch,
         Fail, vars

\* A write changes one hour of one day, or deletes one day: the transaction
\* keeps whatever other transactions stored (updateEnergyLog reads the records
\* inside the transaction).
THEOREM OneHourPerWriteAlways == Spec => OneHourPerWrite
<1> DEFINE Changed(d, h) == RecordsOf(server[d])[h] # RecordsOf(server'[d])[h]
<1> DEFINE Single == \A d1, d2 \in Dates, h1, h2 \in Hours :
                         Changed(d1, h1) /\ Changed(d2, h2)
                         => d1 = d2 /\ (h1 = h2 \/ server'[d1] = NoDoc)
<1>1. TypeOK /\ [Next]_vars => [Single]_vars
  <2> SUFFICES ASSUME TypeOK, [Next]_vars,
                      NEW d1 \in Dates, NEW d2 \in Dates, NEW h1 \in Hours, NEW h2 \in Hours,
                      Changed(d1, h1), Changed(d2, h2)
               PROVE  d1 = d2 /\ (h1 = h2 \/ server'[d1] = NoDoc)
    OBVIOUS
  <2>1. PICK u \in inflight, lostReply \in BOOLEAN : Commit(u, lostReply)
    BY ServerChanges
  <2>2. /\ u \in Write /\ u.date \in Dates /\ server[u.date] \in Docs \cup {NoDoc}
        /\ server'[u.date] = Applied(server[u.date], u)
        /\ \A d \in Dates : d # u.date => server'[d] = server[d]
    BY <2>1, CommitRecords
  <2>3. d1 = u.date /\ d2 = u.date
    BY <2>2
  <2>4. CASE u.kind = "delete"
    BY <2>2, <2>3, <2>4, AppliedRecords
  <2>5. CASE u.kind # "delete"
    <3>1. RecordsOf(server'[u.date]) =
             IF u.hour = NoHour THEN RecordsOf(server[u.date])
             ELSE [RecordsOf(server[u.date]) EXCEPT ![u.hour] = u.minutes]
      BY <2>2, <2>5, AppliedRecords
    <3>2. RecordsOf(server[u.date]) \in Records
      BY <2>2, RecordsOfType
    <3>3. h1 = u.hour /\ h2 = u.hour
      BY <2>3, <3>1, <3>2 DEF Records
    <3> QED
      BY <2>3, <3>3
  <2> QED
    BY <2>4, <2>5
<1>2. [Single]_vars => [\A d1, d2 \in Dates, h1, h2 \in Hours :
          /\ RecordsOf(server[d1])[h1] # RecordsOf(server'[d1])[h1]
          /\ RecordsOf(server[d2])[h2] # RecordsOf(server'[d2])[h2]
          => d1 = d2 /\ (h1 = h2 \/ server'[d1] = NoDoc)]_vars
  OBVIOUS
<1> QED
  BY <1>1, <1>2, Typing, PTL DEF Spec, OneHourPerWrite

-----------------------------------------------------------------------------
(* EnergyHome implements EnergyLog *)

CallRequests(W) == {RequestOf(u) : u \in {v \in W : v.kind # "window"}}

LEMMA RequestsSplit == Requests = CallRequests(inflight) \cup PendingRequest
  BY DEF Requests, CallRequests

LEMMA UnmountedRequests ==
    ASSUME NEW W \in SUBSET Write
    PROVE  CallRequests(Unmounted(W)) = CallRequests(W)
<1>1. ASSUME NEW u \in W
      PROVE  /\ [u EXCEPT !.mounted = FALSE].kind = u.kind
             /\ RequestOf([u EXCEPT !.mounted = FALSE]) = RequestOf(u)
  BY DEF Write, RequestOf
<1>2. ASSUME NEW r \in CallRequests(W) PROVE r \in CallRequests(Unmounted(W))
  <2>1. PICK u \in W : u.kind # "window" /\ r = RequestOf(u)
    BY <1>2 DEF CallRequests
  <2> DEFINE x == [u EXCEPT !.mounted = FALSE]
  <2>2. x \in Unmounted(W) /\ x.kind # "window" /\ r = RequestOf(x)
    BY <1>1, <2>1 DEF Unmounted
  <2> QED
    BY <2>2 DEF CallRequests
<1>3. ASSUME NEW r \in CallRequests(Unmounted(W)) PROVE r \in CallRequests(W)
  <2>1. PICK x \in Unmounted(W) : x.kind # "window" /\ r = RequestOf(x)
    BY <1>3 DEF CallRequests
  <2>2. PICK u \in W : x = [u EXCEPT !.mounted = FALSE]
    BY <2>1 DEF Unmounted
  <2>3. u.kind # "window" /\ r = RequestOf(u)
    BY <1>1, <2>1, <2>2
  <2> QED
    BY <2>3 DEF CallRequests
<1> QED
  BY <1>2, <1>3

\* A flush turns the pending request into the same request in flight.
LEMMA FlushedRequests ==
    ASSUME TypeOK, signedIn
    PROVE  CallRequests(inflight \cup PendingWrite) = Requests
<1>1. CallRequests(PendingWrite) = PendingRequest
  <2>1. CASE pending = NoPending
    BY <2>1 DEF CallRequests, PendingWrite, PendingRequest
  <2>2. CASE pending # NoPending
    <3> DEFINE u == [edit |-> pending.edit, kind |-> "energy", date |-> selectedDate,
                     hour |-> pending.hour, minutes |-> pending.minutes,
                     window |-> localWindow, mounted |-> TRUE]
    <3>1. PendingWrite = {u} /\ u.kind # "window"
      BY <2>2 DEF PendingWrite
    <3>2. PendingRequest = {RequestOf(u)}
      BY <2>2 DEF PendingRequest, RequestOf
    <3> HIDE DEF u
    <3>3. {v \in {u} : v.kind # "window"} = {u}
      BY <3>1
    <3> QED
      BY <3>1, <3>2, <3>3 DEF CallRequests
  <2> QED
    BY <2>1, <2>2
<1>2. CallRequests(inflight \cup PendingWrite)
        = CallRequests(inflight) \cup CallRequests(PendingWrite)
  BY DEF CallRequests
<1> QED
  BY <1>1, <1>2, RequestsSplit

\* A call that leaves takes its request, and only its own, with it.
LEMMA RequestsWithout ==
    ASSUME TypeOK, Distinct, NEW u \in inflight
    PROVE  /\ u.kind = "window" =>
                  CallRequests(inflight \ {u}) \cup PendingRequest = Requests
           /\ u.kind # "window" =>
                  /\ RequestOf(u) \in Requests
                  /\ CallRequests(inflight \ {u}) \cup PendingRequest
                        = Requests \ {RequestOf(u)}
<1>1. \A v \in inflight : RequestOf(v) = RequestOf(u) => v = u
  BY DEF RequestOf, Distinct
<1>2. \A r \in PendingRequest : r # RequestOf(u)
  BY DEF RequestOf, PendingRequest, Distinct
<1> QED
  BY <1>1, <1>2 DEF Requests, CallRequests

Stored == [d \in Dates |-> RecordsOf(server[d])]

\* The steps of the refinement: each is a step of the log or a stutter.
LEMMA LogStep ==
    ASSUME "picker" \notin Enabled, TypeOK, PendingOK, Provenance, Distinct, [Next]_vars
    PROVE  [Log!Next]_(Log!vars)
<1>0. edits \in Seq(Edit) /\ Len(edits) \in Nat
  BY DEF TypeOK
<1> USE DEF Stored
<1> DEFINE Stutter == Stored' = Stored /\ Requests' = Requests /\ Len(edits') = Len(edits)
<1>1. ASSUME Stutter PROVE [Log!Next]_(Log!vars)
  BY <1>1 DEF Log!vars
<1>2. CASE StepKeeps
  BY <1>1, <1>2 DEF StepKeeps, Requests, PendingRequest, RequestOf
<1>3. CASE StepFlushes
  <2>1. inflight \cup PendingWrite \in SUBSET Write
    BY PendingWriteType DEF TypeOK
  <2>2. CallRequests(inflight') = Requests
    BY <1>3, <2>1, FlushedRequests, UnmountedRequests DEF StepFlushes
  <2>3. Requests' = CallRequests(inflight') \cup PendingRequest'
    BY DEF Requests, CallRequests, RequestOf
  <2>4. PendingRequest' = {}
    BY <1>3 DEF StepFlushes, PendingRequest
  <2> QED
    BY <1>1, <1>3, <2>2, <2>3, <2>4 DEF StepFlushes
<1>4. CASE StepDrops
  <2>1. PICK kept \in SUBSET inflight : inflight' \in {kept, Unmounted(kept)}
    BY <1>4 DEF StepDrops
  <2>2. CallRequests(inflight') = CallRequests(kept)
    BY <2>1, UnmountedRequests DEF TypeOK
  <2>3. Requests' = CallRequests(kept)
    BY <1>4, <2>2 DEF StepDrops, Requests, CallRequests, RequestOf, PendingRequest
  <2>4. CallRequests(kept) \subseteq CallRequests(inflight)
    BY DEF CallRequests
  <2>5. Requests' \subseteq Requests
    BY <2>3, <2>4, RequestsSplit
  <2> DEFINE gone == Requests \ Requests'
  <2>6. gone \in SUBSET Requests /\ Requests' = Requests \ gone
    BY <2>5
  <2>7. Log!Lose(gone)
    BY <1>4, <2>6 DEF Log!Lose, StepDrops
  <2> QED
    BY <2>6, <2>7 DEF Log!Next
<1>5. ASSUME NEW m \in Minutes, UpdateEnergy(m) PROVE [Log!Next]_(Log!vars)
  <2> DEFINE new == [edit |-> Len(edits) + 1, date |-> selectedDate,
                     hour |-> selectedHour, minutes |-> m]
  <2>1. /\ inflight' = inflight /\ selectedDate' = selectedDate /\ server' = server
        /\ selectedHour \in Hours /\ selectedDate \in Dates
        /\ pending' = [hour |-> selectedHour, minutes |-> m, edit |-> NextEdit]
        /\ pending' # NoPending
    BY <1>0, <1>5, MarkersAssumption
       DEF UpdateEnergy, PendingOK, PendingHourIsSelected, TypeOK, NextEdit
  <2>2. Len(edits') = Len(edits) + 1
    BY <1>5, <2>1, HistoryKept DEF UpdateEnergy, TypeOK, Kinds
  <2>3. PendingRequest' = {new}
    BY <2>1 DEF PendingRequest, NextEdit
  <2>4. Requests' = CallRequests(inflight) \cup {new}
    BY <2>1, <2>3 DEF Requests, CallRequests, RequestOf
  <2>5. \A r \in PendingRequest : r.date = selectedDate /\ r.hour = selectedHour
    BY DEF PendingRequest, PendingOK, PendingHourIsSelected
  <2>6. \A r \in PendingRequest : r \notin CallRequests(inflight)
    BY DEF PendingRequest, CallRequests, RequestOf, Distinct
  <2>7. Requests' = (Requests \ PendingRequest) \cup {new}
    BY <2>4, <2>6, RequestsSplit
  <2>8. PendingRequest \in SUBSET {r \in Requests : r.date = selectedDate /\ r.hour = selectedHour}
    BY <2>5, RequestsSplit
  <2>9. Log!AskValue(selectedDate, selectedHour, m)
    BY <2>1, <2>2, <2>7, <2>8 DEF Log!AskValue
  <2> QED
    BY <2>1, <2>9 DEF Log!Next
<1>6. ASSUME NEW w \in Windows, UpdateSettings(w) PROVE [Log!Next]_(Log!vars)
  <2>1. Len(edits') = Len(edits) + 1
    BY <1>6, HistoryKept, WindowsInAll DEF UpdateSettings, TypeOK, Kinds
  <2>2. Requests' = Requests /\ Stored' = Stored
    BY <1>6 DEF UpdateSettings, Requests, RequestOf, PendingRequest
  <2>3. Log!AskOther
    BY <2>1, <2>2 DEF Log!AskOther
  <2> QED
    BY <2>3 DEF Log!Next
<1>7. ASSUME NEW d \in Dates, DeleteLog(d) PROVE [Log!Next]_(Log!vars)
  <2> DEFINE new == [edit |-> NextEdit, kind |-> "delete", date |-> d, hour |-> NoHour,
                     minutes |-> Unset, window |-> DefaultWindow, mounted |-> TRUE]
  <2> DEFINE request == [edit |-> Len(edits) + 1, date |-> d, hour |-> NoHour,
                         minutes |-> Unset]
  <2>1. Len(edits') = Len(edits) + 1
    BY <1>7, HistoryKept, WindowsInAll DEF DeleteLog, Kinds
  <2>2. inflight' = inflight \cup {new} /\ UNCHANGED <<pending, selectedDate, server>>
    BY <1>7 DEF DeleteLog, home
  <2>3. CallRequests({new}) = {request}
    <3>1. new.kind # "window" /\ RequestOf(new) = request
      BY DEF RequestOf, NextEdit
    <3> HIDE DEF new, request
    <3> QED
      BY <3>1 DEF CallRequests
  <2>4. CallRequests(inflight') = CallRequests(inflight) \cup {request}
    <3> HIDE DEF new, request
    <3> QED
      BY <2>2, <2>3 DEF CallRequests
  <2>5. Requests' = CallRequests(inflight') \cup PendingRequest
    BY <2>2 DEF Requests, CallRequests, RequestOf, PendingRequest
  <2>6. Requests' = Requests \cup {request}
    BY <2>4, <2>5, RequestsSplit
  <2>7. Log!AskDeletion(d)
    BY <2>1, <2>2, <2>6 DEF Log!AskDeletion
  <2> QED
    BY <2>7 DEF Log!Next
<1>8. ASSUME NEW u \in inflight, Fail(u) PROVE [Log!Next]_(Log!vars)
  <2>1. Requests' = CallRequests(inflight \ {u}) \cup PendingRequest
        /\ UNCHANGED <<server, edits>>
    BY <1>8 DEF Fail, Requests, CallRequests, RequestOf, PendingRequest
  <2>2. CASE u.kind = "window"
    BY <1>1, <2>1, <2>2, RequestsWithout
  <2>3. CASE u.kind # "window"
    <3>1. RequestOf(u) \in Requests /\ Requests' = Requests \ {RequestOf(u)}
      BY <2>1, <2>3, RequestsWithout
    <3>2. Log!Lose({RequestOf(u)})
      BY <2>1, <3>1 DEF Log!Lose
    <3> QED
      BY <3>1, <3>2 DEF Log!Next
  <2> QED
    BY <2>2, <2>3
<1>9. ASSUME NEW u \in inflight, NEW lostReply \in BOOLEAN, Commit(u, lostReply)
      PROVE  [Log!Next]_(Log!vars)
  <2>1. Requests' = CallRequests(inflight \ {u}) \cup PendingRequest
        /\ UNCHANGED edits
    BY <1>9 DEF Commit, Requests, CallRequests, RequestOf, PendingRequest
  <2>2. /\ u \in Write /\ u.date \in Dates /\ server[u.date] \in Docs \cup {NoDoc}
        /\ server'[u.date] = Applied(server[u.date], u)
        /\ \A d \in Dates : d # u.date => server'[d] = server[d]
    BY <1>9, CommitRecords
  <2>3. CallOK(u)
    BY DEF Provenance
  <2>4. CASE u.kind = "window"
    <3>1. RecordsOf(server'[u.date]) = RecordsOf(server[u.date])
      BY <2>2, <2>3, <2>4, AppliedRecords DEF CallOK
    <3>2. Stored' = Stored
      BY <2>2, <3>1
    <3> QED
      BY <1>1, <2>1, <2>4, <3>2, RequestsWithout
  <2>5. CASE u.kind # "window"
    <3> DEFINE r == RequestOf(u)
    <3>1. r \in Requests /\ Requests' = Requests \ {r}
      BY <2>1, <2>5, RequestsWithout
    <3>2. r.date = u.date /\ r.hour = u.hour /\ r.minutes = u.minutes
      BY DEF RequestOf
    <3>3. RecordsOf(server'[u.date]) =
             IF u.hour = NoHour THEN Log!Empty
             ELSE [RecordsOf(server[u.date]) EXCEPT ![u.hour] = u.minutes]
      <4>1. CASE u.kind = "delete"
        BY <2>2, <2>3, <4>1, AppliedRecords
           DEF CallOK, RecordsOf, NoRecords, Log!Empty
      <4>2. CASE u.kind = "energy"
        BY <2>2, <2>3, <4>2, AppliedRecords, ConstantsAssumption DEF CallOK
      <4> QED
        BY <2>2, <2>5, <4>1, <4>2 DEF Write, Kinds
    <3>4. Stored' = [Stored EXCEPT ![r.date] =
              IF r.hour = NoHour THEN Log!Empty ELSE [@ EXCEPT ![r.hour] = r.minutes]]
      BY <2>2, <3>2, <3>3
    <3>5. Log!Apply(r)
      BY <2>1, <3>1, <3>4 DEF Log!Apply
    <3> QED
      BY <3>1, <3>5 DEF Log!Next
  <2> QED
    BY <2>4, <2>5
<1> QED
  BY <1>2, <1>3, <1>4, <1>5, <1>6, <1>7, <1>8, <1>9, StepKinds

\* Without the picker, the editor and its transactions implement the record of
\* requests: every step is a step of EnergyLog or changes nothing in it.
THEOREM ImplementsLog ==
    ASSUME "picker" \notin Enabled
    PROVE  Spec => LogSpec
<1>1. Init => Log!Init
  BY DEF Init, Log!Init, Log!Empty, Requests, PendingRequest, RecordsOf, NoRecords
<1>2. (TypeOK /\ PendingOK /\ Provenance /\ Distinct) /\ [Next]_vars
        => [Log!Next]_(Log!vars)
  BY LogStep
<1> QED
  BY <1>1, <1>2, ProvenanceAlways, PTL DEF Spec, LogSpec, Log!Spec

-----------------------------------------------------------------------------
(* The transactions behind the commits *)

\* The calls in flight that are transactions, and what EnergyDocument and
\* AtomicUpdates say such a call makes of a document.
Entries == {u \in Write : u.kind # "delete" /\ (u.hour # NoHour => u.minutes # Unset)}

Service == INSTANCE EnergyDocument WITH
    NoDocument <- NoDoc, Calls <- Entries,
    HourOf <- [u \in Entries |-> u.hour],
    MinutesOf <- [u \in Entries |-> u.minutes],
    WindowOf <- [u \in Entries |-> u.window]

\* What EnergyDocument assumes of its calls holds of these.
LEMMA EntriesAreCalls ==
    /\ Hours \subseteq 0..23 /\ NoHour \notin Hours
    /\ Minutes \subseteq Nat /\ Unset \notin Minutes
    /\ \A u \in Entries : /\ u.hour \in Hours \cup {NoHour}
                          /\ u.hour # NoHour => u.minutes \in Minutes
                          /\ u.window \in Window
  BY ConstantsAssumption DEF Entries, Write

\* The records with the value that a call brings.
WithEntry(records, u) ==
    IF u.hour = NoHour THEN records ELSE [records EXCEPT ![u.hour] = u.minutes]

LEMMA SameTotal ==
    ASSUME NEW r, NEW w
    PROVE  ActiveMinutes(r, w, Unset) = Service!ActiveMinutes(r, w, Unset)
  BY DEF ActiveMinutes, IsActive, IsOvernight, ActualEnd, LastHour, MapThenSumSet, MapThenFoldSet,
         Service!ActiveMinutes, Service!IsActive, Service!IsOvernight, Service!ActualEnd,
         Service!LastHour, Service!MapThenSumSet, Service!MapThenFoldSet

LEMMA WrittenIsUpdated ==
    ASSUME NEW doc \in Docs \cup {NoDoc}, NEW u \in Entries
    PROVE  Written(doc, u) = Service!Updated(doc, u)
<1>1. RecordsOf(doc) = Service!RecordsOf(doc)
  BY MarkersAssumption DEF RecordsOf, Service!RecordsOf, NoRecords, Service!NoRecords
<1>2. WithEntry(RecordsOf(doc), u) = Service!WithCall(RecordsOf(doc), u)
  BY DEF WithEntry, Service!WithCall
<1>3. Written(doc, u) = Doc(WithEntry(RecordsOf(doc), u), u.window)
  BY DEF Written, WithEntry
<1> QED
  BY <1>1, <1>2, <1>3, SameTotal DEF Doc, Service!Updated, Service!Fields

\* A call that brings minutes for an hour has minutes.
CarriesMinutes(u) == u.hour # NoHour => u.minutes # Unset

CallsCarryMinutes == \A u \in inflight : CarriesMinutes(u)

LEMMA FlushCarries ==
    ASSUME TypeOK, CallsCarryMinutes
    PROVE  \A u \in inflight \cup PendingWrite : CarriesMinutes(u)
  BY ConstantsAssumption DEF TypeOK, CallsCarryMinutes, CarriesMinutes, PendingWrite

LEMMA UnmountedCarries ==
    ASSUME NEW W \in SUBSET Write, \A u \in W : CarriesMinutes(u)
    PROVE  \A u \in Unmounted(W) : CarriesMinutes(u)
<1> SUFFICES ASSUME NEW u \in W
             PROVE  CarriesMinutes([u EXCEPT !.mounted = FALSE])
  BY DEF Unmounted
<1>1. LET x == [u EXCEPT !.mounted = FALSE] IN x.hour = u.hour /\ x.minutes = u.minutes
  BY DEF Write
<1> QED
  BY <1>1 DEF CarriesMinutes

LEMMA CarriesStep == TypeOK /\ CallsCarryMinutes /\ [Next]_vars => CallsCarryMinutes'
<1> SUFFICES ASSUME TypeOK, CallsCarryMinutes, [Next]_vars PROVE CallsCarryMinutes'
  OBVIOUS
<1> DEFINE sent == inflight \cup PendingWrite
<1>1. sent \in SUBSET Write /\ inflight \in SUBSET Write
  BY PendingWriteType DEF TypeOK
<1>2. \A u \in sent : CarriesMinutes(u)
  BY FlushCarries
<1>3. \A u \in Unmounted(sent) : CarriesMinutes(u)
  BY <1>1, <1>2, UnmountedCarries
<1>4. \A W \in SUBSET inflight : \A u \in Unmounted(W) : CarriesMinutes(u)
  BY <1>1, UnmountedCarries DEF CallsCarryMinutes
<1>5. ASSUME inflight' \subseteq sent \/ inflight' = Unmounted(sent)
      PROVE  CallsCarryMinutes'
  BY <1>2, <1>3, <1>5 DEF CallsCarryMinutes
<1> HIDE DEF sent
<1>6. ASSUME NEW k, NEW d, NEW i, NEW w,
             inflight' = inflight \cup
                 {[edit |-> i, kind |-> k, date |-> d, hour |-> NoHour,
                   minutes |-> Unset, window |-> w, mounted |-> TRUE]}
      PROVE  CallsCarryMinutes'
  BY <1>6 DEF CallsCarryMinutes, CarriesMinutes
<1>7. CASE DebounceFires \/ AppPaused \/ GoToday
  BY <1>5, <1>7 DEF DebounceFires, AppPaused, GoToday, MoveTo, FlushPending, sent
<1>8. ASSUME NEW m \in Minutes, UpdateEnergy(m) PROVE CallsCarryMinutes'
  BY <1>5, <1>8 DEF UpdateEnergy, sent
<1>9. ASSUME NEW w \in Windows, UpdateSettings(w) PROVE CallsCarryMinutes'
  BY <1>6, <1>9 DEF UpdateSettings
<1>10. ASSUME NEW h \in Hours, NEW nextDay \in BOOLEAN, TapRow(h, nextDay)
       PROVE  CallsCarryMinutes'
  BY <1>5, <1>10 DEF TapRow, SelectHour, FlushPending, sent
<1>11. ASSUME NEW delta \in {-1, 1}, StepHour(delta) \/ ChangeDate(delta)
       PROVE  CallsCarryMinutes'
  BY <1>5, <1>11 DEF StepHour, SelectHour, ChangeDate, MoveTo, FlushPending, sent
<1>12. ASSUME UNCHANGED inflight PROVE CallsCarryMinutes'
  BY <1>12 DEF CallsCarryMinutes
<1>13. ASSUME NEW d \in Dates, OpenHomeTab(d) PROVE CallsCarryMinutes'
  BY <1>5, <1>12, <1>13 DEF OpenHomeTab, sent
<1>14. ASSUME NEW d \in Dates, DeleteLog(d) PROVE CallsCarryMinutes'
  BY <1>6, <1>14 DEF DeleteLog
<1>15. CASE SignOut
  BY <1>4, <1>15 DEF SignOut, CallsCarryMinutes
<1>16. CASE Relaunch
  BY <1>4, <1>16 DEF Relaunch, CallsCarryMinutes
<1>17. ASSUME NEW u \in inflight, Fail(u) \/ \E lostReply \in BOOLEAN : Commit(u, lostReply)
       PROVE  CallsCarryMinutes'
  BY <1>17 DEF Fail, Commit, CallsCarryMinutes
<1> QED
  BY <1>7, <1>8, <1>9, <1>10, <1>11, <1>12, <1>13, <1>14, <1>15, <1>16, <1>17
     DEF Next, Network, PickDate, DefaultsLoaded, StreamEmits, Sync, SwitchTab, SignIn, vars

\* A day's document changes only as AtomicUpdates lets it: it is deleted, or a
\* call that is in flight is applied to the document of that moment.
DayUpdated ==
    \A d \in Dates : server'[d] # server[d] =>
        \/ server'[d] = NoDoc
        \/ \E u \in inflight \cap Entries :
               u.date = d /\ server'[d] = Service!Updated(server[d], u)

\* The two models of a save fit: what EnergyHome takes a transaction to be is
\* the step to which AppliedAtomically reduces its attempts, with the same
\* document as result.
THEOREM CommitsAreUpdates == Spec => [][DayUpdated]_vars
<1>1. Init => CallsCarryMinutes
  BY DEF Init, CallsCarryMinutes
<1>2. TypeOK /\ CallsCarryMinutes /\ [Next]_vars => [DayUpdated]_vars
  <2> SUFFICES ASSUME TypeOK, CallsCarryMinutes, [Next]_vars,
                      NEW d \in Dates, server'[d] # server[d], server'[d] # NoDoc
               PROVE  \E u \in inflight \cap Entries :
                          u.date = d /\ server'[d] = Service!Updated(server[d], u)
    BY DEF DayUpdated
  <2>1. PICK u \in inflight, lostReply \in BOOLEAN : Commit(u, lostReply)
    BY ServerChanges
  <2>2. /\ u \in Write /\ d = u.date /\ server'[d] = Applied(server[d], u)
        /\ server[d] \in Docs \cup {NoDoc}
    BY <2>1, CommitRecords
  <2>3. u \in Entries
    BY <2>2 DEF Entries, CallsCarryMinutes, CarriesMinutes, Applied
  <2>4. server'[d] = Service!Updated(server[d], u)
    BY <2>2, <2>3, WrittenIsUpdated DEF Applied, Entries
  <2> QED
    BY <2>2, <2>3, <2>4
<1> QED
  BY <1>1, <1>2, CarriesStep, Typing, PTL DEF Spec
=============================================================================
