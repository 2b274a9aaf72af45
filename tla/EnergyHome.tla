----------------------------- MODULE EnergyHome -----------------------------
(***************************************************************************)
(* The record of energy minutes: HomeScreen (screens/home_screen.dart) as  *)
(* the editor of one day, EnergyService (services/energy_service.dart) as  *)
(* the transactions that write the day's document, the stream that brings  *)
(* the document back, and the parts of TrendScreen and MainNavigator that  *)
(* delete a document or replace the editor.                                *)
(*                                                                         *)
(* An edit is shown at once, waits for a 300 ms debounce timer, then       *)
(* becomes a transaction that reads the document, replaces one hour and    *)
(* writes all of it with the wake and bed hours the screen holds at that   *)
(* moment.                                                                 *)
(***************************************************************************)
EXTENDS Integers, Sequences, FiniteSets, ActiveHours

CONSTANTS
    Dates,        \* the days the instance knows, a set of consecutive numbers
    Today,        \* the day the clock shows
    NowHour,      \* the hour the clock shows
    Hours,        \* the hours of the day the instance keeps rows for
    Minutes,      \* the values the bar of thirteen steps can be dragged to
    Windows,      \* the windows the dialog of active hours can save
    UserWindow,   \* the window in the document settings/default
    Enabled,      \* the environment events and gestures switched on
    MaxEdits,     \* bound: gestures that write (edits, windows, deletions)
    Unset,        \* no record for an hour
    NoHour,       \* no hour selected; hour -1 of updateEnergyLog
    NoDate,       \* MainNavigator has not been given a date
    NoDoc,        \* the document does not exist
    Unknown,      \* nothing received yet
    NoPending     \* no edit waits for the debounce timer

DefaultWindow == [startHour |-> 7, endHour |-> 24]

\* Every window that can reach a document.
AllWindows == Windows \cup {DefaultWindow, UserWindow}

\* stream: the listeners deliver documents; the other names are those of the
\* gestures and faults whose guard tests them.
Events == {"stream", "fail", "reorder", "picker", "delete", "window",
           "calendar", "relaunch", "signout"}

ASSUME ConstantsAssumption ==
    /\ Dates \subseteq Int /\ Today \in Dates
    /\ Hours \subseteq 0..23 /\ NowHour \in Hours
    /\ Minutes \subseteq 0..60
    /\ AllWindows \subseteq Window
    /\ Enabled \subseteq Events
    /\ MaxEdits \in Nat
    /\ Unset \notin Minutes /\ NoHour \notin Hours /\ NoDate \notin Dates

VARIABLES
    server,        \* the documents daily_logs/<date>
    cache,         \* the SDK's local copy of each document
    inflight,      \* writes called and not yet answered
    signedIn,      \* AuthService.currentUser is not null
    tab,           \* the tab of MainNavigator in front
    initialDate,   \* MainNavigator._homeInitialDate, the editor's key
    selectedDate, selectedHour, isNextDay,   \* HomeScreen's selection
    localWindow,   \* _localStartHour, _localEndHour
    defaultWindow, \* _defaultStartHour, _defaultEndHour
    loading,       \* getUserSettings has not answered
    snapshot,      \* the document the StreamBuilder last received
    optimistic,    \* _optimisticRecords
    pending,       \* _pendingHour, _pendingMinutes
    debounce,      \* the debounce timer is active
    isSaveError,
    edits,         \* history: every gesture that writes, in order
    lost           \* history: the edits whose write failed, was dropped, or
                   \* committed before an older write that can undo it

home == <<selectedDate, selectedHour, isNextDay, localWindow, defaultWindow,
          loading, snapshot, optimistic, pending, debounce, isSaveError>>
vars == <<server, cache, inflight, signedIn, tab, initialDate, home, edits, lost>>

-----------------------------------------------------------------------------
(* The documents and the writes *)

Records == [Hours -> Minutes \cup {Unset}]
NoRecords == [h \in Hours |-> Unset]

\* The document a transaction sets: the total follows from the rest.
Doc(records, w) ==
    [records |-> records, window |-> w,
     totalActiveMinutes |-> ActiveMinutes(records, w, Unset)]

Docs == {Doc(r, w) : r \in Records, w \in AllWindows}

ASSUME MarkersAssumption ==
    /\ NoDoc \notin Docs /\ Unknown \notin Docs
    /\ NoPending \notin [hour : Hours, minutes : Minutes, edit : Nat]

RecordsOf(doc) == IF doc \in {NoDoc, Unknown} THEN NoRecords ELSE doc.records

Kinds == {"energy", "window", "delete"}

Edit == [kind : Kinds, date : Dates, hour : Hours \cup {NoHour},
         minutes : Minutes \cup {Unset}, window : AllWindows]

\* A call of updateEnergyLog or deleteDailyLog that has not completed.  edit
\* numbers the gesture it came from; mounted tells whether the HomeScreen
\* that made the call still exists, so that its callbacks have an effect.
Write == [edit : 1..MaxEdits, kind : Kinds, date : Dates,
          hour : Hours \cup {NoHour}, minutes : Minutes \cup {Unset},
          window : AllWindows, mounted : BOOLEAN]

\* Variant: the document is written from the new record alone.
WrittenFresh(doc, u) ==
    Doc(IF u.hour = NoHour THEN RecordsOf(doc)
        ELSE [NoRecords EXCEPT ![u.hour] = u.minutes], u.window)

\* Variant: the total is taken before the new record is put in.
WrittenStaleTotal(doc, u) ==
    LET old == RecordsOf(doc)
    IN  [Doc(IF u.hour = NoHour THEN old ELSE [old EXCEPT ![u.hour] = u.minutes],
             u.window)
            EXCEPT !.totalActiveMinutes = ActiveMinutes(old, u.window, Unset)]

\* What the body of the transaction makes of the document it read.
Written(doc, u) ==
    LET old == RecordsOf(doc)
    IN  Doc(IF u.hour = NoHour THEN old ELSE [old EXCEPT ![u.hour] = u.minutes],
            u.window)

Applied(doc, u) == IF u.kind = "delete" THEN NoDoc ELSE Written(doc, u)

Unmounted(writes) == {[u EXCEPT !.mounted = FALSE] : u \in writes}

CanEdit == Len(edits) < MaxEdits
NextEdit == Len(edits) + 1

Logged(kind, date, hour, minutes, w) ==
    edits' = Append(edits, [kind |-> kind, date |-> date, hour |-> hour,
                            minutes |-> minutes, window |-> w])

-----------------------------------------------------------------------------
(* HomeScreen: what is shown, and which hours accept an edit *)

Shown == [h \in Hours |-> IF optimistic[h] # Unset THEN optimistic[h]
                          ELSE RecordsOf(snapshot)[h]]

ShownTotal == ActiveMinutes(Shown, localWindow, Unset)

IsFutureTime(h, nextDay) == selectedDate = Today /\ (nextDay \/ h > NowHour)

\* A row of the timeline, or the selected hour, is inside the window.
IsActiveWindow(h, nextDay) ==
    /\ ~IsFutureTime(h, nextDay)
    /\ \/ nextDay
       \/ IF IsOvernight(localWindow) THEN h >= localWindow.startHour
                                      ELSE IsActive(h, localWindow)

\* Every setState, and every document the stream brings, is followed by a
\* frame, and the callback after the frame assigns this window to the screen.
\* The frame is part of the action that causes it.
WindowAfterFrame(doc, default) ==
    IF doc \in {NoDoc, Unknown} THEN default ELSE doc.window

HomeInFront == signedIn /\ tab = "home"

-----------------------------------------------------------------------------
(* HomeScreen: the debounced save *)

\* Variant: nothing is sent while another tab is in front.
PendingWriteInFront ==
    IF pending = NoPending \/ ~HomeInFront THEN {}
    ELSE {[edit |-> pending.edit, kind |-> "energy", date |-> selectedDate,
           hour |-> pending.hour, minutes |-> pending.minutes,
           window |-> localWindow, mounted |-> TRUE]}

\* The call _flushPending makes: the selected date and the window are read
\* now, not when the edit was made.
PendingWrite ==
    IF pending = NoPending \/ ~signedIn THEN {}
    ELSE {[edit |-> pending.edit, kind |-> "energy", date |-> selectedDate,
           hour |-> pending.hour, minutes |-> pending.minutes,
           window |-> localWindow, mounted |-> TRUE]}

\* Variant: the timer is not cancelled.
FlushLeavingTimer ==
    /\ inflight' = inflight \cup PendingWrite
    /\ pending' = NoPending
    /\ UNCHANGED debounce

FlushPending ==
    /\ inflight' = inflight \cup PendingWrite
    /\ pending' = NoPending
    /\ debounce' = FALSE

\* Variant: the timer only runs while the home tab is in front.
DebounceFiresInFront ==
    /\ HomeInFront /\ debounce
    /\ FlushPending
    /\ UNCHANGED <<server, cache, signedIn, tab, initialDate, selectedDate,
                   selectedHour, isNextDay, localWindow, defaultWindow, loading,
                   snapshot, optimistic, isSaveError, edits, lost>>

DebounceFires ==
    /\ signedIn /\ debounce
    /\ FlushPending
    /\ UNCHANGED <<server, cache, signedIn, tab, initialDate, selectedDate,
                   selectedHour, isNextDay, localWindow, defaultWindow, loading,
                   snapshot, optimistic, isSaveError, edits, lost>>

\* didChangeAppLifecycleState: the app leaves the foreground.
AppPaused ==
    /\ signedIn /\ pending # NoPending
    /\ FlushPending
    /\ UNCHANGED <<server, cache, signedIn, tab, initialDate, selectedDate,
                   selectedHour, isNextDay, localWindow, defaultWindow, loading,
                   snapshot, optimistic, isSaveError, edits, lost>>

\* A touch of the bar of the selected hour.
UpdateEnergy(m) ==
    /\ HomeInFront /\ CanEdit
    /\ selectedHour # NoHour /\ IsActiveWindow(selectedHour, isNextDay)
    /\ inflight' = IF pending # NoPending /\ pending.hour # selectedHour
                   THEN inflight \cup PendingWrite ELSE inflight
    /\ optimistic' = [optimistic EXCEPT ![selectedHour] = m]
    /\ isSaveError' = FALSE
    /\ pending' = [hour |-> selectedHour, minutes |-> m, edit |-> NextEdit]
    /\ debounce' = TRUE
    /\ Logged("energy", selectedDate, selectedHour, m, localWindow)
    /\ UNCHANGED <<server, cache, signedIn, tab, initialDate, selectedDate,
                   selectedHour, isNextDay, localWindow, defaultWindow, loading,
                   snapshot, lost>>

\* The dialog of active hours saves a window for the selected day.  The screen
\* takes it, and the next frame puts back the window of the last document.
UpdateSettings(w) ==
    /\ HomeInFront /\ CanEdit /\ "window" \in Enabled
    /\ localWindow' = WindowAfterFrame(snapshot, defaultWindow)
    /\ inflight' = inflight \cup
           {[edit |-> NextEdit, kind |-> "window", date |-> selectedDate,
             hour |-> NoHour, minutes |-> Unset, window |-> w, mounted |-> TRUE]}
    /\ Logged("window", selectedDate, NoHour, Unset, w)
    /\ UNCHANGED <<server, cache, signedIn, tab, initialDate, selectedDate,
                   selectedHour, isNextDay, defaultWindow, loading, snapshot,
                   optimistic, pending, debounce, isSaveError, lost>>

-----------------------------------------------------------------------------
(* HomeScreen: selection of an hour and of a day *)

SelectHour(h, nextDay) ==
    /\ FlushPending
    /\ selectedHour' = h
    /\ isNextDay' = nextDay
    /\ UNCHANGED <<server, cache, signedIn, tab, initialDate, selectedDate,
                   localWindow, defaultWindow, loading, snapshot, optimistic,
                   isSaveError, edits, lost>>

\* A row of the timeline is tapped; overnight the rows of the next morning
\* come after the 24 of the day.
TapRow(h, nextDay) ==
    /\ HomeInFront
    /\ nextDay => IsOvernight(localWindow) /\ h < ActualEnd(localWindow)
    /\ IsActiveWindow(h, nextDay)
    /\ SelectHour(h, nextDay)

\* The arrows of the clock panel.
StepHour(delta) ==
    /\ HomeInFront /\ selectedHour # NoHour
    /\ selectedHour + delta \in Hours
    /\ SelectHour(selectedHour + delta, isNextDay)

HourOn(d) == IF d = Today THEN NowHour ELSE NoHour

\* Variant: the day changes without a flush.
MoveWithoutFlush(d) ==
    /\ optimistic' = NoRecords
    /\ selectedDate' = d
    /\ selectedHour' = HourOn(d)
    /\ isNextDay' = FALSE
    /\ UNCHANGED <<server, cache, inflight, signedIn, tab, initialDate,
                   localWindow, defaultWindow, loading, snapshot, pending,
                   debounce, isSaveError, edits, lost>>

\* Variant: the optimistic records of the day are kept.
MoveKeepingOptimistic(d) ==
    /\ FlushPending
    /\ selectedDate' = d
    /\ selectedHour' = HourOn(d)
    /\ isNextDay' = FALSE
    /\ UNCHANGED <<server, cache, signedIn, tab, initialDate, localWindow,
                   defaultWindow, loading, snapshot, optimistic, isSaveError,
                   edits, lost>>

MoveTo(d) ==
    /\ FlushPending
    /\ optimistic' = NoRecords
    /\ selectedDate' = d
    /\ selectedHour' = HourOn(d)
    /\ isNextDay' = FALSE
    /\ UNCHANGED <<server, cache, signedIn, tab, initialDate, localWindow,
                   defaultWindow, loading, snapshot, isSaveError, edits, lost>>

ChangeDate(delta) ==
    /\ HomeInFront
    /\ selectedDate + delta \in Dates
    /\ delta = 1 => selectedDate # Today
    /\ MoveTo(selectedDate + delta)

GoToday == HomeInFront /\ selectedDate # Today /\ MoveTo(Today)

\* The calendar picker assigns the date and nothing else.
PickDate(d) ==
    /\ HomeInFront /\ "picker" \in Enabled
    /\ selectedDate <= Today /\ d <= Today /\ d # selectedDate
    /\ selectedDate' = d
    /\ UNCHANGED <<server, cache, inflight, signedIn, tab, initialDate,
                   selectedHour, isNextDay, localWindow, defaultWindow, loading,
                   snapshot, optimistic, pending, debounce, isSaveError, edits, lost>>

-----------------------------------------------------------------------------
(* HomeScreen: answers *)

\* _loadDefaultSettings continues after its await.
DefaultsLoaded ==
    /\ signedIn /\ loading
    /\ loading' = FALSE
    /\ defaultWindow' = UserWindow
    /\ localWindow' = WindowAfterFrame(snapshot, UserWindow)
    /\ UNCHANGED <<server, cache, inflight, signedIn, tab, initialDate,
                   selectedDate, selectedHour, isNextDay, snapshot, optimistic,
                   pending, debounce, isSaveError, edits, lost>>

\* The SDK's local copy of a document catches up with the server; a deletion
\* still in its queue stays visible.
Sync(d) ==
    /\ signedIn /\ "stream" \in Enabled
    /\ cache' = [cache EXCEPT ![d] =
           IF \E u \in inflight : u.kind = "delete" /\ u.date = d
           THEN NoDoc ELSE server[d]]
    /\ UNCHANGED <<server, inflight, signedIn, tab, initialDate, home, edits, lost>>

\* Variant: the document is read once instead of listened to.
StreamEmitsOnce ==
    /\ signedIn /\ "stream" \in Enabled /\ cache[selectedDate] # Unknown
    /\ snapshot = Unknown
    /\ snapshot' = cache[selectedDate]
    /\ localWindow' = WindowAfterFrame(cache[selectedDate], defaultWindow)
    /\ UNCHANGED <<server, cache, inflight, signedIn, tab, initialDate,
                   selectedDate, selectedHour, isNextDay, defaultWindow, loading,
                   optimistic, pending, debounce, isSaveError, edits, lost>>

\* The stream of the selected day emits; until it does the StreamBuilder
\* keeps what the previous day's stream gave it.
StreamEmits ==
    /\ signedIn /\ "stream" \in Enabled /\ cache[selectedDate] # Unknown
    /\ snapshot' = cache[selectedDate]
    /\ localWindow' = WindowAfterFrame(cache[selectedDate], defaultWindow)
    /\ UNCHANGED <<server, cache, inflight, signedIn, tab, initialDate,
                   selectedDate, selectedHour, isNextDay, defaultWindow, loading,
                   optimistic, pending, debounce, isSaveError, edits, lost>>

-----------------------------------------------------------------------------
(* The life of the screen *)

\* initState of a HomeScreen for day d; its State is new.
FreshHome(d) ==
    /\ selectedDate' = d
    /\ selectedHour' = HourOn(d)
    /\ isNextDay' = FALSE
    /\ localWindow' = DefaultWindow
    /\ defaultWindow' = DefaultWindow
    /\ loading' = TRUE
    /\ snapshot' = Unknown
    /\ optimistic' = NoRecords
    /\ pending' = NoPending
    /\ debounce' = FALSE
    /\ isSaveError' = FALSE

SwitchTab(t) ==
    /\ signedIn /\ tab # t
    /\ tab' = t
    /\ UNCHANGED <<server, cache, inflight, signedIn, initialDate, home, edits, lost>>

\* A day of TrendScreen's calendar is tapped.  The key of HomeScreen is made
\* of the date: the same date again keeps the State that exists; another
\* disposes of it, which flushes, and builds a new one.
OpenHomeTab(d) ==
    /\ signedIn /\ tab = "trend" /\ "calendar" \in Enabled
    /\ tab' = "home"
    /\ initialDate' = d
    /\ IF d = initialDate
       THEN UNCHANGED <<inflight, home>>
       ELSE /\ inflight' = Unmounted(inflight \cup PendingWrite)
            /\ FreshHome(d)
    /\ UNCHANGED <<server, cache, signedIn, edits, lost>>

\* TrendScreen's edit mode deletes a day; the SDK applies the deletion to its
\* copy at once and queues it for the server.
DeleteLog(d) ==
    /\ signedIn /\ tab = "trend" /\ CanEdit /\ "delete" \in Enabled
    /\ inflight' = inflight \cup
           {[edit |-> NextEdit, kind |-> "delete", date |-> d, hour |-> NoHour,
             minutes |-> Unset, window |-> DefaultWindow, mounted |-> TRUE]}
    /\ cache' = [cache EXCEPT ![d] = NoDoc]
    /\ Logged("delete", d, NoHour, Unset, DefaultWindow)
    /\ UNCHANGED <<server, signedIn, tab, initialDate, home, lost>>

DroppedEdit == IF pending = NoPending THEN {} ELSE {pending.edit}

\* The user is gone before dispose runs: _flushPending finds no uid and only
\* clears the pending edit.
SignOut ==
    /\ signedIn /\ "signout" \in Enabled
    /\ signedIn' = FALSE
    /\ inflight' = Unmounted(inflight)
    /\ pending' = NoPending
    /\ debounce' = FALSE
    /\ lost' = lost \cup DroppedEdit
    /\ UNCHANGED <<server, cache, tab, initialDate, selectedDate, selectedHour,
                   isNextDay, localWindow, defaultWindow, loading, snapshot,
                   optimistic, isSaveError, edits>>

SignIn ==
    /\ ~signedIn
    /\ signedIn' = TRUE /\ tab' = "home" /\ initialDate' = NoDate
    /\ FreshHome(Today)
    /\ UNCHANGED <<server, cache, inflight, edits, lost>>

\* The process dies without a lifecycle event and the app is opened again.
\* A transaction that has not reached the server dies with it; deletions are
\* in the SDK's queue on the device.
Relaunch ==
    /\ signedIn /\ "relaunch" \in Enabled
    /\ tab' = "home" /\ initialDate' = NoDate
    /\ \E gone \in SUBSET {u \in inflight : u.kind # "delete"} :
           /\ inflight' = Unmounted(inflight \ gone)
           /\ lost' = lost \cup DroppedEdit \cup {u.edit : u \in gone}
    /\ FreshHome(Today)
    /\ UNCHANGED <<server, cache, signedIn, edits>>

-----------------------------------------------------------------------------
(* The network and the server *)

\* Concurrent transactions may commit in either order when one of them is
\* retried.
MayGoNext(u) ==
    u \in inflight /\ ("reorder" \in Enabled \/ \A v \in inflight : u.edit <= v.edit)

Answered(u, error) ==
    isSaveError' = IF u.mounted /\ u.kind = "energy" THEN error ELSE isSaveError

\* An older write of the same hour, or the deletion of the day, comes after u.
Overtakes(u) ==
    \E v \in inflight :
        /\ v.edit < u.edit /\ v.date = u.date
        /\ v.kind = "delete" \/ v.hour = u.hour

\* The server applies the write; lostReply: the client is told it failed.
Commit(u, lostReply) ==
    /\ MayGoNext(u)
    /\ lostReply => "fail" \in Enabled /\ u.kind # "delete"
    /\ server' = [server EXCEPT ![u.date] = Applied(@, u)]
    /\ inflight' = inflight \ {u}
    /\ lost' = IF Overtakes(u) THEN lost \cup {u.edit} ELSE lost
    /\ Answered(u, lostReply)
    /\ UNCHANGED <<cache, signedIn, tab, initialDate, selectedDate, selectedHour,
                   isNextDay, localWindow, defaultWindow, loading, snapshot,
                   optimistic, pending, debounce, edits>>

\* The transaction fails (offline, retries exhausted); a queued deletion does not.
Fail(u) ==
    /\ MayGoNext(u) /\ "fail" \in Enabled /\ u.kind # "delete"
    /\ inflight' = inflight \ {u}
    /\ lost' = lost \cup {u.edit}
    /\ Answered(u, TRUE)
    /\ UNCHANGED <<server, cache, signedIn, tab, initialDate, selectedDate,
                   selectedHour, isNextDay, localWindow, defaultWindow, loading,
                   snapshot, optimistic, pending, debounce, edits>>

-----------------------------------------------------------------------------
Init ==
    /\ server = [d \in Dates |-> NoDoc]
    /\ cache = [d \in Dates |-> Unknown]
    /\ inflight = {}
    /\ signedIn = TRUE /\ tab = "home" /\ initialDate = NoDate
    /\ selectedDate = Today
    /\ selectedHour = NowHour
    /\ isNextDay = FALSE
    /\ localWindow = DefaultWindow
    /\ defaultWindow = DefaultWindow
    /\ loading = TRUE
    /\ snapshot = Unknown
    /\ optimistic = NoRecords
    /\ pending = NoPending
    /\ debounce = FALSE
    /\ isSaveError = FALSE
    /\ edits = << >>
    /\ lost = {}

Network == \E u \in inflight : Fail(u) \/ \E lostReply \in BOOLEAN : Commit(u, lostReply)

Next ==
    \/ DebounceFires \/ AppPaused
    \/ \E m \in Minutes : UpdateEnergy(m)
    \/ \E w \in Windows : UpdateSettings(w)
    \/ \E h \in Hours, nextDay \in BOOLEAN : TapRow(h, nextDay)
    \/ \E delta \in {-1, 1} : StepHour(delta) \/ ChangeDate(delta)
    \/ GoToday
    \/ \E d \in Dates : PickDate(d)
    \/ DefaultsLoaded \/ StreamEmits
    \/ \E d \in Dates : Sync(d) \/ OpenHomeTab(d) \/ DeleteLog(d)
    \/ \E t \in {"home", "trend"} : SwitchTab(t)
    \/ SignOut \/ SignIn \/ Relaunch
    \/ Network

\* The timer fires, the network answers, and the listeners deliver;
\* nothing is assumed of the user.
Fairness ==
    /\ WF_vars(DebounceFires)
    /\ WF_vars(Network)
    /\ \A d \in Dates : WF_vars(Sync(d))
    /\ WF_vars(StreamEmits)

Spec == Init /\ [][Next]_vars
FairSpec == Spec /\ Fairness
=============================================================================
