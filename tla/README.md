# Verification of the Joongshim Uji app

The app records, hour by hour, how many minutes of each hour the user kept
"centred", shows the share of a day's active hours, keeps memos, and reminds the
user every hour or half hour. It is one Flutter program (`src/lib`) on top of
Firebase Auth, Cloud Firestore and the notification plugin. There is no server
code of its own, so everything that can go wrong between an edit and its document, or
between a setting and its alarms, goes wrong in these files.

## 1. Inventory

| Component | Source | State | Operations | What makes it correct |
|---|---|---|---|---|
| Home editor | `screens/home_screen.dart` | selected day and hour, next-morning flag, local and default window, optimistic records, pending edit, debounce timer, error flag | edit, flush, change of hour and day, picker, dialog of active hours, stream and settings answers, lifecycle, dispose | an edit is stored once, for the day and hour it was entered for, or reported; the screen ends up showing the document |
| EnergyService | `services/energy_service.dart` | documents `daily_logs/<date>`, `settings/default` | transaction of one hour or one window, deletion, streams, settings | a write keeps the other hours; the total follows from the records and the window |
| Firestore transactions | `ios/Pods/.../core/transaction_runner.cc`, `transaction.cc`, `datastore.cc` | attempts, version read, commits on their way | attempt, read, commit, refusal, lost connection, retry | a call is applied to the document of the moment, and the caller is told what happened |
| Active hours | both of the first two | none | overnight, active, goal, total | screen and service agree |
| MainNavigator, session | `main.dart` | tab, date of the home tab, date of the memo tab | tabs, opening a day or a memo, auth state | the day opened is the day shown |
| TrendScreen | `screens/trend_screen.dart` | month, edit mode, selected days, memo days | deletion of days, opening a day, month stream | what is deleted is gone everywhere |
| NotificationService | `services/notification_service.dart` | preferences on the device, alarms of the system | reschedule, return to the foreground | the alarms are those of the settings |
| Memo editor | `screens/memo_screen.dart`, `services/memo_service.dart` | text, loaded text, day, saving | load, save, change of day, unsaved-text question | text is stored under its day and never lost silently |
| Accounts | `services/auth_service.dart`, `screens/login_screen.dart` | auth user | sign in and out, deletion of an account | a deleted account leaves nothing |
| Dialogs of hours, settings, export | `screens/home_screen.dart`, `screens/settings_screen.dart` | the settings shown | hour and interval pickers, dialog of a day, switch, CSV | the ranges offered make a valid window beside those of the other days |
| LanguageProvider | `services/language_provider.dart` | language | set, load, sync | device and account agree |
| UpdateService | `services/update_service.dart` | none | compare versions | an update is offered when there is one |

Interactions: HomeScreen calls EnergyService and, without awaiting it,
NotificationService; its StreamBuilder is called back by Firestore; TrendScreen
calls MainNavigator, which replaces HomeScreen by a new key; all screens but the
replaced ones stay mounted in an `IndexedStack`, so timers and callbacks of a tab
that is not in front still run. The home tab opens a memo through MainNavigator,
which replaces MemoScreen by a key made of the moment; MemoScreen and the
calendar of TrendScreen share nothing but the memos, which both write. SettingsScreen
writes the settings and, after the write is acknowledged, calls NotificationService; the auth stream in `main.dart`
builds and disposes everything, LanguageProvider listens to it as well, and the
deletion of an account ends with it.

The hard behaviours: the 300 ms timer against change of hour, day, tab, screen
and user; transactions that are in flight together, fail, commit without a
reply, or die with the process; a stream that still shows the previous day;
optimistic values nobody removes; calls of NotificationService that interleave
at every `await`; an `await` of a Firestore addition, which needs a network;
answers of loads, searches and saves that find another day on the screen; a set
that changes under the loop over it; an account deleted in many awaited steps;
windows stored in two encodings whose bounds depend on each other.
`PROJECT.json` lists each at its line under `hazards`.

## 2. Modules

| Module | What it is |
|---|---|
| `ActiveHours` | window arithmetic as `updateEnergyLog` and HomeScreen compute it |
| `EnergyHome` | HomeScreen, the calls of EnergyService, the stream, and the parts of TrendScreen and MainNavigator that touch them; one action per handler |
| `EnergyLog` | abstract specification: requests for values and deletions that wait, are applied at most once, or are lost |
| `EnergyHomeProperties` | properties, and the refinement mapping `Log == INSTANCE EnergyLog WITH ...` |
| `EnergyHomeProofs` | types, the pending edit; origin of stored values, one hour per write, the refinement of `EnergyLog`; that its commits are the updates of `EnergyDocument` |
| `EnergyHomeOrderProofs` | the last value of an hour is stored, the screen at rest shows what is stored |
| `EnergyDocument` | the document of a day and what one call of `updateEnergyLog` makes of it |
| `FirestoreTransaction` | the attempts behind the one step `Commit` of `EnergyHome`, with their properties |
| `AtomicUpdates` | abstract specification: calls applied to the document of the moment |
| `TransactionProofs` | its types, invariants, that calls advance, and the refinement `AppliedAtomically` |
| `WindowDialogs` | the picker of the settings, the dialog of a day, the goal of the export |
| `WindowProofs` | the goals for every window, the lists and the bounds |
| `MemoStore` | the memos as the device sees them, shared by the next two |
| `MemoEditor` | MemoScreen, its calls of MemoService, and MainNavigator's `openMemoTab` |
| `TrendCalendar` | months, tinted days, edit mode and deletion loop of TrendScreen |
| `MemoTab` | both side by side, with their properties |
| `MemoProofs` | types and all safety properties of `MemoTab` |
| `AlarmScheduler` | NotificationService, its preferences, the alarms and the three callers, with their properties |
| `AlarmProofs` | the slots of a day, the types, that alarms and preferences follow the settings, and that alarms ring in the active hours |
| `AccountSession` | LanguageProvider, signing in and out, `AuthService.deleteAccount`, with their properties |
| `AccountProofs` | the types and all safety properties of `AccountSession` |
| `UpdateCheck` | UpdateService, which has no state, with its theorems |
| `MC...` | instances for TLC, one for each module that is run |

`MemoTab` composes `MemoEditor` and `TrendCalendar` over `MemoStore`;
`EnergyHome` and `FirestoreTransaction` are joined by `EnergyDocument`: both write what
its `Updated` makes of a document, the second because it implements
`AtomicUpdates`, the first by the theorem `CommitsAreUpdates`. What the editor takes
a transaction to be is so what the client is shown to give.

### EnergyHome and the code

* A document is `Doc(records, window)`: the transaction always writes the total
  from the records and the window, so the total is computed, not chosen.
  `Written` is the body of the transaction; a transaction is one step, `Commit`,
  which is what `AppliedAtomically` justifies. `FirestoreTransaction` also shows
  what `Commit` leaves out: a call that lost a connection may be applied again
  after its success, if the day was deleted in between, or after its failure.
* `inflight` holds the calls that have not completed. `Commit(u, lostReply)`
  applies one, and tells the screen it failed when the reply is lost; `Fail`
  drops it. `mounted` remembers whether the HomeScreen that called still exists,
  since the callbacks test `mounted`.
* The SDK's local copy is `cache`. A transaction does not touch it; a deletion
  does at once and waits in the SDK's queue. `Sync` and `StreamEmits` are apart,
  so a document can arrive late, and `snapshot` keeps the previous day's document
  after a change of day, as `StreamBuilder` does.
* The frame that follows every `setState` and every document runs a callback
  that assigns the window of the snapshot, or the default window
  (`WindowAfterFrame`). The frame comes before the next gesture or timer, so it
  is part of the action that causes it: `UpdateSettings` therefore ends with
  the window of the last document, not the one just chosen.
* `PickDate` changes `selectedDate` and nothing else, as in the code; all other
  changes of day are `MoveTo`.
* `OpenHomeTab` keeps the State when the key is the same and otherwise disposes
  of it (with its flush) and builds a new one. `SignOut` empties the pending edit
  without a write because `currentUser` is null before `dispose` runs.
* `Relaunch` loses the pending edit and any transactions that had not reached
  the server; deletions are in the SDK's queue on disk.
* `edits` and `lost` are history: the gestures in order, and those whose write
  failed, was dropped, or committed before an older write or deletion that could undo it
  (`Overtakes`). No action reads them except to number the next edit.

`Enabled` names the faults and gestures an instance has, so that a property can
be checked in exactly the environment it needs; an event that is off removes
behaviours only.

### AlarmScheduler and the code

A call is a record with the step it has reached; every `await` separates two
steps. `Compare`, `Skips`, `NonePending`, `SavePreference` (four times),
`CancelAll`, then `ScheduleSlot` and `LogAcknowledged` for each slot, and
`ReportAcknowledged` are the body of `rescheduleAlarms`; `ClearAll` and
`ForgetCache` come first in `onAppForegrounded`. A log write completes only while
the device is online. The slots of a day are computed arithmetically:
`SlotMinute(s, i)` is the i-th element of the list the two loops build, and `SlotsOfLoops`
proves that these are the minutes which the loops, written down as in the code, add.
`Awake` says which window the settings mean by the arithmetic of `ActiveHours`, another
file's; `AlarmsRingAwake` compares the two, at rest and undisturbed.

`onAppForegrounded` and `rescheduleAlarms` each ask for the user, so that
`Compare` (`ForUser`) may go on for another user than `AppResumed` began with.
Neither `_updateSetting` nor `_loadDefaultSettings` tests that its screen is still
there after its await, so `SwitchUser` may leave their answers to come: `loading` is a set of
users, and a write of a screen that is gone carries the settings that screen
showed (`left`).

`disturbed` is history: calls overlapped, one died or failed, was made for a user
who is gone, or the user changed, and since then no call has run alone from start
to end with the user's settings. `AlarmsFollowSettings`, `PreferencesFollowSettings` and
`AlarmsRingAwake` except the time it is set: they say that a lone call repairs what
overlapping calls, failed alarms, restarts inside the loop, half saved preferences and changes
of user have left, not that the alarms were right meanwhile.

A settings write that Firestore refuses has no action. `updateUserSettings` then throws at
`settings_screen.dart:141`; nothing catches it, the screen goes on showing the choice, and
the call of `rescheduleAlarms` in line 143 is never made. Alarms and stored settings still
agree then, which is what the properties compare; the screen agrees with neither.
Every write here is acknowledged at some time, or dies with the process. Nor is a limit of the
platform ever reached: 48 slots are the most a day has (`SlotsFit`), so the cut of the list
at `notification_service.dart:261-263` changes nothing and nothing is claimed of it.

### FirestoreTransaction and the code

The Firestore client of the iOS build is vendored with the app, so its
transactions are modelled from its code. `Run`, `HandleTransactionError` and
`IsRetryable` are the methods of `TransactionRunner`; `Lookup` is the read that
`RecordVersion` notes; `Commit` is the update function of EnergyService followed
by the commit, whose `Precondition` is the one `Transaction` computes from the
version read. `snapshot` keeps what an attempt has read, `requests` the commits
on their way: a request outlives the attempt that sent it, so it may be stored
after the connection broke. The server (`Store`, `Refuse`) checks the
precondition and merges; it is external, modelled from what the client expects
of it. The update of EnergyService is repeated with each attempt, as there.

### WindowDialogs and the code

`OpenPicker`, `PickHour` and `SavePicker` are `_showHourPicker` and
`_updateSetting`; `ShowTimeSettings` reads the logs of the two days beside the
selected one and `DialogShown` builds the dialog after that await, with the day and
window of that moment, because `_showTimeSettings` reads both again.
`RecordEnergy` is the first save of a day, which stores the default window with the
value and is how the encoding of the settings gets into the logs. The settings
store a bed hour of the next day as it is and the dialog as 24 + h;
`IsOvernight` and `ActualEnd` of `ActiveHours` decode both.

### MemoEditor, TrendCalendar and the code

A load, a search and a save are calls with the step they have reached; `LoadReads`
and `LoadAnswered` are apart, as are the read, the write and the answer of a save
(`memo_service.dart:18-38` is no transaction). `ChangeDate` includes the
question about unsaved text: `agreed` is history and says that the user was asked. A
swipe is ignored while text is unsaved. `OpenMemoTab` builds a new screen and
detaches the calls of the old one. Reads and writes go to `memos`, the device's
view, since Firestore applies a write to it when it is issued.

In `TrendCalendar`, `loop` is the `for` over `_selectedEditDates`: `confirmed` is the
set when it began, `done` what it has deleted, `changed` whether the set was
touched since, which Dart's iterator punishes when it next moves
(`IteratorThrows`). The arrows and the tapping of days stay possible while a
deletion is awaited, because the code does not lock the screen.

Five switches name what a user or the network may do to the editor: `overtake` (leave a
day while its memo loads), `blind` (save while it loads), `typeahead` (type while a search
is out), `depart` (leave while a save is out), `offline`. An answer is never compared with
the day on the screen, so two of them let the code file a text under another day: a save
pressed while the memo loads stores what the field still holds, and after two loads have
answered in the other order the text of one day stands under the date of the other.
`MemoOfItsDay` says that nothing else does, whichever switches are on. `loads` notes which load
was overtaken by a later one; of the history, `crossed` says that the answer on the
screen is not that of the load asked last, and `misled` collects the days for which save was
pressed during a load or over such an answer. `memo_loads` checks it with two loads out,
`overtake`, `blind` and `offline`; with `depart`, `typeahead` or the calendar in step it
outgrows a run of five minutes, and the theorem, which assumes nothing of the
switches, stands for those.

The other two properties of the editor are the contract of a user who waits for the
spinner, and take all other orders, `offline` included: `CleanMeansStored` fails with
`overtake`, `blind` and `depart`, `TypedTextIsKept` with `typeahead` and `depart`.

### AccountSession and the code

The SDK's writes of each user are a queue of their own, on disk, sent in order
while that user is signed in; reads see them at once (`UserLanguage`).
`DeleteAccount` starts the call that `CollectionRead`, `QueryAnswered`,
`DocumentDeleted` and `AuthDeleted` carry from step to step through the three
collections of `_deleteUserFirestoreData`, the document of the user and the account; each
awaits the one before, and an error ends the call (`QueryFails`, `DeletionRefused`,
`AuthRefused`) except for the document of the user, where the code catches it.
`language` is the field and the preference of LanguageProvider together: they are
assigned one after the other with nothing in between that can fail. `synced` and `since` are
history. With `cache` a query may be answered by the part of a collection that the
device knows; `DataGoneFirst` then fails.

## 3. Runs

| Run | Checks | Instance | Result |
|---|---|---|---|
| `gestures` | `TypeOK`, `PendingIsArmed`, `PendingIsShown`, `OneHourPerWrite` | two days and hours, 2 edits, picker, window dialog, deletion, sign-out | hold |
| `log` | `StoredWhereEntered`, `OptimisticIsThisDay`, `LatestEditWins`, `LogSpec` | 2 edits, two values; failure, lost reply, any order of commits, deletion, window dialog, calendar, sign-out, restart; no picker | hold |
| `progress` | `ShownIsStored`, `EditsResolve`, `ScreenCatchesUp` | overnight window 22..26 from the settings, hours 1 and 23, 2 edits; failure, lost reply, any order of commits, deletion, restart, a late stream; fairness | hold |
| `transactions` | `TransactionTypeOK`, `TotalOfRecords`, `RefusalHasCause`, `OutcomeIsKnown`, `AppliedAtomically`, `CallsEnd` | two calls for two hours and windows, 3 attempts, 1 deletion; lost connections, late commits; fairness | hold |
| `hours` | `WindowTypeOK`, `PickerOffersItsValue`, `DialogOffersItsValues`, `GoalCountsHours`, `ExportGoalAgrees`, `BedBeforeNextWake`, `WakeAfterPreviousBed` | three days, 4 saves, three wake and two bed hours tapped, logs in both encodings | hold |
| `memo_loads` | `MemoOfItsDay` | two days with a note each, two loads, one save; days left and saves pressed while a memo loads, failing reads; the calendar rests | holds |
| `memos` | `MemoTypeOK`, `CleanMeansStored`, `TypedTextIsKept`, `OnlyConfirmedDeleted`, `SuccessMeansAllDeleted`, `SavesEnd` | two days with a note each, two months, one load, save and query at a time, failing reads; fairness | hold |
| `alarms` | `AlarmTypeOK`, `AlarmsFollowSettings`, `PreferencesFollowSettings` | two calls at a time, two writes, two wake hours, on and off, restart, failing alarm | hold |
| `alarm_users` | `AlarmsRingAwake`, `CallsFinish` | one call at a time, two users, half hours from 23 to midnight, network on and off, restart; fairness | hold |
| `account` | `AccountTypeOK`, `LanguageFollowsSettings`, `DataGoneFirst`, `DeletionsEnd` | one user, two calls of the deletion, two languages, one other write, two sign-ins or launches; fairness | hold |
| `saved_window` | `SavedWindowStays` | one day, one window saved, one edit | violated |
| `day_overlap` | `WakesAfterBed` | three days, 3 saves, other hours tapped than in `hours` | violated |

The two violated ones are disagreements between the code and its own comments;
`findings` in `PROJECT.json` quotes both sides:

* the frame's callback trusts the last document, which can be older than the
  user's own change of the window, and the next save writes that window into the
  document;
* the dialog bounds the wake hour by the bed hour of the day before, but only in the
  encoding of the settings, not in the one that it stores itself.

The properties exclude, by a switch or by a history variable, what is known to
break them; the hazards' notes name each. In short, where no run shows it: the
date picker neither flushes nor clears, so the records of one day lie over
another's; a value whose save failed, or was overtaken by an older one, hides the
stored one for as long as the day stays open, and so does one whose day was deleted
in the statistics tab; after a change of day the next save may take the window of the day before with it; a call
that schedules alarms is not stopped by a later one that cancels them; a restart
inside the loop of the alarms leaves some of them and a cache that forbids the
rest; a memo saved while another loads, or after the answer of another, is filed under
the wrong day; a bed hour that the dialog left behind when the day before raised the wake
hour is saved as it stands; and the orders that `typeahead`, `depart`, `hurry` and
`cache` name.

The first of these the code's own comment denies. At `home_screen.dart:272-273`
`_flushPending` leaves a saved value among the optimistic records ("Do not remove
optimistic record here to prevent flashing. The stream will eventually overwrite the state
properly."), but `build` (line 611) lets the optimistic record win over the stream's
until the day changes. `ShownIsStored` therefore does not say that the screen shows the
document. `Overruled` names the hours for which it may not: those whose last value the
document does not have, because its write failed, came before an older one, or was
followed by a deletion of the day. For all others it must, with the error indicator
green or red. An edit that failed and whose neighbour then succeeded is such a
case: the indicator is green again and the value of the first is still shown.

Bounds. `MaxEdits` (2) bounds gestures that write; two edits are enough for
one to overtake, supersede or survive another, and a deletion counts as one. Two days and two hours are the smallest with another day and hour
to confuse; hours 22, 23 and 1 are on the edges of the windows used. Navigation,
answers, restarts and stream events are unbounded. `Callers` bounds the calls of
NotificationService under way together and `MaxWrites` the changes not yet
acknowledged; calls are otherwise unbounded in number. A day has two or one slots in
`alarms`, the fewest for which a loop can be cut in the middle, and three in `alarm_users`, which
go through midnight in half hours. Callers are
symmetric in `alarms`, which checks no liveness; the theorems remove these bounds.

Two calls are the fewest that collide in a transaction, and with three attempts a
call can be refused, lose a connection and succeed; the five of the code differ in
number only, and the theorems are for every number. Its two hours are one that both
windows hold and one that only one does, so that a total taken for the wrong window or
the wrong records differs. In `hours`, 3, 4 and 5 are wake hours below the default one, so that every order of three
neighbours occurs; 5 is a bed hour that crosses midnight in the settings' encoding and 29 the
same one in the dialog's; taps are what is bounded, the lists themselves have all their hours.
Three days give a selected one with a day on each side, and four saves are the fewest
after which both bound it at once: with a day before that ends at 5, a day of its own
from 3 or 4 to 29 and a next one from 3, the wake hour is raised, and past
the bed hour, which `BedBeforeNextWake` has to except. In `memos` two
days are what a load or a search can confuse and what a deletion loop needs to be cut in two; without `overtake` and
`depart` more than one load or save cannot be under way, so one of each is no bound.
`account` has one document for each collection beside the settings: a
second only lengthens the loop. `MaxChoices`, `MaxWrites`, `MaxSignIns`, `MaxCalls`
bound its counts; a language chosen before and after a synchronisation, and a second
deletion during or after the first, happen within them.

Deadlock is checked in every run but two, where the system does stop:
`transactions`, when both calls have ended and nothing is left to delete, and
`account`, when the account is gone and the bounds are reached.

Fairness. `EnergyHome`: a timer that is set fires, a call is answered, a listener
catches up and a stream emits. `WF_vars(Network)` is what the SDK gives when
there is a network or when it gives up, since both answers count. Nothing is assumed of the
user in any module. `AlarmScheduler`: each call goes on when what it awaits has come;
`CallsFinish` is conditional on the device staying online, because without a
network the code does wait for ever. `FirestoreTransaction`: an attempt that is
begun is read, committed and answered (`Goes`), unless its connection breaks, which
nothing has to; `MemoTab`: each save takes its next step, an error being one;
`AccountSession`: the queue of the user who is signed in is sent, and a query and
`user.delete()` are answered, all possibly with an error. `DeletionsEnd` allows
for a user who signs out, since the queue then rests.

## 4. Proofs

Those of `EnergyHome` are for every value of the constants that satisfies `ConstantsAssumption` and
`MarkersAssumption` (days are integers, hours lie in 0..23, windows are well
formed, the marker values are not values of the type they mark).

* `Typing` (`Spec => []TypeOK`): inductive as it stands. Its content is the clause that
  every stored document is in `Docs`, so that its total is the total of its records.
* `PendingIsArmedAlways`, `PendingHourIsSelectedAlways`, `PendingIsShownAlways`:
  from the inductive `PendingOK`, which joins the first two with the stronger form of
  the third: the optimistic record of the hour that waits is the value that waits.
* `StoredWhereEnteredAlways`, without the picker: `Provenance` says that each call in
  flight, and the pending edit read with the selected day, is a gesture of the
  history; a commit then stores what a gesture entered. The picker breaks
  `Provenance`, since it changes the day under the pending edit, hence the assumption
  `"picker" \notin Enabled`.
* `OneHourPerWriteAlways`: only `Commit` changes the documents.
* `CommitsAreUpdates`: a document changes by a deletion or by `Updated` of `EnergyDocument`,
  of the document of that moment, for a call in flight; picker, failures and lost replies included.
  `CallsCarryMinutes` says that a call with an hour has minutes, `SameTotal` that both modules
  sum the same. `Service` is an instance whose assumption on calls, `CallAssumption`, is
  proved of the editor's (`EntriesAreCalls`); `DocumentAssumption` concerns the marker
  alone and no step uses it.
* `AlarmTyping`, `AlarmsFollowSettingsAlways`, `PreferencesFollowSettingsAlways`:
  from the inductive `AlarmInv`. `StepsOK` bounds the counter of each loop; `WholeOK`
  says what a call that has run alone has done so far (cache, saved keys, alarms
  scheduled); `CacheTold` says that without a disturbance the cache is true, which
  is what makes skipping right; `LastWriteOK` that the last change to be
  acknowledged is the value shown, so that the last call schedules what the user chose.
  Each action is a lemma; `AdvanceOK`, `EndOK`, `FinishOK` and `StartOK` are what
  the four kinds of step have in common. Assumptions: `AlarmConstants`, `IdleAssumption`.
* `AlarmsRingAwakeAlways`: by `AlarmsFollowSettingsAlways` the alarms are the slots, and by
  `LoopsAreAwake` the hours of the slots are the active hours and the bed hour, whichever
  encoding the bed hour has. It assumes `MaxSlots >= 48`, which both platforms' limits satisfy
  (64 and 500); with fewer, the last hours would be cut off.
* `SlotsOfLoops`, `SlotsFit`, `SlotsDiffer`: about the arithmetic of the slots, for every pair of hours
  and both intervals.
* `ImplementsLog` (`Spec => LogSpec`, without the picker): `Distinct` says that
  no two calls are the same gesture, so a commit removes one request only.
  `StepKinds` sorts the actions into those that leave the requests alone, those that
  flush (the pending request becomes the same request in flight), those that drop, and
  the five that ask, apply or lose; `LogStep` maps each to a step of `EnergyLog` or a stutter.
* `LatestEditWinsAlways`, without the picker, commits in any order: from `Ordered`.
  `LatestIsSettled` says that the last edit of an hour, once it neither waits nor
  is lost, is stored *and* that no call is left that touches its hour; the second half is
  what keeps the first through later commits. A commit settles its edit unless it
  overtakes one, and then the edit is lost (`Overtakes`): `Touches` makes a deletion count as a
  later edit of all hours of its day. `PendingIsLatest` is why coalescing loses nothing.
* `OptimisticIsThisDayAlways`, without the picker: inductive as it stands, since the
  other changes of day clear the optimistic values.
* `ShownIsStoredAlways`, under the same single assumption, failures, deletions and
  overtaking included: `OptimisticIsLastEntry` says that an optimistic value is the last one
  entered for its hour and day. If nothing waits it is therefore stored by `Ordered`, or
  it is lost or was followed by a deletion, which is `Overruled`; `WindowOfSnapshot` gives
  the total.
* `TransactionTyping`, `TotalOfRecordsAlways`, `RefusalHasCauseAlways`,
  `OutcomeIsKnownAlways`: from the inductive `TransactionInv`. `VersionsGrow` orders the
  versions: no snapshot or request knows one later than the server's clock.
  `VersionsName` is what makes optimistic locking work: whoever has read the version
  the document still has, has read its records, and
  whoever has read that there is no document has read no records. `RequestsOfCall` ties a
  request to the attempt that waits for it, and `CallsWithoutLoss` says that a call that lost no
  connection has at most one.
* `AppliedAtomicallyAlways` (`Spec => AppliedAtomically`): by `VersionsName` a `Store` whose
  precondition holds writes what `Updated` makes of the document of the moment, although
  it was computed from an older read; by `RequestsOfCall` a call that was told of its
  success can be applied again only to a day that has no document. For every set of
  calls and number of attempts.
* `AnswerAwaitedAlways`, inductive beside `TransactionInv`: the commit that a call waits for is on its
  way, and only one is, however many of its earlier attempts still are.
  `CallsAdvanceAlways`: each move of a call raises `Progress`, which `ProgressBounded` bounds. Together
  they are the part of `CallsEnd` that needs no fairness: a call never waits for an answer that
  cannot come and moves at most 6 * `MaxAttempts` + 5 times. That its moves are also made is
  left to the run.
* `MemoTyping`; `MemoOfItsDayAlways` from `OfDayInv`, without an assumption on the switches:
  `LastLoadOfTheDay` says that a load that no other has overtaken is of the day on the screen, and
  `CopiesOfTheDay` that what a load, a save or, unless `crossed`, the text field carries is a
  note of the day it goes to, unless that day is in `misled`.
* `CleanMeansStoredAlways`, `TypedTextIsKeptAlways` from `TextInv`, assuming `Patient`
  (none of the four switches of a hasty user): `SavesOfTheDay`, `AskedFirst` and
  `KnownStored` say that the save under way is of this day, that text under a
  load was given up, and that what the screen believes stored is stored or was deleted.
* `OnlyConfirmedDeletedAlways`, `SuccessMeansAllDeletedAlways` from `LoopInv`: as long as
  the iterator has not noticed a change, the picked days are the confirmed ones. No
  assumption on the switches.
* `WindowTyping`, `PickerOffersItsValueAlways`, `DialogOffersItsValuesAlways`: from
  `WindowInv`. The picker needs `EndsAtZeroFromZero`: without it, a bed hour of 0 would
  leave the list of wake hours and the wake hour apart.
* `BedBeforeNextWakeAlways`, `WakeAfterPreviousBedAlways`, assuming
  `"hurry" \notin Enabled`: the bounds the dialog has read are still those of the days
  beside the selected one when it saves (`BoundsHold`), and the bed hour never passes the upper
  one, raised dialogs included (`BedWithinBound`). The first excepts `RaisedPastBed`: the code resets
  a bed hour that the list does not have to the day's own wake hour
  (`home_screen.dart:379`) and only then raises the wake hour (384), so that a day stored as
  7..31, after one of 9..8 and before one that wakes at 5, is offered as 8..7; saved so, it
  lasts until 7.
* `GoalCountsHoursAlways`, `ExportGoalAgreesAlways`: by the lemmas `GoalOfActiveHours` and
  `SameGoal`, over every window in any encoding; the first counts the hours with the
  cardinality of intervals.
* `AccountTyping`, `DeletionAwaitedAlways`: from the inductive `Base`. `Matched` joins calls and queues:
  a deletion in a queue is the only one of its call, which waits for just that document,
  and a call that waits has one. Refused deletions, sign-outs and restarts keep it.
* `DataGoneFirstAlways`, assuming `"cache" \notin Enabled`: `Found` says of each call and each
  collection it has passed that what is left of the collection is in `since`, what
  was written after the query. An answer without the cache names every document of that
  moment, and `Matched` tells that what the call deletes next is what its answer named.
* `LanguageFollowsSettingsAlways`: inductive beside `Base`. The language the settings will hold is that of
  the last write of the settings in the queue; `HasLast`, kept by every change of a queue,
  says that there is a last one, and `OldestApplied` that sending the oldest write does not
  change the outcome. The set of positions takes the place of an induction over the
  queue. Assumptions of all four: `AccountAssumption`, `NoneAssumption`.
* `VersionsAreOrdered`, `OffersEnd`, `OffersAreNewer` (`UpdateCheck`): the comparison is a strict
  total order; whoever has installed what is offered is offered nothing more,
  unless the document's minimum is above its latest version; an app that is not below
  the minimum is offered only what is newer. These are about pure operators; nothing is run.

`PendingHourIsSelected`, `AnswerAwaited`, `CallsAdvance` and `DeletionAwaited` are proved and
are in no run. Every invariant, action property and refinement of a passing run is
proved. Only model-checked are the liveness properties `EditsResolve`, `ScreenCatchesUp`, `CallsFinish`, `CallsEnd`, `SavesEnd` and
`DeletionsEnd`: they rest on fairness and ENABLED, which are beyond the prover.

## 5. Not modelled, and why

* The clock is constant in `EnergyHome`: midnight while the editor is open, and the
  minute timer. `_now` and `_selectedDate` part at midnight without any step of the user.
* Queries of a range of days, the weekly chart and the stream of shares: reads that
  nothing is computed from and written back. Nothing is claimed of the days the
  calendar tints when the months' answers come in another order; the answers are modelled.
* A deletion in the calendar's loop that fails, which ends the loop as a change of the
  set does; the load error of the memo screen leaves its spinner, which the model keeps.
* Ways to sign in and to prove an identity again: calls of the SDK that end in a user or
  an error. A reply of `user.delete()` that is lost.
* Memos and error logs are in no list of what a deletion deletes, although
  `joongshim_uji_app_documentation.md:76` promises all data ("Firestore 데이터 완전 삭제"). `AccountSession` models
  the collections the code empties and claims nothing of the others.
* `account` has one user. What a synchronisation or a deletion does that is answered when another
  user has signed in is in the module and in the theorems, which are for any set of users, but in no run.
* `user.delete()` is taken to delete the account it was called on, also when another user has signed
  in by then; the code expects that. A language chosen on the login
  screen is overwritten at sign-in by the settings, or by the default when there are
  none; the module has it, and no document says otherwise.
* In `AlarmScheduler` a change of user is one step; the time between signing out and
  signing in, when the service keeps the preferences of `unknown`, is left out.
* In `EnergyHome` the second user after a sign-out is the first one again, and a default
  window that arrives after the first edit is not told apart from one that was there.
* `joongshim_uji_app_documentation.md:356` calls the encoding of a bed hour below the wake hour an old one;
  the settings still write it. The models have both.
* Preferences are taken to reach the disk when they are set.
* The dialog of an update, the permission dialogs of notifications, the file of the
  export, widgets, strings and colours.
* `ios`, `android`, `web` and the pods. The program is 21 Dart files; nearly all of the
  lines below `src` are vendored C, C++ and generated code that is not this
  program's logic. What of it the app's correctness rests on directly, the
  transactions of the Firestore client, is modelled, and the rest (certificates,
  protocol tables, cryptography, transport) has no state that a property of the
  app speaks about.

## 6. Plan

1. The clock in `EnergyHome`: midnight with the editor open.
2. A late application of a failed transaction in `EnergyHome`, as `FirestoreTransaction`
   shows it, and what is left of `LatestEditWins` with it.
3. How often a call can be stored: once more than the connections it lost.
