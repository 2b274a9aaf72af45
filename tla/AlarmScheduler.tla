--------------------------- MODULE AlarmScheduler ---------------------------
(***************************************************************************)
(* The daily reminders: NotificationService (services/                     *)
(* notification_service.dart) as calls of rescheduleAlarms and             *)
(* onAppForegrounded that nobody awaits and nothing keeps apart, their     *)
(* preferences on the device, the alarms the operating system holds, and   *)
(* the three callers: HomeScreen when its settings have loaded, HomeScreen *)
(* when the app comes back to the foreground, and SettingsScreen after     *)
(* every change.  Every await of the code is a step of its own.            *)
(***************************************************************************)
EXTENDS Integers, Sequences, FiniteSets

CONSTANTS
    Users,        \* the accounts used on the device
    Callers,      \* bound: calls under way at one time
    StartHours, EndHours, Intervals,   \* what the user can choose
    Default,      \* the settings of a device without preferences
    MaxSlots,     \* 64 on iOS, 500 on Android
    MaxWrites,    \* bound: changes of settings not yet acknowledged
    Enabled,      \* the environment events switched on
    None, Idle

Settings == [startHour : StartHours, endHour : EndHours,
             intervalMinutes : Intervals, alarmOn : BOOLEAN]

\* The order in which rescheduleAlarms saves them.
Keys == <<"startHour", "endHour", "intervalMinutes", "alarmOn">>

ASSUME AlarmConstants ==
    /\ StartHours \subseteq 0..23 /\ EndHours \subseteq 0..24
    /\ Intervals \subseteq {30, 60}
    /\ Default \in Settings
    /\ MaxSlots \in Nat \ {0} /\ MaxWrites \in Nat
    /\ Enabled \subseteq {"overlap", "offline", "crash", "error", "switch"}
    /\ None \notin Settings

VARIABLES
    user,       \* the user signed in
    chosen,     \* users/<uid>/settings/default, as SettingsScreen shows it
    writes,     \* _updateSetting: changes whose write is not acknowledged
    loading,    \* the users whose settings a HomeScreen waits for
    online,
    cache,      \* alarm_settings_cache_<uid>
    saved,      \* alarm_sh_<uid>, alarm_eh_<uid>, alarm_iv_<uid>, alarm_on_<uid>
    scheduled,  \* the alarms the operating system holds
    calls,      \* the calls under way
    disturbed   \* history: two calls overlapped, one died or failed, or the
                \* user changed, and no whole call has run alone since

\* left: the settings on a SettingsScreen that is gone, None on the one shown.
Write == UNION {[key : {k}, value : {s[k] : s \in Settings}, left : Settings \cup {None}] :
                k \in {Keys[i] : i \in DOMAIN Keys}}

prefs == <<cache, saved>>
alarmVars == <<user, chosen, writes, loading, online, prefs, scheduled, calls, disturbed>>

-----------------------------------------------------------------------------
(* The slots of a day *)

SlotsPerHour(s) == IF s.intervalMinutes = 30 THEN 2 ELSE 1

\* Variant: both loops include the bed hour.
HoursThroughBed(s) ==
    IF s.endHour < s.startHour THEN 25 - s.startHour + s.endHour
                               ELSE s.endHour - s.startHour + 1

\* The hours the two loops run over: up to the bed hour, through midnight when
\* it lies before the wake hour.
HoursAwake(s) ==
    IF s.endHour < s.startHour THEN 24 - s.startHour + s.endHour
                               ELSE s.endHour - s.startHour

\* The bed hour has one more slot unless it is midnight.
SlotsADay(s) == HoursAwake(s) * SlotsPerHour(s) + (IF s.endHour < 24 THEN 1 ELSE 0)

SlotCount(s) == IF SlotsADay(s) > MaxSlots THEN MaxSlots ELSE SlotsADay(s)

\* The minute of the day of slot i.
SlotMinute(s, i) == (60 * s.startHour + (60 \div SlotsPerHour(s)) * (i - 1)) % 1440

Alarm(s, i) == [id |-> i - 1, minute |-> SlotMinute(s, i)]

FirstAlarms(s, n) == {Alarm(s, i) : i \in 1..n}

\* What the operating system should hold.
AlarmsOf(s) == IF s.alarmOn THEN FirstAlarms(s, SlotCount(s)) ELSE {}

-----------------------------------------------------------------------------
(* Calls *)

Steps == {"clear", "forget", "compare", "count", "save", "cancel", "schedule", "log", "report"}

\* user: the account whose preferences the call uses; whole: the call has run
\* alone and nothing in it has failed.
Call == [user : Users, settings : Settings, step : Steps,
         next : 1..(MaxSlots + 4), whole : BOOLEAN]

ASSUME IdleAssumption == Idle \notin Call

Running == {c \in Callers : calls[c] # Idle}

\* welcome: the call is made for the user who is signed in.
Start(c, s, step, welcome) ==
    /\ calls[c] = Idle
    /\ Running # {} => "overlap" \in Enabled
    /\ calls' = [k \in Callers |->
           IF k = c THEN [user |-> user, settings |-> s, step |-> step,
                          next |-> 1, whole |-> Running = {}]
           ELSE IF k \in Running THEN [calls[k] EXCEPT !.whole = FALSE]
           ELSE Idle]
    /\ disturbed' = (disturbed \/ Running # {} \/ ~welcome)

\* Call c, now as in call, goes on with another step.
Continue(c, call, step, next) ==
    /\ calls' = [calls EXCEPT ![c] = [call EXCEPT !.step = step, !.next = next]]
    /\ UNCHANGED disturbed

GoTo(c, step, next) == Continue(c, calls[c], step, next)

Return(c) == calls' = [calls EXCEPT ![c] = Idle]

\* A call that went through all of its steps.
Finish(c) ==
    /\ Return(c)
    /\ disturbed' = (disturbed /\ ~ /\ calls[c].whole
                                    /\ calls[c].user = user
                                    /\ calls[c].settings = chosen[user])

At(c, step) == calls[c] # Idle /\ calls[c].step = step

-----------------------------------------------------------------------------
(* onAppForegrounded *)

AppResumed(c) ==
    /\ Start(c, saved[user], "clear", TRUE)
    /\ UNCHANGED <<user, chosen, writes, loading, online, prefs, scheduled>>

\* The preferences are read after an await, and all alarms are cancelled.
ClearAll(c) ==
    /\ At(c, "clear")
    /\ scheduled' = {}
    /\ Continue(c, [calls[c] EXCEPT !.settings = saved[calls[c].user]], "forget", 1)
    /\ UNCHANGED <<user, chosen, writes, loading, online, prefs>>

ForgetCache(c) ==
    /\ At(c, "forget")
    /\ cache' = [cache EXCEPT ![calls[c].user] = None]
    /\ GoTo(c, "compare", 1)
    /\ UNCHANGED <<user, chosen, writes, loading, online, saved, scheduled>>

-----------------------------------------------------------------------------
(* rescheduleAlarms *)

\* rescheduleAlarms asks for the user again, also when onAppForegrounded calls it.
ForUser(c) == [calls[c] EXCEPT !.user = user]

Remember(c, call) ==
    /\ cache' = [cache EXCEPT ![call.user] = call.settings]
    /\ Continue(c, call, "save", 1)

Compare(c) ==
    /\ At(c, "compare")
    /\ \/ /\ cache[user] = calls[c].settings
          /\ Continue(c, ForUser(c), "count", 1)
          /\ UNCHANGED cache
       \/ cache[user] # calls[c].settings /\ Remember(c, ForUser(c))
    /\ UNCHANGED <<user, chosen, writes, loading, online, saved, scheduled>>

\* The same settings as last time and some alarm: nothing is done.
Skips(c) ==
    /\ At(c, "count") /\ scheduled # {}
    /\ Return(c)
    /\ UNCHANGED <<user, chosen, writes, loading, online, prefs, scheduled, disturbed>>

NonePending(c) ==
    /\ At(c, "count") /\ scheduled = {}
    /\ Remember(c, calls[c])
    /\ UNCHANGED <<user, chosen, writes, loading, online, saved, scheduled>>

\* Variant: the last preference is not saved.
SaveAllButOne(c) ==
    /\ At(c, "save")
    /\ LET i == calls[c].next  u == calls[c].user
       IN  IF i < Len(Keys)
           THEN /\ saved' = [saved EXCEPT ![u][Keys[i]] = calls[c].settings[Keys[i]]]
                /\ GoTo(c, "save", i + 1)
           ELSE GoTo(c, "cancel", 1) /\ UNCHANGED saved
    /\ UNCHANGED <<user, chosen, writes, loading, online, cache, scheduled>>

SavePreference(c) ==
    /\ At(c, "save")
    /\ LET i == calls[c].next  u == calls[c].user
       IN  /\ saved' = [saved EXCEPT ![u][Keys[i]] = calls[c].settings[Keys[i]]]
           /\ IF i < Len(Keys) THEN GoTo(c, "save", i + 1) ELSE GoTo(c, "cancel", 1)
    /\ UNCHANGED <<user, chosen, writes, loading, online, cache, scheduled>>

\* Variant: switching the alarms off leaves those that are scheduled.
CancelWhenOn(c) ==
    /\ At(c, "cancel")
    /\ scheduled' = IF calls[c].settings.alarmOn THEN {} ELSE scheduled
    /\ IF calls[c].settings.alarmOn THEN GoTo(c, "schedule", 1) ELSE Finish(c)
    /\ UNCHANGED <<user, chosen, writes, loading, online, prefs>>

CancelAll(c) ==
    /\ At(c, "cancel")
    /\ scheduled' = {}
    /\ IF calls[c].settings.alarmOn THEN GoTo(c, "schedule", 1) ELSE Finish(c)
    /\ UNCHANGED <<user, chosen, writes, loading, online, prefs>>

\* zonedSchedule replaces the alarm of the same id.
ScheduleSlot(c) ==
    /\ At(c, "schedule")
    /\ LET alarm == Alarm(calls[c].settings, calls[c].next)
       IN  scheduled' = {a \in scheduled : a.id # alarm.id} \cup {alarm}
    /\ GoTo(c, "log", calls[c].next)
    /\ UNCHANGED <<user, chosen, writes, loading, online, prefs>>

\* zonedSchedule throws; the error is logged and the loop goes on.
ScheduleFails(c) ==
    /\ At(c, "schedule") /\ "error" \in Enabled
    /\ calls' = [calls EXCEPT ![c].step = "log", ![c].whole = FALSE]
    /\ disturbed' = TRUE
    /\ UNCHANGED <<user, chosen, writes, loading, online, prefs, scheduled>>

\* Variant: one slot more than there are.
LogOneMore(c) ==
    /\ At(c, "log") /\ online
    /\ IF calls[c].next <= SlotCount(calls[c].settings)
       THEN GoTo(c, "schedule", calls[c].next + 1) ELSE GoTo(c, "report", 1)
    /\ UNCHANGED <<user, chosen, writes, loading, online, prefs, scheduled>>

\* Variant: the loop does not advance.
LogStandingStill(c) ==
    /\ At(c, "log") /\ online
    /\ IF calls[c].next < SlotCount(calls[c].settings)
       THEN GoTo(c, "schedule", calls[c].next) ELSE GoTo(c, "report", 1)
    /\ UNCHANGED <<user, chosen, writes, loading, online, prefs, scheduled>>

\* The loop awaits the log of each alarm, and Firestore completes an addition
\* when the server has it.
LogAcknowledged(c) ==
    /\ At(c, "log") /\ online
    /\ IF calls[c].next < SlotCount(calls[c].settings)
       THEN GoTo(c, "schedule", calls[c].next + 1) ELSE GoTo(c, "report", 1)
    /\ UNCHANGED <<user, chosen, writes, loading, online, prefs, scheduled>>

\* The last log entry counts the alarms.
ReportAcknowledged(c) ==
    /\ At(c, "report") /\ online
    /\ Finish(c)
    /\ UNCHANGED <<user, chosen, writes, loading, online, prefs, scheduled>>

-----------------------------------------------------------------------------
(* The callers *)

\* HomeScreen._loadDefaultSettings goes on after its await, also when its screen
\* is gone.
HomeLoaded(c, u) ==
    /\ u \in loading /\ loading' = loading \ {u}
    /\ Start(c, chosen[u], "compare", u = user)
    /\ UNCHANGED <<user, chosen, writes, online, prefs, scheduled>>

\* A day of the calendar is tapped: HomeScreen is built again.
HomeRebuilt ==
    /\ user \notin loading /\ loading' = loading \cup {user}
    /\ UNCHANGED <<user, chosen, writes, online, prefs, scheduled, calls, disturbed>>

\* SettingsScreen: the choice is shown and its write is called.
Choose(key, value) ==
    /\ Len(writes) < MaxWrites
    /\ chosen[user][key] # value
    /\ chosen' = [chosen EXCEPT ![user][key] = value]
    /\ writes' = Append(writes, [key |-> key, value |-> value, left |-> None])
    /\ UNCHANGED <<user, loading, online, prefs, scheduled, calls, disturbed>>

\* _updateSetting goes on after its await, with the value it was called with
\* and the other fields as they are now on its screen.
WriteAcknowledged(c) ==
    /\ online /\ writes # << >>
    /\ writes' = Tail(writes)
    /\ LET w == Head(writes)
           fields == IF w.left = None THEN chosen[user] ELSE w.left
       IN  Start(c, [fields EXCEPT ![w.key] = w.value], "compare", w.left = None)
    /\ UNCHANGED <<user, chosen, loading, online, prefs, scheduled>>

-----------------------------------------------------------------------------
(* The environment *)

Connectivity ==
    /\ "offline" \in Enabled
    /\ online' = ~online
    /\ UNCHANGED <<user, chosen, writes, loading, prefs, scheduled, calls, disturbed>>

\* The process ends and starts again.  A forced stop, or an update of the app,
\* takes the alarms too.
Restart ==
    /\ "crash" \in Enabled
    /\ scheduled' \in {scheduled, {}}
    /\ writes' = << >>
    /\ loading' = {user}
    /\ calls' = [c \in Callers |-> Idle]
    /\ disturbed' = (disturbed \/ Running # {})
    /\ UNCHANGED <<user, chosen, online, prefs>>

Leave(w) == IF w.left = None THEN [w EXCEPT !.left = chosen[user]] ELSE w

\* One user signs out and another signs in: the screens are new; the alarms,
\* the calls under way stay, and what the old screens await may come or not.
SwitchUser(u) ==
    /\ "switch" \in Enabled /\ u # user
    /\ user' = u
    /\ \/ writes' = [i \in DOMAIN writes |-> Leave(writes[i])]
       \/ writes' = << >>
    /\ loading' \in {{u}, loading \cup {u}}
    /\ disturbed' = TRUE
    /\ calls' = [c \in Callers |-> IF c \in Running
                                   THEN [calls[c] EXCEPT !.whole = FALSE] ELSE Idle]
    /\ UNCHANGED <<chosen, online, prefs, scheduled>>

-----------------------------------------------------------------------------
AlarmInit ==
    /\ user \in Users
    /\ chosen \in [Users -> Settings]
    /\ writes = << >>
    /\ loading = {user} /\ online = TRUE
    /\ cache = [u \in Users |-> None]
    /\ saved = [u \in Users |-> Default]
    /\ scheduled = {}
    /\ calls = [c \in Callers |-> Idle]
    /\ disturbed = FALSE

Proceed(c) ==
    \/ ClearAll(c) \/ ForgetCache(c) \/ Compare(c) \/ Skips(c) \/ NonePending(c)
    \/ SavePreference(c) \/ CancelAll(c)
    \/ ScheduleSlot(c) \/ ScheduleFails(c) \/ LogAcknowledged(c)
    \/ ReportAcknowledged(c)

AlarmNext ==
    \/ \E c \in Callers :
        \/ Proceed(c) \/ AppResumed(c) \/ WriteAcknowledged(c)
        \/ \E u \in Users : HomeLoaded(c, u)
    \/ HomeRebuilt \/ Connectivity \/ Restart
    \/ \E u \in Users : SwitchUser(u)
    \/ \E s \in Settings, key \in {"startHour", "endHour", "intervalMinutes", "alarmOn"} :
           Choose(key, s[key])

AlarmSpec == AlarmInit /\ [][AlarmNext]_alarmVars

\* Each call goes on when what it awaits has come.
AlarmFairSpec == AlarmSpec /\ \A c \in Callers : WF_alarmVars(Proceed(c))

-----------------------------------------------------------------------------
(* Properties *)

Day == INSTANCE ActiveHours

\* Every variable holds a value of its type, and every alarm the system holds
\* is a slot of settings that can be chosen.
AlarmTypeOK ==
    /\ user \in Users
    /\ chosen \in [Users -> Settings] /\ saved \in [Users -> Settings]
    /\ writes \in Seq(Write) /\ Len(writes) <= MaxWrites
    /\ loading \subseteq Users /\ online \in BOOLEAN
    /\ cache \in [Users -> Settings \cup {None}]
    /\ scheduled \subseteq UNION {AlarmsOf(s) : s \in Settings}
    /\ calls \in [Callers -> Call \cup {Idle}]
    /\ disturbed \in BOOLEAN

\* Nothing is under way that will schedule alarms.
AtRest == Running = {} /\ writes = << >> /\ loading = {}

\* At rest the alarms are those of the settings of the user who is signed in.
\* A call that runs alone from start to end repairs what overlaps, failures,
\* restarts and changes of user left behind, and a call that is skipped had
\* nothing to do.
AlarmsFollowSettings == AtRest /\ ~disturbed => scheduled = AlarmsOf(chosen[user])

\* At rest the preferences onAppForegrounded will read are the user's
\* settings: coming back to the app does not bring old alarms back.
PreferencesFollowSettings == AtRest /\ ~disturbed => saved[user] = chosen[user]

\* The window of the settings, as the service of the energy minutes reads it.
Awake(s) == [startHour |-> s.startHour, endHour |-> s.endHour]

\* The hours in which alarms are due.
HoursDue(s) ==
    {h \in 0..23 : s.alarmOn /\ (Day!IsActive(h, Awake(s)) \/ h = s.endHour)}

\* Then an alarm rings in every active hour of the user's window and at the bed
\* hour, and in no other, nor when the user switched them off:
\* NotificationService and EnergyService, which decode wake and bed hour each on
\* its own, agree about the night.
AlarmsRingAwake ==
    AtRest /\ ~disturbed => {a.minute \div 60 : a \in scheduled} = HoursDue(chosen[user])

\* Once the device stays online every call comes to its end.
CallsFinish ==
    <>[]online => \A c \in Callers : calls[c] # Idle ~> calls[c] = Idle
=============================================================================
