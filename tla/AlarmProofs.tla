---------------------------- MODULE AlarmProofs ----------------------------
(***************************************************************************)
(* Proofs about AlarmScheduler: the slots of a day, the types, that the    *)
(* alarms and the preferences follow the settings, and that the alarms     *)
(* ring in the active hours.                                               *)
(***************************************************************************)
EXTENDS AlarmScheduler, TLAPS

-----------------------------------------------------------------------------
(* The inductive invariant *)

\* Where a call is in its loops.
StepOK(call) ==
    /\ call.step = "save" => call.next \in 1..4
    /\ call.step \in {"schedule", "log"} =>
           call.settings.alarmOn /\ call.next \in 1..SlotCount(call.settings)
    /\ call.step = "report" => call.settings.alarmOn

StepsOK == \A c \in Callers : c \in Running => StepOK(calls[c])

\* The last change of the settings shown is the value shown.
LastWriteOK ==
    writes # << >> =>
        LET w == writes[Len(writes)] IN w.left = None => chosen[user][w.key] = w.value

\* What a call that has run alone has done so far.
Saved(call, n) == \A i \in 1..n : saved[user][Keys[i]] = call.settings[Keys[i]]

Done(call) ==
    /\ call.step \in {"count", "save", "cancel", "schedule", "log", "report"} =>
           cache[user] = call.settings
    /\ call.step = "forget" => scheduled = {}
    /\ call.step = "save" => Saved(call, call.next - 1)
    /\ call.step \in {"cancel", "schedule", "log", "report"} => saved[user] = call.settings
    /\ call.step = "schedule" => scheduled = FirstAlarms(call.settings, call.next - 1)
    /\ call.step = "log" => scheduled = FirstAlarms(call.settings, call.next)
    /\ call.step = "report" => scheduled = AlarmsOf(call.settings)

WholeOK == \A c \in Callers : c \in Running /\ calls[c].whole =>
               Running = {c} /\ calls[c].user = user /\ Done(calls[c])

\* The cache says what was done for the user.
CacheTold ==
    cache[user] # None =>
        /\ saved[user] = cache[user]
        /\ scheduled # {} => scheduled = AlarmsOf(cache[user])

Quiet == writes = << >> /\ loading = {}

NothingDone(c) == calls[c].step \in {"clear", "forget", "compare", "count"}

Undisturbed ==
    ~disturbed =>
        /\ \A c \in Callers : c \in Running => calls[c].whole
        /\ (\A c \in Callers : c \in Running => NothingDone(c)) => CacheTold
        /\ Quiet => \A c \in Callers : c \in Running =>
               /\ calls[c].settings = chosen[user]
               /\ calls[c].step = "clear" => saved[user] = chosen[user]
        /\ Quiet /\ Running = {} =>
               saved[user] = chosen[user] /\ scheduled = AlarmsOf(chosen[user])

AlarmInv == AlarmTypeOK /\ StepsOK /\ LastWriteOK /\ WholeOK /\ Undisturbed
-----------------------------------------------------------------------------
(* The slots of a day *)

\* rescheduleAlarms makes at least one slot and at most 48: the limit of 64
\* alarms on iOS never cuts a day short.
THEOREM SlotsFit ==
    ASSUME NEW s \in Settings
    PROVE  SlotsADay(s) \in 1..48
<1>1. s.startHour \in 0..23 /\ s.endHour \in 0..24
  BY AlarmConstants DEF Settings
<1>2. HoursAwake(s) \in 0..24 /\ (s.endHour < 24 => HoursAwake(s) \in 0..23)
  BY <1>1 DEF HoursAwake
<1>3. s.endHour = 24 => HoursAwake(s) \in 1..24
  BY <1>1 DEF HoursAwake
<1>4. SlotsPerHour(s) \in {1, 2}
  BY DEF SlotsPerHour
<1> DEFINE h == HoursAwake(s)
           p == SlotsPerHour(s)
<1>5. h \in 0..24 /\ p \in {1, 2} /\ (s.endHour < 24 => h \in 0..23) /\ (s.endHour = 24 => h \in 1..24)
  BY <1>2, <1>3, <1>4
<1>6. SlotsADay(s) = h * p + (IF s.endHour < 24 THEN 1 ELSE 0)
  BY DEF SlotsADay
<1> HIDE DEF h, p
<1>7. h * p = IF p = 1 THEN h ELSE h + h
  BY <1>5
<1> QED
  BY <1>1, <1>5, <1>6, <1>7

\* Each day has a slot, and the counted slots are the first ones.
LEMMA SlotCountType ==
    ASSUME NEW s \in Settings
    PROVE  SlotCount(s) \in 1..MaxSlots /\ SlotCount(s) <= 48
BY SlotsFit, AlarmConstants DEF SlotCount

LEMMA Remainder ==
    ASSUME NEW n \in Int
    PROVE  /\ n % 1440 \in 0..1439 /\ n \div 1440 \in Int
           /\ n = 1440 * (n \div 1440) + (n % 1440)
BY SMT

\* Times less than a day apart are different times of the day.
LEMMA MinutesDiffer ==
    ASSUME NEW a \in Int, NEW b \in Int, a < b, b < a + 1440
    PROVE  a % 1440 # b % 1440
BY Remainder, SMT

LEMMA TimesOfSlots ==
    ASSUME NEW h \in 0..23, NEW i \in 1..48, NEW j \in 1..48, i < j, NEW k \in {30, 60},
           k = 60 => j <= 24
    PROVE  LET a == 60 * h + k * (i - 1)  b == 60 * h + k * (j - 1)
           IN  a \in Int /\ b \in Int /\ a < b /\ b < a + 1440
<1>1. CASE k = 30
  BY <1>1
<1>2. CASE k = 60
  BY <1>2
<1> QED
  BY <1>1, <1>2

\* No two alarms of a day ring in the same minute.
THEOREM SlotsDiffer ==
    ASSUME NEW s \in Settings, NEW i \in 1..SlotCount(s), NEW j \in 1..SlotCount(s), i < j
    PROVE  SlotMinute(s, i) # SlotMinute(s, j)
<1>1. s.startHour \in 0..23 /\ s.endHour \in 0..24
  BY AlarmConstants DEF Settings
<1>2. SlotsADay(s) \in 1..48 /\ i \in 1..48 /\ j \in 1..48 /\ j <= SlotsADay(s)
  BY SlotsFit, AlarmConstants DEF SlotCount
<1> DEFINE k == 60 \div SlotsPerHour(s)
           a == 60 * s.startHour + k * (i - 1)
           b == 60 * s.startHour + k * (j - 1)
<1>3. k = IF s.intervalMinutes = 30 THEN 30 ELSE 60
  BY DEF SlotsPerHour
<1>4. k = 60 => j <= 24
  <2> SUFFICES ASSUME s.intervalMinutes # 30
               PROVE  j <= 24
    BY <1>3
  <2>1. SlotsADay(s) = HoursAwake(s) + (IF s.endHour < 24 THEN 1 ELSE 0)
    BY <1>1 DEF SlotsADay, SlotsPerHour, HoursAwake
  <2> QED
    BY <1>1, <1>2, <2>1 DEF HoursAwake
<1>5. a \in Int /\ b \in Int /\ a < b /\ b < a + 1440
  <2> HIDE DEF k
  <2> QED
    BY <1>1, <1>2, <1>3, <1>4, TimesOfSlots
<1>6. a % 1440 # b % 1440
  <2> HIDE DEF a, b
  <2> QED
    BY <1>5, MinutesDiffer
<1> QED
  BY <1>6 DEF SlotMinute

\* The hours the two loops of rescheduleAlarms run over, and the minutes of the
\* day they add: one or two of each hour, and the bed hour unless it is midnight.
LoopHours(s) ==
    IF s.endHour < s.startHour THEN (s.startHour..23) \cup (0..(s.endHour - 1))
                               ELSE s.startHour..(s.endHour - 1)

Offsets(s) == IF s.intervalMinutes = 30 THEN {0, 30} ELSE {0}

LoopMinutes(s) ==
    {60 * h + m : h \in LoopHours(s), m \in Offsets(s)}
    \cup (IF s.endHour < 24 THEN {60 * s.endHour} ELSE {})

\* The hour that comes j hours after the wake hour.
HourAfter(s, j) == IF s.startHour + j < 24 THEN s.startHour + j ELSE s.startHour + j - 24

\* The number of the slot m minutes into that hour.
SlotAt(s, j, m) == j * SlotsPerHour(s) + (IF m = 30 THEN 2 ELSE 1)

\* A minute of today or tomorrow, as a minute of the day.
LEMMA WithinTwoDays ==
    ASSUME NEW q \in Int, NEW r \in Int, r >= 0, r < 1440,
           1440 * q + r >= 0, 1440 * q + r < 2880
    PROVE  q = (IF 1440 * q + r < 1440 THEN 0 ELSE 1)
<1>1. q >= 0 /\ q < 2
  BY SMT
<1>2. q = 0 \/ q = 1
  BY <1>1
<1> QED
  BY <1>2

LEMMA HoursWrap ==
    ASSUME NEW h \in 0..47, NEW m \in {0, 30}
    PROVE  (60 * h + m) % 1440 = IF h < 24 THEN 60 * h + m ELSE 60 * (h - 24) + m
<1> DEFINE n == 60 * h + m
           q == n \div 1440
           r == n % 1440
<1>1. n \in Int /\ n >= 0 /\ n < 2880 /\ (n < 1440 <=> h < 24) /\ n - 1440 = 60 * (h - 24) + m
  OBVIOUS
<1>2. q \in Int /\ r \in Int /\ r >= 0 /\ r < 1440 /\ n = 1440 * q + r
  BY <1>1, Remainder
<1> HIDE DEF n, q, r
<1>3. q = IF n < 1440 THEN 0 ELSE 1
  BY <1>1, <1>2, WithinTwoDays
<1>4. r = IF n < 1440 THEN n ELSE n - 1440
  BY <1>1, <1>2, <1>3
<1> QED
  BY <1>1, <1>4 DEF n, r

\* A slot's minute, from its hour.
LEMMA SlotAtMinute ==
    ASSUME NEW s \in Settings, NEW j \in 0..24, NEW m \in Offsets(s)
    PROVE  SlotMinute(s, SlotAt(s, j, m)) = 60 * HourAfter(s, j) + m
<1>1. s.startHour \in 0..23 /\ m \in {0, 30} /\ s.startHour + j \in 0..47
  <2>1. s.startHour \in 0..23
    BY AlarmConstants DEF Settings
  <2>2. m \in {0, 30}
    BY DEF Offsets
  <2> QED
    BY <2>1, <2>2
<1>2. (60 \div SlotsPerHour(s)) * (SlotAt(s, j, m) - 1) = 60 * j + m
  <2>1. CASE s.intervalMinutes = 30
    <3>1. SlotsPerHour(s) = 2 /\ 60 \div 2 = 30
      BY <2>1 DEF SlotsPerHour
    <3>2. SlotAt(s, j, m) - 1 = 2 * j + (IF m = 30 THEN 1 ELSE 0)
      BY <3>1 DEF SlotAt
    <3> QED
      BY <1>1, <3>1, <3>2
  <2>2. CASE s.intervalMinutes # 30
    <3>1. SlotsPerHour(s) = 1 /\ 60 \div 1 = 60 /\ m = 0
      BY <2>2 DEF SlotsPerHour, Offsets
    <3>2. SlotAt(s, j, m) - 1 = j
      BY <3>1 DEF SlotAt
    <3> QED
      BY <3>1, <3>2
  <2> QED
    BY <2>1, <2>2
<1>3. 60 * s.startHour + (60 * j + m) = 60 * (s.startHour + j) + m
  BY <1>1
<1>4. (60 * (s.startHour + j) + m) % 1440 = 60 * HourAfter(s, j) + m
  BY <1>1, HoursWrap DEF HourAfter
<1> QED
  BY <1>2, <1>3, <1>4 DEF SlotMinute

LEMMA HoursInRange ==
    ASSUME NEW s \in Settings
    PROVE  s.startHour \in 0..23 /\ s.endHour \in 0..24
BY AlarmConstants DEF Settings

LEMMA HoursCounted ==
    ASSUME NEW s \in Settings
    PROVE  HoursAwake(s) \in 0..24 /\ (s.endHour < 24 => HoursAwake(s) < 24)
<1> DEFINE a == s.startHour
           b == s.endHour
<1>1. a \in 0..23 /\ b \in 0..24
  BY HoursInRange
<1>2. HoursAwake(s) = IF b < a THEN 24 - a + b ELSE b - a
  BY DEF HoursAwake
<1> HIDE DEF a, b
<1>3. HoursAwake(s) \in 0..24 /\ (b < 24 => HoursAwake(s) < 24)
  BY <1>1, <1>2
<1> QED
  BY <1>3 DEF b

\* Every slot is that of an hour, and every hour has its slots.
LEMMA SlotsAreHours ==
    ASSUME NEW s \in Settings
    PROVE  /\ \A i \in 1..SlotsADay(s) :
                  \E j \in 0..24, m \in Offsets(s) :
                      /\ i = SlotAt(s, j, m)
                      /\ j < HoursAwake(s) \/ (j = HoursAwake(s) /\ m = 0 /\ s.endHour < 24)
           /\ \A j \in 0..24, m \in Offsets(s) :
                  j < HoursAwake(s) \/ (j = HoursAwake(s) /\ m = 0 /\ s.endHour < 24)
                  => SlotAt(s, j, m) \in 1..SlotsADay(s)
<1> DEFINE n == HoursAwake(s)
<1>1. s.startHour \in 0..23 /\ s.endHour \in 0..24 /\ n \in 0..24 /\ (s.endHour < 24 => n < 24)
  BY HoursInRange, HoursCounted
<1> HIDE DEF n
<1>2. CASE s.intervalMinutes = 30
  <2>1. /\ SlotsADay(s) = 2 * n + (IF s.endHour < 24 THEN 1 ELSE 0)
        /\ Offsets(s) = {0, 30}
        /\ \A j \in 0..24 : SlotAt(s, j, 0) = 2 * j + 1 /\ SlotAt(s, j, 30) = 2 * j + 2
    BY <1>1, <1>2 DEF SlotsADay, SlotsPerHour, Offsets, SlotAt, n
  <2>2. ASSUME NEW i \in 1..SlotsADay(s)
        PROVE  \E j \in 0..24, m \in Offsets(s) :
                   /\ i = SlotAt(s, j, m)
                   /\ j < n \/ (j = n /\ m = 0 /\ s.endHour < 24)
    <3>1. PICK j \in 0..24 : i = 2 * j + 1 \/ i = 2 * j + 2
      <4>1. (i - 1) \div 2 \in 0..24 /\ i - 1 \in {2 * ((i - 1) \div 2), 2 * ((i - 1) \div 2) + 1}
        BY <1>1, <2>1
      <4> QED
        BY <4>1
    <3>2. CASE i = 2 * j + 1
      <4>1. i = SlotAt(s, j, 0) /\ (j < n \/ (j = n /\ s.endHour < 24))
        BY <1>1, <2>1, <3>2
      <4> QED
        BY <2>1, <4>1
    <3>3. CASE i = 2 * j + 2
      <4>1. i = SlotAt(s, j, 30) /\ j < n
        BY <1>1, <2>1, <3>3
      <4> QED
        BY <2>1, <4>1
    <3> QED
      BY <3>1, <3>2, <3>3
  <2>3. ASSUME NEW j \in 0..24, NEW m \in Offsets(s),
               j < n \/ (j = n /\ m = 0 /\ s.endHour < 24)
        PROVE  SlotAt(s, j, m) \in 1..SlotsADay(s)
    BY <1>1, <2>1, <2>3
  <2> QED
    BY <2>2, <2>3 DEF n
<1>3. CASE s.intervalMinutes # 30
  <2>1. /\ SlotsADay(s) = n + (IF s.endHour < 24 THEN 1 ELSE 0)
        /\ Offsets(s) = {0}
        /\ \A j \in 0..24 : SlotAt(s, j, 0) = j + 1
    BY <1>1, <1>3 DEF SlotsADay, SlotsPerHour, Offsets, SlotAt, n
  <2>2. ASSUME NEW i \in 1..SlotsADay(s)
        PROVE  /\ i - 1 \in 0..24 /\ i = SlotAt(s, i - 1, 0)
               /\ i - 1 < n \/ (i - 1 = n /\ s.endHour < 24)
    <3>1. i - 1 \in 0..24 /\ (i - 1 < n \/ (i - 1 = n /\ s.endHour < 24))
      BY <1>1, <2>1
    <3> QED
      BY <2>1, <3>1
  <2>3. ASSUME NEW j \in 0..24, NEW m \in Offsets(s),
               j < n \/ (j = n /\ m = 0 /\ s.endHour < 24)
        PROVE  SlotAt(s, j, m) \in 1..SlotsADay(s)
    BY <1>1, <2>1, <2>3
  <2> QED
    BY <2>1, <2>2, <2>3 DEF n
<1> QED
  BY <1>2, <1>3

\* The hours after the wake hour, counted, are those of the loops.
LEMMA HoursOfLoops ==
    ASSUME NEW s \in Settings
    PROVE  /\ \A j \in 0..24 : j < HoursAwake(s) => HourAfter(s, j) \in LoopHours(s)
           /\ \A h \in LoopHours(s) : \E j \in 0..24 : j < HoursAwake(s) /\ h = HourAfter(s, j)
           /\ HoursAwake(s) \in 0..24
           /\ s.endHour < 24 => HourAfter(s, HoursAwake(s)) = s.endHour
<1> DEFINE a == s.startHour
           b == s.endHour
           n == HoursAwake(s)
           hours == LoopHours(s)
<1>1. a \in 0..23 /\ b \in 0..24
  BY HoursInRange
<1>2. /\ n = IF b < a THEN 24 - a + b ELSE b - a
      /\ hours = IF b < a THEN (a..23) \cup (0..(b - 1)) ELSE a..(b - 1)
      /\ \A j \in 0..24 : HourAfter(s, j) = IF a + j < 24 THEN a + j ELSE a + j - 24
  BY DEF HoursAwake, LoopHours, HourAfter
<1> HIDE DEF a, b, n, hours
<1>3. CASE b < a
  <2>1. n = 24 - a + b /\ hours = (a..23) \cup (0..(b - 1))
    BY <1>2, <1>3
  <2>2. ASSUME NEW j \in 0..24, j < n
        PROVE  HourAfter(s, j) \in hours
    <3>1. HourAfter(s, j) = IF a + j < 24 THEN a + j ELSE a + j - 24
      BY <1>2
    <3>2. CASE a + j < 24
      <4>1. a + j \in a..23
        BY <1>1, <3>2
      <4> QED
        BY <2>1, <3>1, <3>2, <4>1
    <3>3. CASE ~(a + j < 24)
      <4>1. a + j - 24 \in 0..(b - 1)
        BY <1>1, <1>3, <2>1, <2>2, <3>3
      <4> QED
        BY <2>1, <3>1, <3>3, <4>1
    <3> QED
      BY <3>2, <3>3
  <2>3. ASSUME NEW h \in hours
        PROVE  \E j \in 0..24 : j < n /\ h = HourAfter(s, j)
    <3>1. CASE h \in a..23
      <4>1. h - a \in 0..24 /\ h - a < n /\ a + (h - a) < 24 /\ a + (h - a) = h
        BY <1>1, <1>3, <2>1, <3>1
      <4> QED
        BY <1>2, <4>1
    <3>2. CASE h \in 0..(b - 1)
      <4>1. /\ h + 24 - a \in 0..24 /\ h + 24 - a < n
            /\ ~(a + (h + 24 - a) < 24) /\ a + (h + 24 - a) - 24 = h
        BY <1>1, <1>3, <2>1, <3>2
      <4> QED
        BY <1>2, <4>1
    <3> QED
      BY <2>1, <3>1, <3>2
  <2>4. n \in 0..24 /\ (b < 24 => HourAfter(s, n) = b)
    <3>1. n \in 0..24 /\ ~(a + n < 24) /\ a + n - 24 = b
      BY <1>1, <1>3, <2>1
    <3> QED
      BY <1>2, <3>1
  <2> QED
    BY <2>2, <2>3, <2>4 DEF b, n, hours
<1>4. CASE ~(b < a)
  <2>1. n = b - a /\ hours = a..(b - 1)
    BY <1>2, <1>4
  <2>2. ASSUME NEW j \in 0..24, j < n
        PROVE  HourAfter(s, j) \in hours
    <3>1. a + j \in a..(b - 1) /\ a + j < 24
      BY <1>1, <1>4, <2>1, <2>2
    <3> QED
      BY <1>2, <2>1, <3>1
  <2>3. ASSUME NEW h \in hours
        PROVE  \E j \in 0..24 : j < n /\ h = HourAfter(s, j)
    <3>1. h - a \in 0..24 /\ h - a < n /\ a + (h - a) < 24 /\ a + (h - a) = h
      BY <1>1, <2>1
    <3> QED
      BY <1>2, <3>1
  <2>4. n \in 0..24 /\ (b < 24 => HourAfter(s, n) = b)
    <3>1. n \in 0..24 /\ a + n = b
      BY <1>1, <1>4, <2>1
    <3> QED
      BY <1>2, <3>1
  <2> QED
    BY <2>2, <2>3, <2>4 DEF b, n, hours
<1> QED
  BY <1>3, <1>4

\* The slots computed by their number are those the two loops of
\* rescheduleAlarms add one after the other.
THEOREM SlotsOfLoops ==
    ASSUME NEW s \in Settings
    PROVE  {SlotMinute(s, i) : i \in 1..SlotsADay(s)} = LoopMinutes(s)
<1>1. s.startHour \in 0..23 /\ s.endHour \in 0..24 /\ 0 \in Offsets(s)
  BY AlarmConstants DEF Settings, Offsets
<1>2. ASSUME NEW i \in 1..SlotsADay(s)
      PROVE  SlotMinute(s, i) \in LoopMinutes(s)
  <2>1. PICK j \in 0..24, m \in Offsets(s) :
            /\ i = SlotAt(s, j, m)
            /\ j < HoursAwake(s) \/ (j = HoursAwake(s) /\ m = 0 /\ s.endHour < 24)
    BY SlotsAreHours
  <2>2. SlotMinute(s, i) = 60 * HourAfter(s, j) + m
    BY <2>1, SlotAtMinute
  <2>3. CASE j < HoursAwake(s)
    BY <2>2, <2>3, HoursOfLoops DEF LoopMinutes
  <2>4. CASE j = HoursAwake(s) /\ m = 0 /\ s.endHour < 24
    <3>1. SlotMinute(s, i) = 60 * s.endHour
      BY <1>1, <2>2, <2>4, HoursOfLoops
    <3> QED
      BY <2>4, <3>1 DEF LoopMinutes
  <2> QED
    BY <2>1, <2>3, <2>4
<1>3. ASSUME NEW t \in LoopMinutes(s)
      PROVE  \E i \in 1..SlotsADay(s) : t = SlotMinute(s, i)
  <2>1. CASE \E h \in LoopHours(s), m \in Offsets(s) : t = 60 * h + m
    <3>1. PICK h \in LoopHours(s), m \in Offsets(s) : t = 60 * h + m
      BY <2>1
    <3>2. PICK j \in 0..24 : j < HoursAwake(s) /\ h = HourAfter(s, j)
      BY HoursOfLoops
    <3>3. SlotAt(s, j, m) \in 1..SlotsADay(s)
      BY <3>2, SlotsAreHours
    <3> QED
      BY <3>1, <3>2, <3>3, SlotAtMinute
  <2>2. CASE s.endHour < 24 /\ t = 60 * s.endHour
    <3>1. SlotAt(s, HoursAwake(s), 0) \in 1..SlotsADay(s)
      BY <1>1, <2>2, HoursOfLoops, SlotsAreHours
    <3>2. SlotMinute(s, SlotAt(s, HoursAwake(s), 0)) = 60 * s.endHour + 0
      BY <1>1, <2>2, HoursOfLoops, SlotAtMinute
    <3> QED
      BY <1>1, <2>2, <3>1, <3>2
  <2> QED
    BY <2>1, <2>2 DEF LoopMinutes
<1> QED
  BY <1>2, <1>3

\* The loops run over the active hours of the window, and over the bed hour.
LEMMA LoopsAreAwake ==
    ASSUME NEW s \in Settings
    PROVE  {t \div 60 : t \in LoopMinutes(s)} =
               {h \in 0..23 : Day!IsActive(h, Awake(s)) \/ h = s.endHour}
<1>1. s.startHour \in 0..23 /\ s.endHour \in 0..24 /\ 0 \in Offsets(s)
  BY AlarmConstants DEF Settings, Offsets
<1>2. \A h \in 0..23, m \in Offsets(s) : 60 * h + m \in Int /\ (60 * h + m) \div 60 = h
  BY DEF Offsets
<1>3. \A h \in 0..23 : Day!IsActive(h, Awake(s)) \/ h = s.endHour
                       <=> h \in LoopHours(s) \/ (s.endHour < 24 /\ h = s.endHour)
  BY <1>1 DEF Day!IsActive, Day!IsOvernight, Day!ActualEnd, Day!LastHour, Awake, LoopHours
<1>4. LoopHours(s) \subseteq 0..23
  BY <1>1 DEF LoopHours
<1>5. ASSUME NEW t \in LoopMinutes(s)
      PROVE  t \div 60 \in {h \in 0..23 : Day!IsActive(h, Awake(s)) \/ h = s.endHour}
  <2>1. CASE \E h \in LoopHours(s), m \in Offsets(s) : t = 60 * h + m
    BY <1>2, <1>3, <1>4, <2>1
  <2>2. CASE s.endHour < 24 /\ t = 60 * s.endHour
    <3>1. s.endHour \in 0..23 /\ t = 60 * s.endHour + 0
      BY <1>1, <2>2
    <3> QED
      BY <1>1, <1>2, <1>3, <3>1
  <2> QED
    BY <2>1, <2>2 DEF LoopMinutes
<1>6. ASSUME NEW h \in 0..23, Day!IsActive(h, Awake(s)) \/ h = s.endHour
      PROVE  \E t \in LoopMinutes(s) : h = t \div 60
  <2>1. 60 * h + 0 \in LoopMinutes(s)
    BY <1>1, <1>3, <1>6 DEF LoopMinutes
  <2> QED
    BY <1>1, <1>2, <2>1
<1> QED
  BY <1>5, <1>6

-----------------------------------------------------------------------------
(* Types *)

AllAlarms == UNION {AlarmsOf(s) : s \in Settings}

LEMMA RunningType ==
    ASSUME AlarmTypeOK, NEW c \in Running
    PROVE  c \in Callers /\ calls[c] \in Call
BY DEF AlarmTypeOK, Running

LEMMA AlarmType ==
    ASSUME NEW s \in Settings, s.alarmOn, NEW i \in 1..SlotCount(s)
    PROVE  Alarm(s, i) \in AllAlarms
BY DEF AllAlarms, AlarmsOf, FirstAlarms

LEMMA StartType ==
    ASSUME AlarmTypeOK, StepsOK, NEW c \in Callers, NEW s \in Settings,
           NEW step \in {"clear", "compare"}, NEW welcome \in BOOLEAN,
           Start(c, s, step, welcome)
    PROVE  calls' \in [Callers -> Call \cup {Idle}] /\ StepsOK' /\ disturbed' \in BOOLEAN
<1> DEFINE new == [user |-> user, settings |-> s, step |-> step,
                   next |-> 1, whole |-> Running = {}]
<1>1. new \in Call
  BY AlarmConstants DEF AlarmTypeOK, Call, Steps
<1>2. \A k \in Running : calls[k] \in Call /\ [calls[k] EXCEPT !.whole = FALSE] \in Call
  BY RunningType DEF Call
<1>3. calls' \in [Callers -> Call \cup {Idle}]
  BY <1>1, <1>2 DEF Start
<1>4. ASSUME NEW k \in Callers, k \in Running'
      PROVE  StepOK(calls[k])'
  <2>1. CASE k = c
    BY <2>1, <1>4 DEF Start, StepOK
  <2>2. CASE k # c
    <3>1. k \in Running /\ calls'[k] = [calls[k] EXCEPT !.whole = FALSE]
      BY <2>2, <1>4 DEF Start, Running
    <3>2. StepOK(calls[k]) /\ calls[k] \in Call
      BY <3>1, <1>2 DEF StepsOK
    <3> QED
      BY <3>1, <3>2 DEF StepOK, Call
  <2> QED
    BY <2>1, <2>2
<1>5. disturbed' \in BOOLEAN
  BY DEF Start, AlarmTypeOK
<1> QED
  BY <1>3, <1>4, <1>5 DEF StepsOK

LEMMA ContinueType ==
    ASSUME AlarmTypeOK, StepsOK, NEW c \in Callers, NEW call \in Call,
           NEW step \in Steps, NEW next \in 1..(MaxSlots + 4),
           StepOK([call EXCEPT !.step = step, !.next = next]),
           Continue(c, call, step, next)
    PROVE  calls' \in [Callers -> Call \cup {Idle}] /\ StepsOK' /\ disturbed' \in BOOLEAN
<1> DEFINE new == [call EXCEPT !.step = step, !.next = next]
<1>1. new \in Call
  BY DEF Call
<1>2. calls' = [calls EXCEPT ![c] = new] /\ disturbed' = disturbed
  BY DEF Continue
<1>3. StepOK(new)
  OBVIOUS
<1> HIDE DEF new
<1>4. calls' \in [Callers -> Call \cup {Idle}]
  BY <1>1, <1>2 DEF AlarmTypeOK
<1>5. StepsOK'
  BY <1>2, <1>3 DEF StepsOK, Running, StepOK, AlarmTypeOK
<1> QED
  BY <1>2, <1>4, <1>5 DEF AlarmTypeOK

LEMMA ReturnType ==
    ASSUME AlarmTypeOK, StepsOK, NEW c \in Callers, Return(c)
    PROVE  calls' \in [Callers -> Call \cup {Idle}] /\ StepsOK'
BY DEF AlarmTypeOK, StepsOK, Return, Running, StepOK

LEMMA FinishType ==
    ASSUME AlarmTypeOK, StepsOK, NEW c \in Callers, Finish(c)
    PROVE  calls' \in [Callers -> Call \cup {Idle}] /\ StepsOK' /\ disturbed' \in BOOLEAN
<1>1. disturbed' \in BOOLEAN
  BY DEF Finish
<1> QED
  BY <1>1, ReturnType DEF Finish

KeySet == {"startHour", "endHour", "intervalMinutes", "alarmOn"}

LEMMA SetKey ==
    ASSUME NEW s \in Settings, NEW t \in Settings, NEW key \in KeySet
    PROVE  [s EXCEPT ![key] = t[key]] \in Settings
<1>1. CASE key = "startHour"
  BY <1>1 DEF Settings
<1>2. CASE key = "endHour"
  BY <1>2 DEF Settings
<1>3. CASE key = "intervalMinutes"
  BY <1>3 DEF Settings
<1>4. CASE key = "alarmOn"
  BY <1>4 DEF Settings
<1> QED
  BY <1>1, <1>2, <1>3, <1>4 DEF KeySet

LEMMA KeyType ==
    /\ DOMAIN Keys = 1..4 /\ Len(Keys) = 4
    /\ {Keys[i] : i \in DOMAIN Keys} = KeySet
    /\ \A i \in 1..4 : Keys[i] \in KeySet
BY DEF Keys, KeySet

LEMMA WriteMade ==
    ASSUME NEW s \in Settings, NEW key \in KeySet, NEW left \in Settings \cup {None}
    PROVE  [key |-> key, value |-> s[key], left |-> left] \in Write
BY KeyType DEF Write

LEMMA WriteType ==
    ASSUME NEW w \in Write
    PROVE  /\ w.key \in KeySet /\ w.left \in Settings \cup {None}
           /\ \E s \in Settings : w.value = s[w.key]
           /\ \A left \in Settings \cup {None} : [w EXCEPT !.left = left] \in Write
<1>1. PICK k \in KeySet : w \in [key : {k}, value : {s[k] : s \in Settings}, left : Settings \cup {None}]
  BY KeyType DEF Write
<1>2. PICK s \in Settings : w = [key |-> k, value |-> s[k], left |-> w.left]
  BY <1>1
<1>3. \A left \in Settings \cup {None} :
          [w EXCEPT !.left = left] = [key |-> k, value |-> s[k], left |-> left]
  BY <1>2
<1> QED
  BY <1>1, <1>2, <1>3, WriteMade

-----------------------------------------------------------------------------
(* Types: the actions *)

Typed == AlarmTypeOK /\ StepsOK

LEMMA InitTyped == AlarmInit => Typed
<1> SUFFICES ASSUME AlarmInit
             PROVE  Typed
  OBVIOUS
<1>1. AlarmTypeOK
  <2>1. cache \in [Users -> Settings \cup {None}] /\ saved \in [Users -> Settings]
    BY AlarmConstants DEF AlarmInit
  <2>2. writes \in Seq(Write) /\ Len(writes) <= MaxWrites
    BY AlarmConstants DEF AlarmInit
  <2>3. calls \in [Callers -> Call \cup {Idle}]
    BY DEF AlarmInit
  <2> QED
    BY <2>1, <2>2, <2>3 DEF AlarmInit, AlarmTypeOK
<1>2. StepsOK
  BY DEF AlarmInit, StepsOK, Running
<1> QED
  BY <1>1, <1>2 DEF Typed

\* What a call in progress does.
LEMMA ProceedTyped ==
    ASSUME Typed, NEW c \in Callers, Proceed(c)
    PROVE  Typed'
<1> USE DEF Typed
<1>1. c \in Running /\ calls[c] \in Call /\ StepOK(calls[c])
  <2>1. calls[c] # Idle
    BY DEF Proceed, ClearAll, ForgetCache, Compare, Skips, NonePending, SavePreference,
           CancelAll, ScheduleSlot, ScheduleFails, LogAcknowledged, ReportAcknowledged, At
  <2> QED
    BY <2>1, RunningType DEF Running, StepsOK
<1> DEFINE call == calls[c]
<1>2. /\ call.user \in Users /\ call.settings \in Settings /\ call.step \in Steps
      /\ call.next \in 1..(MaxSlots + 4)
  BY <1>1 DEF Call
<1>3. \A n \in 1..(MaxSlots + 4), t \in Steps : [call EXCEPT !.step = t, !.next = n] \in Call
  BY <1>1 DEF Call
<1>4. 1 \in 1..(MaxSlots + 4) /\ 1..4 \subseteq 1..(MaxSlots + 4)
  BY AlarmConstants
<1>5. SlotCount(call.settings) \in 1..MaxSlots
  BY <1>2, SlotCountType
<1>6. CASE ClearAll(c)
  <2> DEFINE new == [call EXCEPT !.settings = saved[call.user]]
  <2>1. new \in Call
    BY <1>1, <1>2 DEF Call, AlarmTypeOK
  <2>2. Continue(c, new, "forget", 1) /\ StepOK([new EXCEPT !.step = "forget", !.next = 1])
    BY <1>6, <2>1 DEF ClearAll, StepOK, Call
  <2>3. calls' \in [Callers -> Call \cup {Idle}] /\ StepsOK' /\ disturbed' \in BOOLEAN
    <3> HIDE DEF new
    <3> QED
      BY <2>1, <2>2, <1>4, ContinueType DEF Steps
  <2> QED
    BY <1>6, <2>3 DEF ClearAll, AlarmTypeOK, prefs
<1>7. CASE ForgetCache(c)
  <2>1. GoTo(c, "compare", 1) /\ StepOK([call EXCEPT !.step = "compare", !.next = 1])
    BY <1>7, <1>1 DEF ForgetCache, StepOK, Call
  <2>2. calls' \in [Callers -> Call \cup {Idle}] /\ StepsOK' /\ disturbed' \in BOOLEAN
    BY <2>1, <1>1, <1>4, ContinueType DEF Steps, GoTo
  <2>3. cache' \in [Users -> Settings \cup {None}]
    BY <1>7 DEF ForgetCache, AlarmTypeOK
  <2> QED
    BY <1>7, <2>2, <2>3 DEF ForgetCache, AlarmTypeOK
<1>8. ASSUME NEW new \in Call, Remember(c, new)
      PROVE  /\ cache' \in [Users -> Settings \cup {None}]
             /\ calls' \in [Callers -> Call \cup {Idle}] /\ StepsOK' /\ disturbed' \in BOOLEAN
  <2>1. StepOK([new EXCEPT !.step = "save", !.next = 1])
    BY DEF StepOK, Call
  <2>2. cache' \in [Users -> Settings \cup {None}]
    BY <1>8 DEF Remember, AlarmTypeOK, Call
  <2> QED
    BY <1>8, <2>1, <2>2, <1>4, ContinueType DEF Remember, Steps
<1>9. CASE Compare(c)
  <2>1. ForUser(c) \in Call
    BY <1>1 DEF ForUser, Call, AlarmTypeOK
  <2>2. StepOK([ForUser(c) EXCEPT !.step = "count", !.next = 1])
    BY <2>1 DEF StepOK, Call
  <2>3. CASE Continue(c, ForUser(c), "count", 1) /\ UNCHANGED cache
    <3>1. calls' \in [Callers -> Call \cup {Idle}] /\ StepsOK' /\ disturbed' \in BOOLEAN
      BY <2>1, <2>2, <2>3, <1>4, ContinueType DEF Steps
    <3> QED
      BY <1>9, <2>3, <3>1 DEF Compare, AlarmTypeOK
  <2>4. CASE Remember(c, ForUser(c))
    BY <1>8, <1>9, <2>1, <2>4 DEF Compare, AlarmTypeOK
  <2> QED
    BY <1>9, <2>3, <2>4 DEF Compare
<1>10. CASE Skips(c)
  BY <1>10, ReturnType DEF Skips, AlarmTypeOK, prefs
<1>11. CASE NonePending(c)
  <2>1. Remember(c, call)
    BY <1>11 DEF NonePending
  <2> QED
    BY <1>1, <1>8, <1>11, <2>1 DEF NonePending, AlarmTypeOK
<1>12. CASE SavePreference(c)
  <2> DEFINE i == call.next
  <2>1. call.step = "save" /\ i \in 1..4
    BY <1>1, <1>12 DEF SavePreference, At, StepOK
  <2>2. saved' \in [Users -> Settings]
    <3>1. [saved[call.user] EXCEPT ![Keys[i]] = call.settings[Keys[i]]] \in Settings
      BY <1>2, <2>1, SetKey, KeyType DEF AlarmTypeOK
    <3>2. saved' = [saved EXCEPT ![call.user] =
                        [saved[call.user] EXCEPT ![Keys[i]] = call.settings[Keys[i]]]]
      BY <1>12 DEF SavePreference
    <3> QED
      BY <3>1, <3>2 DEF AlarmTypeOK
  <2>3. calls' \in [Callers -> Call \cup {Idle}] /\ StepsOK' /\ disturbed' \in BOOLEAN
    <3>1. CASE i < 4
      <4>1. GoTo(c, "save", i + 1)
        BY <1>12, <3>1, KeyType DEF SavePreference
      <4>2. i + 1 \in 1..4
        BY <2>1, <3>1
      <4>3. StepOK([call EXCEPT !.step = "save", !.next = i + 1])
        BY <1>1, <4>2 DEF StepOK, Call
      <4> QED
        BY <4>1, <4>2, <4>3, <1>1, <1>4, ContinueType DEF GoTo, Steps
    <3>2. CASE ~(i < 4)
      <4>1. GoTo(c, "cancel", 1)
        BY <1>12, <3>2, KeyType DEF SavePreference
      <4>2. StepOK([call EXCEPT !.step = "cancel", !.next = 1])
        BY <1>1 DEF StepOK, Call
      <4> QED
        BY <4>1, <4>2, <1>1, <1>4, ContinueType DEF GoTo, Steps
    <3> QED
      BY <3>1, <3>2
  <2> QED
    BY <1>12, <2>2, <2>3 DEF SavePreference, AlarmTypeOK
<1>13. CASE CancelAll(c)
  <2>1. calls' \in [Callers -> Call \cup {Idle}] /\ StepsOK' /\ disturbed' \in BOOLEAN
    <3>1. CASE call.settings.alarmOn
      <4>1. GoTo(c, "schedule", 1)
        BY <1>13, <3>1 DEF CancelAll
      <4>2. StepOK([call EXCEPT !.step = "schedule", !.next = 1])
        BY <1>1, <1>5, <3>1, AlarmConstants DEF StepOK, Call
      <4> QED
        BY <4>1, <4>2, <1>1, <1>4, ContinueType DEF GoTo, Steps
    <3>2. CASE ~call.settings.alarmOn
      BY <1>13, <3>2, FinishType DEF CancelAll
    <3> QED
      BY <3>1, <3>2
  <2> QED
    BY <1>13, <2>1 DEF CancelAll, AlarmTypeOK, prefs
<1>14. CASE ScheduleSlot(c)
  <2>1. call.step = "schedule" /\ call.settings.alarmOn /\ call.next \in 1..SlotCount(call.settings)
    BY <1>1, <1>14 DEF ScheduleSlot, At, StepOK
  <2>2. scheduled' \subseteq AllAlarms
    BY <1>2, <1>14, <2>1, AlarmType DEF ScheduleSlot, AlarmTypeOK, AllAlarms
  <2>3. StepOK([call EXCEPT !.step = "log", !.next = call.next])
    BY <1>1, <2>1 DEF StepOK, Call
  <2>4. GoTo(c, "log", call.next)
    BY <1>14 DEF ScheduleSlot
  <2>5. calls' \in [Callers -> Call \cup {Idle}] /\ StepsOK' /\ disturbed' \in BOOLEAN
    BY <2>3, <2>4, <1>1, <1>2, ContinueType DEF GoTo, Steps
  <2> QED
    BY <1>14, <2>2, <2>5 DEF ScheduleSlot, AlarmTypeOK, AllAlarms, prefs
<1>15. CASE ScheduleFails(c)
  <2>1. call.step = "schedule" /\ calls' = [calls EXCEPT ![c] = [call EXCEPT !.step = "log", !.whole = FALSE]]
    BY <1>15 DEF ScheduleFails, At
  <2> DEFINE new == [call EXCEPT !.step = "log", !.whole = FALSE]
  <2>2. new \in Call /\ StepOK(new)
    BY <1>1, <2>1 DEF Call, StepOK, Steps
  <2>3. calls' \in [Callers -> Call \cup {Idle}]
    <3> HIDE DEF new
    <3> QED
      BY <2>1, <2>2 DEF AlarmTypeOK, new
  <2>4. StepsOK'
    BY <2>1, <2>2 DEF StepsOK, Running, StepOK, AlarmTypeOK
  <2> QED
    BY <1>15, <2>3, <2>4 DEF ScheduleFails, AlarmTypeOK, prefs
<1>16. CASE LogAcknowledged(c)
  <2>1. call.step = "log" /\ call.settings.alarmOn /\ call.next \in 1..SlotCount(call.settings)
    BY <1>1, <1>16 DEF LogAcknowledged, At, StepOK
  <2>2. calls' \in [Callers -> Call \cup {Idle}] /\ StepsOK' /\ disturbed' \in BOOLEAN
    <3>1. CASE call.next < SlotCount(call.settings)
      <4>1. call.next + 1 \in 1..SlotCount(call.settings) /\ call.next + 1 \in 1..(MaxSlots + 4)
        BY <2>1, <3>1, <1>5, AlarmConstants
      <4>2. StepOK([call EXCEPT !.step = "schedule", !.next = call.next + 1])
        BY <1>1, <2>1, <4>1 DEF StepOK, Call
      <4>3. GoTo(c, "schedule", call.next + 1)
        BY <1>16, <3>1 DEF LogAcknowledged
      <4> QED
        BY <4>1, <4>2, <4>3, <1>1, ContinueType DEF GoTo, Steps
    <3>2. CASE ~(call.next < SlotCount(call.settings))
      <4>1. StepOK([call EXCEPT !.step = "report", !.next = 1])
        BY <1>1, <2>1 DEF StepOK, Call
      <4>2. GoTo(c, "report", 1)
        BY <1>16, <3>2 DEF LogAcknowledged
      <4> QED
        BY <4>1, <4>2, <1>1, <1>4, ContinueType DEF GoTo, Steps
    <3> QED
      BY <3>1, <3>2
  <2> QED
    BY <1>16, <2>2 DEF LogAcknowledged, AlarmTypeOK, prefs
<1>17. CASE ReportAcknowledged(c)
  BY <1>17, FinishType DEF ReportAcknowledged, AlarmTypeOK, prefs
<1> QED
  BY <1>6, <1>7, <1>9, <1>10, <1>11, <1>12, <1>13, <1>14, <1>15, <1>16, <1>17 DEF Proceed

\* The callers and the environment.
LEMMA AppResumedTyped ==
    ASSUME Typed, NEW c \in Callers, AppResumed(c)
    PROVE  Typed'
<1>1. saved[user] \in Settings
  BY DEF Typed, AlarmTypeOK
<1>2. calls' \in [Callers -> Call \cup {Idle}] /\ StepsOK' /\ disturbed' \in BOOLEAN
  BY <1>1, StartType DEF AppResumed, Typed
<1> QED
  BY <1>2 DEF AppResumed, Typed, AlarmTypeOK, prefs

LEMMA HomeLoadedTyped ==
    ASSUME Typed, NEW c \in Callers, NEW u \in Users, HomeLoaded(c, u)
    PROVE  Typed'
<1>1. chosen[u] \in Settings /\ (u = user) \in BOOLEAN
  BY DEF Typed, AlarmTypeOK
<1>2. calls' \in [Callers -> Call \cup {Idle}] /\ StepsOK' /\ disturbed' \in BOOLEAN
  BY <1>1, StartType DEF HomeLoaded, Typed
<1> QED
  BY <1>2 DEF HomeLoaded, Typed, AlarmTypeOK, prefs

LEMMA ChooseTyped ==
    ASSUME Typed, NEW s \in Settings, NEW key \in KeySet, Choose(key, s[key])
    PROVE  Typed'
<1>1. [chosen[user] EXCEPT ![key] = s[key]] \in Settings
  BY SetKey DEF Typed, AlarmTypeOK
<1>2. chosen' \in [Users -> Settings]
  BY <1>1 DEF Choose, Typed, AlarmTypeOK
<1>3. [key |-> key, value |-> s[key], left |-> None] \in Write
  BY WriteMade
<1>4. writes' \in Seq(Write) /\ Len(writes') <= MaxWrites
  BY <1>3, AlarmConstants DEF Choose, Typed, AlarmTypeOK
<1> QED
  BY <1>2, <1>4 DEF Choose, Typed, AlarmTypeOK, prefs, StepsOK, Running

\* The settings a late answer is scheduled with.
Fields(w) == IF w.left = None THEN chosen[user] ELSE w.left

LEMMA HeadType ==
    ASSUME Typed, writes # << >>
    PROVE  /\ Head(writes) \in Write
           /\ [Fields(Head(writes)) EXCEPT ![Head(writes).key] = Head(writes).value] \in Settings
<1>1. Head(writes) \in Write
  BY DEF Typed, AlarmTypeOK
<1>2. Fields(Head(writes)) \in Settings
  BY <1>1, WriteType DEF Fields, Typed, AlarmTypeOK
<1>3. PICK t \in Settings : Head(writes).value = t[Head(writes).key]
  BY <1>1, WriteType
<1>4. Head(writes).key \in KeySet
  BY <1>1, WriteType
<1> QED
  BY <1>1, <1>2, <1>3, <1>4, SetKey

LEMMA WriteAcknowledgedTyped ==
    ASSUME Typed, NEW c \in Callers, WriteAcknowledged(c)
    PROVE  Typed'
<1> DEFINE w == Head(writes)
           t == [Fields(w) EXCEPT ![w.key] = w.value]
<1>1. writes # << >> /\ t \in Settings /\ (w.left = None) \in BOOLEAN
  BY HeadType DEF WriteAcknowledged
<1>2. Start(c, t, "compare", w.left = None)
  BY DEF WriteAcknowledged, Fields
<1>3. calls' \in [Callers -> Call \cup {Idle}] /\ StepsOK' /\ disturbed' \in BOOLEAN
  <2> HIDE DEF t
  <2> QED
    BY <1>1, <1>2, StartType DEF Typed
<1>4. writes' \in Seq(Write) /\ Len(writes') <= MaxWrites
  BY <1>1, AlarmConstants DEF WriteAcknowledged, Typed, AlarmTypeOK
<1> QED
  BY <1>3, <1>4 DEF WriteAcknowledged, Typed, AlarmTypeOK, prefs

LEMMA RestartTyped ==
    ASSUME Typed, Restart
    PROVE  Typed'
<1>1. writes' \in Seq(Write) /\ Len(writes') <= MaxWrites
  BY AlarmConstants DEF Restart
<1>2. calls' \in [Callers -> Call \cup {Idle}] /\ StepsOK'
  BY DEF Restart, StepsOK, Running
<1> QED
  BY <1>1, <1>2 DEF Restart, Typed, AlarmTypeOK, prefs

LEMMA SwitchUserTyped ==
    ASSUME Typed, NEW u \in Users, SwitchUser(u)
    PROVE  Typed'
<1>1. writes' \in Seq(Write) /\ Len(writes') <= MaxWrites
  <2>1. CASE writes' = << >>
    BY <2>1, AlarmConstants
  <2>2. CASE writes' = [i \in DOMAIN writes |-> Leave(writes[i])]
    <3>1. \A i \in DOMAIN writes : Leave(writes[i]) \in Write
      BY WriteType DEF Leave, Typed, AlarmTypeOK
    <3> QED
      BY <2>2, <3>1 DEF Typed, AlarmTypeOK
  <2> QED
    BY <2>1, <2>2 DEF SwitchUser
<1>2. \A k \in Running : calls[k] \in Call /\ [calls[k] EXCEPT !.whole = FALSE] \in Call
  BY RunningType DEF Call, Typed
<1>3. calls' \in [Callers -> Call \cup {Idle}]
  BY <1>2 DEF SwitchUser
<1>4. StepsOK'
  BY <1>2 DEF SwitchUser, StepsOK, Running, StepOK, Typed, Call
<1> QED
  BY <1>1, <1>3, <1>4 DEF SwitchUser, Typed, AlarmTypeOK, prefs

LEMMA TypedStep == Typed /\ [AlarmNext]_alarmVars => Typed'
<1> SUFFICES ASSUME Typed, [AlarmNext]_alarmVars
             PROVE  Typed'
  OBVIOUS
<1>1. ASSUME NEW c \in Callers, Proceed(c)
      PROVE  Typed'
  BY <1>1, ProceedTyped
<1>2. ASSUME NEW c \in Callers, AppResumed(c) \/ WriteAcknowledged(c) \/ \E u \in Users : HomeLoaded(c, u)
      PROVE  Typed'
  BY <1>2, AppResumedTyped, WriteAcknowledgedTyped, HomeLoadedTyped
<1>3. CASE HomeRebuilt \/ Connectivity
  BY <1>3 DEF HomeRebuilt, Connectivity, Typed, AlarmTypeOK, StepsOK, Running, prefs
<1>4. CASE Restart \/ \E u \in Users : SwitchUser(u)
  BY <1>4, RestartTyped, SwitchUserTyped
<1>5. ASSUME NEW s \in Settings, NEW key \in KeySet, Choose(key, s[key])
      PROVE  Typed'
  BY <1>5, ChooseTyped
<1>6. CASE UNCHANGED alarmVars
  BY <1>6 DEF alarmVars, prefs, Typed, AlarmTypeOK, StepsOK, Running
<1> QED
  BY <1>1, <1>2, <1>3, <1>4, <1>5, <1>6 DEF AlarmNext, KeySet

\* Every variable of NotificationService and its callers keeps its type: an
\* alarm is always a slot of settings that can be chosen.
THEOREM AlarmTyping == AlarmSpec => []AlarmTypeOK
<1>1. Typed => AlarmTypeOK
  BY DEF Typed
<1> QED
  BY InitTyped, TypedStep, <1>1, PTL DEF AlarmSpec

-----------------------------------------------------------------------------
(* The alarms follow the settings *)

LEMMA InvTyped == AlarmInv => Typed
BY DEF AlarmInv, Typed

LEMMA InitInv == AlarmInit => AlarmInv
<1> SUFFICES ASSUME AlarmInit
             PROVE  AlarmInv
  OBVIOUS
<1>1. Running = {} /\ loading # {} /\ writes = << >> /\ cache[user] = None
  BY DEF AlarmInit, Running
<1> QED
  BY <1>1, InitTyped DEF Typed, AlarmInv, LastWriteOK, WholeOK, Undisturbed, Quiet, CacheTold

LEMMA Alone ==
    ASSUME AlarmInv, NEW c \in Running
    PROVE  /\ calls[c] \in Call /\ StepOK(calls[c])
           /\ ~disturbed => calls[c].whole
           /\ calls[c].whole => Running = {c} /\ calls[c].user = user /\ Done(calls[c])
           /\ \A k \in Running : calls[k].whole => k = c
<1>1. c \in Callers /\ \A k \in Running : k \in Callers
  BY DEF Running
<1> QED
  BY <1>1, RunningType DEF AlarmInv, WholeOK, Undisturbed, StepsOK

\* A call makes a step and stays.
LEMMA AdvanceOK ==
    ASSUME AlarmInv, NEW c \in Running, Running' = Running,
           \A k \in Running : k # c => calls'[k] = calls[k],
           calls'[c].whole = calls[c].whole,
           UNCHANGED <<user, chosen, writes, loading, disturbed>>,
           calls[c].whole => Done(calls[c])' /\ calls'[c].user = user,
           ~disturbed /\ NothingDone(c)' => CacheTold',
           ~disturbed /\ Quiet => calls'[c].settings = chosen[user] /\ calls'[c].step # "clear"
    PROVE  LastWriteOK' /\ WholeOK' /\ Undisturbed'
<1>1. c \in Callers
  BY DEF Running
<1>2. LastWriteOK'
  BY DEF AlarmInv, LastWriteOK
<1>3. WholeOK'
  <2> SUFFICES ASSUME NEW k \in Callers, k \in Running, calls'[k].whole
               PROVE  Running = {k} /\ calls'[k].user = user /\ Done(calls[k])'
    BY DEF WholeOK
  <2>1. k = c
    BY Alone
  <2> QED
    BY <2>1, Alone
<1>4. Undisturbed'
  <2> SUFFICES ASSUME ~disturbed
               PROVE  Undisturbed'
    BY DEF Undisturbed
  <2>1. Running = {c} /\ calls[c].whole
    BY Alone
  <2> QED
    BY <2>1, <1>1 DEF Undisturbed, Quiet
<1> QED
  BY <1>2, <1>3, <1>4

\* A call ends.
LEMMA EndOK ==
    ASSUME AlarmInv, NEW c \in Running, Return(c),
           UNCHANGED <<user, chosen, writes, loading>>,
           ~disturbed' => /\ calls[c].whole /\ CacheTold'
                          /\ Quiet => saved'[user] = chosen[user] /\ scheduled' = AlarmsOf(chosen[user])
    PROVE  LastWriteOK' /\ WholeOK' /\ Undisturbed'
<1>1. Running' = Running \ {c} /\ \A k \in Running' : calls'[k] = calls[k]
  BY DEF Return, Running, AlarmInv, AlarmTypeOK
<1>2. LastWriteOK'
  BY DEF AlarmInv, LastWriteOK
<1>3. WholeOK'
  BY <1>1, Alone DEF WholeOK
<1>4. Undisturbed'
  <2>1. ~disturbed' => Running' = {}
    BY <1>1, Alone
  <2> QED
    BY <2>1 DEF Undisturbed, Quiet
<1> QED
  BY <1>2, <1>3, <1>4

LEMMA FinishOK ==
    ASSUME AlarmInv, NEW c \in Running, Finish(c),
           UNCHANGED <<user, chosen, writes, loading, cache, saved>>,
           calls[c].step \in {"cancel", "report"},
           calls[c].whole => scheduled' = AlarmsOf(calls[c].settings)
    PROVE  LastWriteOK' /\ WholeOK' /\ Undisturbed'
<1> DEFINE call == calls[c]
<1>1. ~disturbed' => call.whole
  BY Alone DEF Finish
<1>2. call.whole => call.user = user /\ cache[user] = call.settings /\ saved[user] = call.settings
  BY Alone DEF Done
<1>3. ~disturbed' /\ Quiet => call.settings = chosen[user]
  BY <1>1, <1>2 DEF Finish, AlarmInv, Undisturbed, Running
<1> QED
  BY <1>1, <1>2, <1>3, EndOK DEF Finish, CacheTold

\* A call begins.
LEMMA StartOK ==
    ASSUME AlarmInv, NEW c \in Callers, NEW s \in Settings, NEW step \in {"clear", "compare"},
           NEW welcome \in BOOLEAN, Start(c, s, step, welcome),
           UNCHANGED <<user, chosen, prefs, scheduled>>, LastWriteOK',
           welcome /\ ~disturbed /\ Running = {} /\ Quiet' =>
               s = chosen[user] /\ (step = "clear" => saved[user] = chosen[user])
    PROVE  LastWriteOK' /\ WholeOK' /\ Undisturbed'
<1> DEFINE new == [user |-> user, settings |-> s, step |-> step, next |-> 1, whole |-> Running = {}]
<1>0. new \in Call
  BY InvTyped, AlarmConstants DEF Typed, AlarmTypeOK, Call, Steps
<1>2. calls'[c] = new
  BY DEF Start
<1>1. c \notin Running /\ Running' = Running \cup {c}
  <2>1. calls'[c] # Idle
    <3> HIDE DEF new
    <3> QED
      BY <1>0, <1>2, IdleAssumption
  <2>2. \A k \in Running : calls'[k] # Idle
    <3> TAKE k \in Running
    <3>1. k # c => calls'[k] = [calls[k] EXCEPT !.whole = FALSE] /\ [calls[k] EXCEPT !.whole = FALSE] \in Call
      BY RunningType DEF Start, Running, AlarmInv, Call
    <3> QED
      BY <2>1, <3>1, IdleAssumption
  <2>3. \A k \in Callers : k # c /\ k \notin Running => calls'[k] = Idle
    BY DEF Start
  <2> QED
    BY <2>1, <2>2, <2>3 DEF Start, Running
<1>3. \A k \in Running : calls'[k].whole = FALSE
  <2> TAKE k \in Running
  <2>1. calls'[k] = [calls[k] EXCEPT !.whole = FALSE] /\ calls[k] \in Call
    BY <1>1, RunningType DEF Start, Running, AlarmInv
  <2> QED
    BY <2>1 DEF Call
<1>6. Running = {} <=> calls'[c].whole
  <2> DEFINE alone == Running = {}
  <2>1. calls'[c].whole = alone
    <3>1. calls'[c] = [user |-> user, settings |-> s, step |-> step, next |-> 1, whole |-> alone]
      BY <1>2
    <3> HIDE DEF alone
    <3> QED
      BY <3>1, SMT
  <2> QED
    BY <2>1, Zenon
<1>4. WholeOK'
  <2> SUFFICES ASSUME NEW k \in Callers, k \in Running', calls'[k].whole
               PROVE  Running' = {k} /\ calls'[k].user = user' /\ Done(calls[k])'
    BY DEF WholeOK
  <2>1. k = c
    BY <1>1, <1>3
  <2>2. Running = {}
    BY <1>6, <2>1
  <2> QED
    BY <1>1, <1>2, <2>1, <2>2 DEF Done
<1>5. Undisturbed'
  <2> SUFFICES ASSUME ~disturbed'
               PROVE  Undisturbed'
    BY DEF Undisturbed
  <2>1. ~disturbed /\ Running = {} /\ welcome
    BY DEF Start, AlarmInv, AlarmTypeOK
  <2>2. CacheTold'
    BY <2>1 DEF AlarmInv, Undisturbed, CacheTold, prefs
  <2>3. Running' = {c} /\ calls'[c].whole /\ calls'[c].settings = s /\ calls'[c].step = step
    BY <1>1, <1>2, <1>6, <2>1
  <2> QED
    BY <2>1, <2>2, <2>3 DEF Undisturbed, prefs
<1> QED
  BY <1>4, <1>5

LEMMA GoesOn ==
    ASSUME AlarmInv, NEW c \in Running, NEW call \in Call, NEW step \in Steps,
           NEW next \in 1..(MaxSlots + 4), disturbed' = disturbed,
           calls' = [calls EXCEPT ![c] = [call EXCEPT !.step = step, !.next = next]]
    PROVE  /\ calls'[c].settings = call.settings /\ calls'[c].user = call.user
           /\ calls'[c].whole = call.whole
           /\ Running' = Running /\ disturbed' = disturbed
           /\ \A k \in Running : k # c => calls'[k] = calls[k]
<1> DEFINE new == [call EXCEPT !.step = step, !.next = next]
<1>1. new.user \in Users /\ new.settings = call.settings /\ new.user = call.user
      /\ new.whole = call.whole
  BY DEF Call
<1>2. calls' = [calls EXCEPT ![c] = new] /\ disturbed' = disturbed
  OBVIOUS
<1>3. c \in Callers /\ calls \in [Callers -> Call \cup {Idle}]
  BY DEF Running, AlarmInv, AlarmTypeOK
<1>4. new # Idle
  BY IdleAssumption DEF Call
<1> HIDE DEF new
<1> QED
  BY <1>1, <1>2, <1>3, <1>4 DEF Running, new

LEMMA FirstAlarmsStep ==
    ASSUME NEW s \in Settings, NEW n \in 1..SlotCount(s)
    PROVE  LET alarm == Alarm(s, n)
           IN  {a \in FirstAlarms(s, n - 1) : a.id # alarm.id} \cup {alarm} = FirstAlarms(s, n)
<1>1. n \in Nat
  BY SlotCountType, AlarmConstants
<1>2. \A i \in 1..(n - 1) : Alarm(s, i).id # Alarm(s, n).id
  BY <1>1 DEF Alarm
<1>3. 1..n = 1..(n - 1) \cup {n}
  BY <1>1
<1>4. {a \in FirstAlarms(s, n - 1) : a.id # Alarm(s, n).id} = FirstAlarms(s, n - 1)
  BY <1>2 DEF FirstAlarms
<1> QED
  BY <1>3, <1>4 DEF FirstAlarms

\* The facts every step of a call needs.
LEMMA Numbers ==
    /\ 1 \in 1..(MaxSlots + 4)
    /\ \A call \in Call : /\ call.user \in Users /\ call.settings \in Settings
                         /\ call.next \in 1..(MaxSlots + 4) /\ call.whole \in BOOLEAN
    /\ \A i \in 1..4 : i \in 1..(MaxSlots + 4)
BY AlarmConstants DEF Call

LEMMA ClearAllOK ==
    ASSUME AlarmInv, NEW c \in Callers, ClearAll(c)
    PROVE  LastWriteOK' /\ WholeOK' /\ Undisturbed'
<1> DEFINE call == [calls[c] EXCEPT !.settings = saved[calls[c].user]]
<1>1. c \in Running /\ calls[c].step = "clear" /\ scheduled' = {}
      /\ UNCHANGED <<user, chosen, writes, loading, cache, saved>> /\ Continue(c, call, "forget", 1)
  BY DEF ClearAll, At, Running, prefs
<1>2. call \in Call /\ call.settings = saved[calls[c].user] /\ call.user = calls[c].user
      /\ call.whole = calls[c].whole
  BY <1>1, Alone DEF Call, AlarmInv, AlarmTypeOK
<1>3. /\ calls'[c].settings = saved[calls[c].user] /\ calls'[c].user = calls[c].user
      /\ calls'[c].whole = calls[c].whole /\ calls'[c].step = "forget"
      /\ Running' = Running /\ disturbed' = disturbed
      /\ \A k \in Running : k # c => calls'[k] = calls[k]
  <2>1. "forget" \in Steps /\ 1 \in 1..(MaxSlots + 4)
    BY Numbers DEF Steps
  <2> HIDE DEF call
  <2>2. /\ calls'[c].settings = call.settings /\ calls'[c].user = call.user
        /\ calls'[c].whole = call.whole
        /\ Running' = Running /\ disturbed' = disturbed
        /\ \A k \in Running : k # c => calls'[k] = calls[k]
    BY <1>1, <1>2, <2>1, GoesOn DEF Continue
  <2>3. calls'[c].step = "forget"
    BY <1>1, <1>2 DEF Continue, AlarmInv, AlarmTypeOK, Call, Running
  <2> QED
    BY <1>2, <2>2, <2>3
<1>4. calls[c].whole => calls[c].user = user /\ Done(calls[c])'
  BY <1>1, <1>3, Alone DEF Done
<1>5. ~disturbed => CacheTold'
  <2> SUFFICES ASSUME ~disturbed
               PROVE  CacheTold'
    OBVIOUS
  <2>1. Running = {c}
    BY <1>1, Alone
  <2>2. CacheTold
    BY <1>1, <2>1 DEF AlarmInv, Undisturbed, NothingDone
  <2> QED
    BY <1>1, <2>2 DEF CacheTold
<1>6. ~disturbed /\ Quiet => calls'[c].settings = chosen[user]
  <2>1. ~disturbed /\ Quiet => saved[user] = chosen[user]
    BY <1>1 DEF AlarmInv, Undisturbed, Running
  <2> QED
    BY <1>1, <1>3, <1>4, <2>1, Alone
<1> QED
  BY <1>1, <1>3, <1>4, <1>5, <1>6, AdvanceOK

LEMMA ForgetCacheOK ==
    ASSUME AlarmInv, NEW c \in Callers, ForgetCache(c)
    PROVE  LastWriteOK' /\ WholeOK' /\ Undisturbed'
<1> DEFINE call == calls[c]
<1>1. c \in Running /\ call.step = "forget" /\ cache' = [cache EXCEPT ![call.user] = None]
      /\ UNCHANGED <<user, chosen, writes, loading, saved, scheduled>> /\ Continue(c, call, "compare", 1)
  BY DEF ForgetCache, GoTo, At, Running
<1>2. /\ calls'[c].settings = call.settings /\ calls'[c].user = call.user
      /\ calls'[c].whole = call.whole /\ calls'[c].step = "compare"
      /\ Running' = Running /\ disturbed' = disturbed
      /\ \A k \in Running : k # c => calls'[k] = calls[k]
  <2>1. call \in Call
    BY <1>1, Alone
  <2>2. "compare" \in Steps /\ 1 \in 1..(MaxSlots + 4)
    BY Numbers DEF Steps
  <2>3. calls'[c].step = "compare"
    BY <1>1, <2>1 DEF Continue, AlarmInv, AlarmTypeOK, Call, Running
  <2> HIDE DEF call
  <2>4. /\ calls'[c].settings = call.settings /\ calls'[c].user = call.user
        /\ calls'[c].whole = call.whole
        /\ Running' = Running /\ disturbed' = disturbed
        /\ \A k \in Running : k # c => calls'[k] = calls[k]
    BY <1>1, <2>1, <2>2, GoesOn DEF Continue
  <2> QED
    BY <2>3, <2>4
<1>3. call.whole => call.user = user /\ Done(calls[c])'
  BY <1>1, <1>2, Alone DEF Done
<1>4. ~disturbed => cache'[user] = None
  BY <1>1, <1>3, Alone DEF AlarmInv, AlarmTypeOK
<1>5. ~disturbed => CacheTold'
  BY <1>1, <1>4 DEF CacheTold
<1>6. ~disturbed /\ Quiet => call.settings = chosen[user]
  BY <1>1 DEF AlarmInv, Undisturbed, Running
<1> QED
  BY <1>1, <1>2, <1>3, <1>5, <1>6, AdvanceOK

LEMMA RememberOK ==
    ASSUME AlarmInv, NEW c \in Running, NEW call \in Call,
           call.whole => call.user = user, call.settings = calls[c].settings, call.whole = calls[c].whole,
           calls[c].step \in {"compare", "count"}, Remember(c, call),
           UNCHANGED <<user, chosen, writes, loading, online, saved, scheduled>>
    PROVE  LastWriteOK' /\ WholeOK' /\ Undisturbed'
<1>1. /\ calls'[c].settings = call.settings /\ calls'[c].user = call.user
      /\ calls'[c].whole = call.whole /\ calls'[c].step = "save" /\ calls'[c].next = 1
      /\ Running' = Running /\ disturbed' = disturbed
      /\ \A k \in Running : k # c => calls'[k] = calls[k]
  <2>1. "save" \in Steps /\ 1 \in 1..(MaxSlots + 4)
    BY Numbers DEF Steps
  <2>2. Continue(c, call, "save", 1)
    BY DEF Remember
  <2>3. calls'[c].step = "save" /\ calls'[c].next = 1
    BY <2>2 DEF Continue, AlarmInv, AlarmTypeOK, Call, Running
  <2>4. /\ calls'[c].settings = call.settings /\ calls'[c].user = call.user
        /\ calls'[c].whole = call.whole
        /\ Running' = Running /\ disturbed' = disturbed
        /\ \A k \in Running : k # c => calls'[k] = calls[k]
    BY <2>1, <2>2, GoesOn DEF Continue
  <2> QED
    BY <2>3, <2>4
<1>2. call.whole => cache'[user] = call.settings
  BY DEF Remember, AlarmInv, AlarmTypeOK
<1>3. call.whole => Done(calls[c])'
  BY <1>1, <1>2 DEF Done, Saved
<1>4. ~NothingDone(c)'
  BY <1>1 DEF NothingDone
<1>5. ~disturbed /\ Quiet => call.settings = chosen[user]
  BY DEF AlarmInv, Undisturbed, Running
<1> QED
  BY <1>1, <1>3, <1>4, <1>5, AdvanceOK

LEMMA CompareOK ==
    ASSUME AlarmInv, NEW c \in Callers, Compare(c)
    PROVE  LastWriteOK' /\ WholeOK' /\ Undisturbed'
<1> DEFINE call == ForUser(c)
<1>1. c \in Running /\ calls[c].step = "compare"
      /\ UNCHANGED <<user, chosen, writes, loading, online, saved, scheduled>>
  BY DEF Compare, At, Running
<1>2. call \in Call /\ call.user = user /\ call.settings = calls[c].settings /\ call.whole = calls[c].whole
  BY <1>1, Alone DEF Call, ForUser, AlarmInv, AlarmTypeOK
<1>3. CASE cache[user] = calls[c].settings /\ Continue(c, call, "count", 1) /\ UNCHANGED cache
  <2>1. /\ calls'[c].settings = call.settings /\ calls'[c].user = user
        /\ calls'[c].whole = call.whole /\ calls'[c].step = "count"
        /\ Running' = Running /\ disturbed' = disturbed
        /\ \A k \in Running : k # c => calls'[k] = calls[k]
    <3>1. "count" \in Steps /\ 1 \in 1..(MaxSlots + 4)
      BY Numbers DEF Steps
    <3> HIDE DEF call
    <3>2. calls'[c].step = "count"
      BY <1>1, <1>2, <1>3 DEF Continue, AlarmInv, AlarmTypeOK, Call, Running
    <3>3. /\ calls'[c].settings = call.settings /\ calls'[c].user = user
          /\ calls'[c].whole = call.whole
          /\ Running' = Running /\ disturbed' = disturbed
          /\ \A k \in Running : k # c => calls'[k] = calls[k]
      BY <1>1, <1>2, <1>3, <3>1, GoesOn DEF Continue
    <3> QED
      BY <3>2, <3>3
  <2>2. Done(calls[c])'
    BY <1>1, <1>2, <1>3, <2>1 DEF Done
  <2>3. ~disturbed => CacheTold'
    <3> SUFFICES ASSUME ~disturbed
                 PROVE  CacheTold'
      OBVIOUS
    <3>1. CacheTold
      BY <1>1, Alone DEF AlarmInv, Undisturbed, NothingDone
    <3> QED
      BY <1>1, <1>3, <3>1 DEF CacheTold
  <2>4. ~disturbed /\ Quiet => calls[c].settings = chosen[user]
    BY <1>1 DEF AlarmInv, Undisturbed, Running
  <2> QED
    BY <1>1, <1>2, <2>1, <2>2, <2>3, <2>4, AdvanceOK
<1>4. CASE Remember(c, call)
  <2> HIDE DEF call
  <2> QED
    BY <1>1, <1>2, <1>4, RememberOK
<1> QED
  BY <1>3, <1>4 DEF Compare

LEMMA SkipsOK ==
    ASSUME AlarmInv, NEW c \in Callers, Skips(c)
    PROVE  LastWriteOK' /\ WholeOK' /\ Undisturbed'
<1>1. c \in Running /\ calls[c].step = "count" /\ scheduled # {} /\ Return(c)
      /\ UNCHANGED <<user, chosen, writes, loading, cache, saved, scheduled, disturbed>>
  BY DEF Skips, At, Running, prefs
<1>2. ~disturbed => calls[c].whole /\ CacheTold /\ cache[user] = calls[c].settings
  <2>1. calls[c].whole => cache[user] = calls[c].settings
    BY <1>1, Alone DEF Done
  <2>2. ~disturbed => CacheTold
    BY <1>1, Alone DEF AlarmInv, Undisturbed, NothingDone
  <2> QED
    BY <1>1, <2>1, <2>2, Alone
<1>3. ~disturbed /\ Quiet => calls[c].settings = chosen[user]
  BY <1>1 DEF AlarmInv, Undisturbed, Running
<1>4. calls[c].settings # None
  BY <1>1, Alone, Numbers, AlarmConstants
<1> QED
  BY <1>1, <1>2, <1>3, <1>4, EndOK DEF CacheTold

LEMMA NonePendingOK ==
    ASSUME AlarmInv, NEW c \in Callers, NonePending(c)
    PROVE  LastWriteOK' /\ WholeOK' /\ Undisturbed'
<1>1. c \in Running /\ calls[c].step = "count" /\ scheduled = {} /\ Remember(c, calls[c])
      /\ UNCHANGED <<user, chosen, writes, loading, online, saved, scheduled>>
  BY DEF NonePending, At, Running
<1>2. calls[c] \in Call
  BY <1>1, Alone
<1>3. calls[c].whole => calls[c].user = user
  BY <1>1, Alone
<1> QED
  BY <1>1, <1>2, <1>3, RememberOK

LEMMA SavePreferenceOK ==
    ASSUME AlarmInv, NEW c \in Callers, SavePreference(c)
    PROVE  LastWriteOK' /\ WholeOK' /\ Undisturbed'
<1> DEFINE call == calls[c]
           i == call.next
<1>1. c \in Running /\ call.step = "save" /\ i \in 1..4
      /\ UNCHANGED <<user, chosen, writes, loading, cache, scheduled>>
  BY Alone DEF SavePreference, At, Running, StepOK
<1>2. /\ saved' = [saved EXCEPT ![call.user][Keys[i]] = call.settings[Keys[i]]]
      /\ i < 4 => Continue(c, call, "save", i + 1)
      /\ i = 4 => Continue(c, call, "cancel", 1)
  BY <1>1, KeyType DEF SavePreference, GoTo
<1>3. call \in Call /\ call.settings \in Settings
  BY <1>1, Alone, Numbers
<1>4. /\ calls'[c].settings = call.settings /\ calls'[c].user = call.user
      /\ calls'[c].whole = call.whole
      /\ Running' = Running /\ disturbed' = disturbed
      /\ \A k \in Running : k # c => calls'[k] = calls[k]
  <2>1. "save" \in Steps /\ "cancel" \in Steps
    BY DEF Steps
  <2>2. CASE i < 4
    <3>1. Continue(c, call, "save", i + 1) /\ i + 1 \in 1..(MaxSlots + 4)
      BY <1>1, <1>2, <2>2, AlarmConstants
    <3> HIDE DEF i, call
    <3> QED
      BY <1>1, <1>3, <2>1, <3>1, GoesOn DEF Continue
  <2>3. CASE i = 4
    <3>1. Continue(c, call, "cancel", 1) /\ 1 \in 1..(MaxSlots + 4)
      BY <1>1, <1>2, <2>3, AlarmConstants
    <3> HIDE DEF i, call
    <3> QED
      BY <1>1, <1>3, <2>1, <3>1, GoesOn DEF Continue
  <2> QED
    BY <1>1, <2>2, <2>3
<1>5. /\ i < 4 => calls'[c].step = "save" /\ calls'[c].next = i + 1
      /\ i = 4 => calls'[c].step = "cancel"
  <2> DEFINE n == i + 1
  <2>1. i < 4 => Continue(c, call, "save", n)
    BY <1>2
  <2>2. i = 4 => Continue(c, call, "cancel", 1)
    BY <1>2
  <2> HIDE DEF n, i
  <2>3. i < 4 => calls'[c].step = "save" /\ calls'[c].next = n
    BY <1>1, <1>3, <2>1 DEF Continue, AlarmInv, AlarmTypeOK, Call, Running
  <2>4. i = 4 => calls'[c].step = "cancel"
    BY <1>1, <1>3, <2>2 DEF Continue, AlarmInv, AlarmTypeOK, Call, Running
  <2> QED
    BY <2>3, <2>4 DEF n
<1>6. call.whole => /\ call.user = user /\ cache[user] = call.settings
                    /\ \A j \in 1..i : saved'[user][Keys[j]] = call.settings[Keys[j]]
  <2> SUFFICES ASSUME call.whole
               PROVE  /\ call.user = user /\ cache[user] = call.settings
                      /\ \A j \in 1..i : saved'[user][Keys[j]] = call.settings[Keys[j]]
    OBVIOUS
  <2>1. call.user = user /\ cache[user] = call.settings /\ Saved(call, i - 1)
    BY <1>1, Alone DEF Done
  <2>2. saved[user] \in Settings /\ user \in Users /\ saved \in [Users -> Settings]
    BY DEF AlarmInv, AlarmTypeOK
  <2>3. saved'[user] = [saved[user] EXCEPT ![Keys[i]] = call.settings[Keys[i]]]
    BY <1>2, <2>1, <2>2
  <2>4. \A j \in 1..4 : Keys[j] \in DOMAIN saved[user]
    BY <2>2, KeyType DEF Settings, KeySet
  <2>5. ASSUME NEW j \in 1..i
        PROVE  saved'[user][Keys[j]] = call.settings[Keys[j]]
    <3>1. CASE j = i
      BY <1>1, <2>3, <2>4, <3>1
    <3>2. CASE j # i
      <4>1. j \in 1..(i - 1) /\ Keys[j] # Keys[i]
        BY <1>1, <3>2 DEF Keys
      <4> QED
        BY <1>1, <2>1, <2>3, <2>4, <4>1 DEF Saved
    <3> QED
      BY <3>1, <3>2
  <2> QED
    BY <2>1, <2>5
<1>7. call.whole /\ i = 4 => saved'[user] = call.settings
  <2> SUFFICES ASSUME call.whole, i = 4
               PROVE  saved'[user] = call.settings
    OBVIOUS
  <2>1. saved'[user] \in Settings
    BY InvTyped, ProceedTyped DEF Proceed, Typed, AlarmTypeOK
  <2>2. \A j \in 1..4 : saved'[user][Keys[j]] = call.settings[Keys[j]]
    BY <1>6
  <2>3. /\ saved'[user].startHour = call.settings.startHour /\ saved'[user].endHour = call.settings.endHour
        /\ saved'[user].intervalMinutes = call.settings.intervalMinutes
        /\ saved'[user].alarmOn = call.settings.alarmOn
    BY <2>2 DEF Keys
  <2> QED
    BY <1>3, <2>1, <2>3 DEF Settings
<1>8. call.whole => Done(calls[c])'
  <2>1. CASE i < 4
    BY <1>1, <1>4, <1>5, <1>6, <2>1 DEF Done, Saved
  <2>2. CASE i = 4
    BY <1>1, <1>4, <1>5, <1>6, <1>7, <2>2 DEF Done
  <2> QED
    BY <1>1, <2>1, <2>2
<1>9. ~NothingDone(c)' /\ calls'[c].step # "clear"
  BY <1>1, <1>5 DEF NothingDone
<1>10. ~disturbed /\ Quiet => call.settings = chosen[user]
  BY <1>1 DEF AlarmInv, Undisturbed, Running
<1> QED
  BY <1>1, <1>4, <1>6, <1>8, <1>9, <1>10, AdvanceOK

LEMMA CancelAllOK ==
    ASSUME AlarmInv, NEW c \in Callers, CancelAll(c)
    PROVE  LastWriteOK' /\ WholeOK' /\ Undisturbed'
<1> DEFINE call == calls[c]
<1>1. c \in Running /\ call.step = "cancel" /\ scheduled' = {}
      /\ UNCHANGED <<user, chosen, writes, loading, cache, saved>>
  BY DEF CancelAll, At, Running, prefs
<1>2. call \in Call
  BY <1>1, Alone
<1>3. CASE call.settings.alarmOn
  <2>1. Continue(c, call, "schedule", 1) /\ "schedule" \in Steps /\ 1 \in 1..(MaxSlots + 4)
    BY <1>3, Numbers DEF CancelAll, GoTo, Steps
  <2>2. calls'[c].step = "schedule" /\ calls'[c].next = 1
    BY <1>1, <1>2, <2>1 DEF Continue, AlarmInv, AlarmTypeOK, Call, Running
  <2>3. /\ calls'[c].settings = call.settings /\ calls'[c].user = call.user
        /\ calls'[c].whole = call.whole
        /\ Running' = Running /\ disturbed' = disturbed
        /\ \A k \in Running : k # c => calls'[k] = calls[k]
    <3> HIDE DEF call
    <3> QED
      BY <1>1, <1>2, <2>1, GoesOn DEF Continue
  <2>4. FirstAlarms(call.settings, 0) = {}
    BY DEF FirstAlarms
  <2>5. call.whole => call.user = user /\ Done(calls[c])'
    BY <1>1, <2>2, <2>3, <2>4, Alone DEF Done
  <2>6. ~NothingDone(c)'
    BY <2>2 DEF NothingDone
  <2>7. ~disturbed /\ Quiet => call.settings = chosen[user]
    BY <1>1 DEF AlarmInv, Undisturbed, Running
  <2> QED
    BY <1>1, <2>2, <2>3, <2>5, <2>6, <2>7, AdvanceOK
<1>4. CASE ~call.settings.alarmOn
  <2>1. Finish(c)
    BY <1>4 DEF CancelAll
  <2>2. scheduled' = AlarmsOf(call.settings)
    BY <1>1, <1>4 DEF AlarmsOf
  <2> QED
    BY <1>1, <2>1, <2>2, FinishOK
<1> QED
  BY <1>3, <1>4

LEMMA ScheduleSlotOK ==
    ASSUME AlarmInv, NEW c \in Callers, ScheduleSlot(c)
    PROVE  LastWriteOK' /\ WholeOK' /\ Undisturbed'
<1> DEFINE call == calls[c]
           n == call.next
<1>1. c \in Running /\ call.step = "schedule" /\ Continue(c, call, "log", n)
      /\ UNCHANGED <<user, chosen, writes, loading, cache, saved>>
  BY DEF ScheduleSlot, At, Running, prefs, GoTo
<1>2. call \in Call /\ call.settings \in Settings /\ n \in 1..SlotCount(call.settings)
      /\ n \in 1..(MaxSlots + 4)
  BY <1>1, Alone, Numbers DEF StepOK
<1>3. scheduled' = {a \in scheduled : a.id # Alarm(call.settings, n).id} \cup {Alarm(call.settings, n)}
  BY DEF ScheduleSlot
<1>4. /\ calls'[c].settings = call.settings /\ calls'[c].user = call.user
      /\ calls'[c].whole = call.whole
      /\ Running' = Running /\ disturbed' = disturbed
      /\ \A k \in Running : k # c => calls'[k] = calls[k]
  <2>1. "log" \in Steps
    BY DEF Steps
  <2> HIDE DEF call, n
  <2> QED
    BY <1>1, <1>2, <2>1, GoesOn DEF Continue
<1>5. calls'[c].step = "log" /\ calls'[c].next = n
  <2> HIDE DEF n
  <2> QED
    BY <1>1, <1>2 DEF Continue, AlarmInv, AlarmTypeOK, Call, Running
<1>6. call.whole => scheduled' = FirstAlarms(call.settings, n)
  <2>1. call.whole => scheduled = FirstAlarms(call.settings, n - 1)
    BY <1>1, Alone DEF Done
  <2> QED
    BY <1>2, <1>3, <2>1, FirstAlarmsStep
<1>7. call.whole => call.user = user /\ Done(calls[c])'
  BY <1>1, <1>4, <1>5, <1>6, Alone DEF Done
<1>8. ~NothingDone(c)'
  BY <1>5 DEF NothingDone
<1>9. ~disturbed /\ Quiet => call.settings = chosen[user]
  BY <1>1 DEF AlarmInv, Undisturbed, Running
<1> QED
  BY <1>1, <1>4, <1>5, <1>7, <1>8, <1>9, AdvanceOK

LEMMA ScheduleFailsOK ==
    ASSUME AlarmInv, NEW c \in Callers, ScheduleFails(c)
    PROVE  LastWriteOK' /\ WholeOK' /\ Undisturbed'
<1>1. c \in Running /\ disturbed' = TRUE /\ UNCHANGED <<user, chosen, writes, loading>>
      /\ calls' = [calls EXCEPT ![c] = [calls[c] EXCEPT !.step = "log", !.whole = FALSE]]
  BY DEF ScheduleFails, At, Running, prefs
<1>2. calls[c] \in Call /\ [calls[c] EXCEPT !.step = "log", !.whole = FALSE] \in Call
      /\ [calls[c] EXCEPT !.step = "log", !.whole = FALSE].whole = FALSE
  BY <1>1, Alone DEF Call, Steps
<1>3. Running' = Running /\ calls'[c].whole = FALSE /\ \A k \in Running : k # c => calls'[k] = calls[k]
  BY <1>1, <1>2, IdleAssumption DEF Running, AlarmInv, AlarmTypeOK
<1>4. WholeOK'
  BY <1>1, <1>3, Alone DEF WholeOK
<1>5. LastWriteOK' /\ Undisturbed'
  BY <1>1 DEF AlarmInv, LastWriteOK, Undisturbed
<1> QED
  BY <1>4, <1>5

LEMMA LogAcknowledgedOK ==
    ASSUME AlarmInv, NEW c \in Callers, LogAcknowledged(c)
    PROVE  LastWriteOK' /\ WholeOK' /\ Undisturbed'
<1> DEFINE call == calls[c]
           n == call.next
<1>1. c \in Running /\ call.step = "log"
      /\ UNCHANGED <<user, chosen, writes, loading, cache, saved, scheduled>>
  BY DEF LogAcknowledged, At, Running, prefs
<1>2. call \in Call /\ call.settings \in Settings /\ n \in 1..SlotCount(call.settings)
      /\ call.settings.alarmOn
  BY <1>1, Alone, Numbers DEF StepOK
<1>3. SlotCount(call.settings) \in 1..MaxSlots
  BY <1>2, SlotCountType
<1>4. call.whole => call.user = user /\ Done(call)
  BY <1>1, Alone
<1>5. ~disturbed /\ Quiet => call.settings = chosen[user]
  BY <1>1 DEF AlarmInv, Undisturbed, Running
<1>6. CASE n < SlotCount(call.settings)
  <2> DEFINE m == n + 1
  <2>1. Continue(c, call, "schedule", m) /\ "schedule" \in Steps /\ m \in 1..(MaxSlots + 4) /\ m - 1 = n
    BY <1>2, <1>3, <1>6, AlarmConstants DEF LogAcknowledged, GoTo, Steps
  <2> HIDE DEF m
  <2>2. calls'[c].step = "schedule" /\ calls'[c].next = m
    BY <1>1, <1>2, <2>1 DEF Continue, AlarmInv, AlarmTypeOK, Call, Running
  <2>3. /\ calls'[c].settings = call.settings /\ calls'[c].user = call.user
        /\ calls'[c].whole = call.whole
        /\ Running' = Running /\ disturbed' = disturbed
        /\ \A k \in Running : k # c => calls'[k] = calls[k]
    <3> HIDE DEF call
    <3> QED
      BY <1>1, <1>2, <2>1, GoesOn DEF Continue
  <2>4. call.whole => Done(calls[c])'
    BY <1>1, <1>4, <2>1, <2>2, <2>3 DEF Done
  <2>5. ~NothingDone(c)'
    BY <2>2 DEF NothingDone
  <2> QED
    BY <1>1, <1>4, <1>5, <2>2, <2>3, <2>4, <2>5, AdvanceOK
<1>7. CASE ~(n < SlotCount(call.settings))
  <2>1. Continue(c, call, "report", 1) /\ "report" \in Steps /\ 1 \in 1..(MaxSlots + 4)
    BY <1>7, Numbers DEF LogAcknowledged, GoTo, Steps
  <2>2. calls'[c].step = "report"
    BY <1>1, <1>2, <2>1 DEF Continue, AlarmInv, AlarmTypeOK, Call, Running
  <2>3. /\ calls'[c].settings = call.settings /\ calls'[c].user = call.user
        /\ calls'[c].whole = call.whole
        /\ Running' = Running /\ disturbed' = disturbed
        /\ \A k \in Running : k # c => calls'[k] = calls[k]
    <3> HIDE DEF call
    <3> QED
      BY <1>1, <1>2, <2>1, GoesOn DEF Continue
  <2>4. n = SlotCount(call.settings)
    BY <1>2, <1>3, <1>7
  <2>5. call.whole => scheduled = AlarmsOf(call.settings)
    BY <1>1, <1>2, <1>4, <2>4 DEF Done, AlarmsOf
  <2>6. call.whole => Done(calls[c])'
    BY <1>1, <1>4, <2>2, <2>3, <2>5 DEF Done
  <2>7. ~NothingDone(c)'
    BY <2>2 DEF NothingDone
  <2> QED
    BY <1>1, <1>4, <1>5, <2>2, <2>3, <2>6, <2>7, AdvanceOK
<1> QED
  BY <1>6, <1>7

LEMMA ReportAcknowledgedOK ==
    ASSUME AlarmInv, NEW c \in Callers, ReportAcknowledged(c)
    PROVE  LastWriteOK' /\ WholeOK' /\ Undisturbed'
<1>1. c \in Running /\ calls[c].step = "report" /\ Finish(c)
      /\ UNCHANGED <<user, chosen, writes, loading, cache, saved, scheduled>>
  BY DEF ReportAcknowledged, At, Running, prefs
<1>2. calls[c].whole => scheduled' = AlarmsOf(calls[c].settings)
  BY <1>1, Alone DEF Done
<1> QED
  BY <1>1, <1>2, FinishOK

\* The callers and the environment.
LEMMA AppResumedOK ==
    ASSUME AlarmInv, NEW c \in Callers, AppResumed(c)
    PROVE  LastWriteOK' /\ WholeOK' /\ Undisturbed'
<1>1. saved[user] \in Settings
  BY DEF AlarmInv, AlarmTypeOK
<1>2. LastWriteOK'
  BY DEF AppResumed, AlarmInv, LastWriteOK
<1>3. ~disturbed /\ Running = {} /\ Quiet' => saved[user] = chosen[user]
  BY DEF AppResumed, AlarmInv, Undisturbed, Quiet
<1>4. Start(c, saved[user], "clear", TRUE) /\ UNCHANGED <<user, chosen, prefs, scheduled>>
  BY DEF AppResumed
<1> QED
  BY <1>1, <1>2, <1>3, <1>4, StartOK

LEMMA HomeLoadedOK ==
    ASSUME AlarmInv, NEW c \in Callers, NEW u \in Users, HomeLoaded(c, u)
    PROVE  LastWriteOK' /\ WholeOK' /\ Undisturbed'
<1>1. chosen[u] \in Settings
  BY DEF AlarmInv, AlarmTypeOK
<1>2. LastWriteOK'
  BY DEF HomeLoaded, AlarmInv, LastWriteOK
<1> DEFINE mine == u = user
<1>3. Start(c, chosen[u], "compare", mine) /\ UNCHANGED <<user, chosen, prefs, scheduled>>
  BY DEF HomeLoaded
<1>4. mine => chosen[u] = chosen[user]
  OBVIOUS
<1>5. mine \in BOOLEAN
  OBVIOUS
<1> HIDE DEF mine
<1> QED
  BY <1>1, <1>2, <1>3, <1>4, <1>5, StartOK

LEMMA SameKey ==
    ASSUME NEW s \in Settings, NEW key \in KeySet, NEW v, s[key] = v
    PROVE  [s EXCEPT ![key] = v] = s
BY DEF Settings, KeySet

LEMMA WriteAcknowledgedOK ==
    ASSUME AlarmInv, NEW c \in Callers, WriteAcknowledged(c)
    PROVE  LastWriteOK' /\ WholeOK' /\ Undisturbed'
<1> DEFINE w == Head(writes)
           t == [Fields(w) EXCEPT ![w.key] = w.value]
           shown == w.left = None
<1>1. writes # << >> /\ writes \in Seq(Write) /\ w \in Write /\ t \in Settings
      /\ writes' = Tail(writes) /\ UNCHANGED <<user, chosen, loading, prefs, scheduled>>
  BY InvTyped, HeadType DEF WriteAcknowledged, AlarmInv, AlarmTypeOK
<1>2. Start(c, t, "compare", shown)
  BY DEF WriteAcknowledged, Fields
<1>3. LastWriteOK'
  <2> SUFFICES ASSUME Tail(writes) # << >>
               PROVE  LastWriteOK'
    BY <1>1 DEF LastWriteOK
  <2>1. Tail(writes)[Len(Tail(writes))] = writes[Len(writes)]
    BY <1>1
  <2> QED
    BY <1>1, <2>1 DEF LastWriteOK, AlarmInv
<1>4. shown /\ Quiet' => t = chosen[user]
  <2> SUFFICES ASSUME shown, Tail(writes) = << >>
               PROVE  t = chosen[user]
    BY <1>1 DEF Quiet
  <2>1. w = writes[Len(writes)]
    <3> DEFINE n == Len(writes)
               m == Len(Tail(writes))
    <3>1. m = n - 1 /\ n \in Nat
      BY <1>1
    <3>2. m = 0
      <4> DEFINE rest == Tail(writes)
      <4>1. rest = << >>
        OBVIOUS
      <4> HIDE DEF rest
      <4>2. Len(rest) = 0
        BY <4>1
      <4> QED
        BY <4>2 DEF rest
    <3>3. n = 1
      <4> HIDE DEF n, m
      <4> QED
        BY <3>1, <3>2
    <3> QED
      BY <1>1, <3>3
  <2>2. chosen[user][w.key] = w.value /\ Fields(w) = chosen[user]
    BY <1>1, <2>1 DEF AlarmInv, LastWriteOK, Fields
  <2>3. chosen[user] \in Settings /\ w.key \in KeySet
    BY <1>1, WriteType DEF AlarmInv, AlarmTypeOK
  <2> QED
    BY <2>2, <2>3, SameKey
<1>5. shown \in BOOLEAN
  OBVIOUS
<1> HIDE DEF t, shown
<1> QED
  BY <1>1, <1>2, <1>3, <1>4, <1>5, StartOK

LEMMA HomeRebuiltOK ==
    ASSUME AlarmInv, HomeRebuilt
    PROVE  LastWriteOK' /\ WholeOK' /\ Undisturbed'
<1>1. loading' # {} /\ UNCHANGED <<user, chosen, writes, prefs, scheduled, calls, disturbed>>
  BY DEF HomeRebuilt
<1> QED
  BY <1>1 DEF AlarmInv, LastWriteOK, WholeOK, Done, Saved, Undisturbed, Quiet, Running, NothingDone,
              CacheTold, prefs

LEMMA ChooseOK ==
    ASSUME AlarmInv, NEW s \in Settings, NEW key \in KeySet, Choose(key, s[key])
    PROVE  LastWriteOK' /\ WholeOK' /\ Undisturbed'
<1> DEFINE new == [key |-> key, value |-> s[key], left |-> None]
<1>1. /\ writes' = Append(writes, new) /\ writes \in Seq(Write) /\ new \in Write
      /\ chosen' = [chosen EXCEPT ![user][key] = s[key]]
      /\ UNCHANGED <<user, loading, prefs, scheduled, calls, disturbed>>
  BY WriteMade DEF Choose, AlarmInv, AlarmTypeOK
<1>2. writes' # << >> /\ writes'[Len(writes')] = new
  BY <1>1
<1>3. chosen'[user][key] = s[key]
  <2>1. chosen[user] \in Settings /\ key \in DOMAIN chosen[user] /\ chosen'[user] = [chosen[user] EXCEPT ![key] = s[key]]
    BY <1>1 DEF AlarmInv, AlarmTypeOK, Settings, KeySet
  <2> QED
    BY <2>1
<1>4. LastWriteOK'
  BY <1>1, <1>2, <1>3 DEF LastWriteOK
<1>5. ~Quiet'
  BY <1>2 DEF Quiet
<1>6. WholeOK'
  BY <1>1 DEF AlarmInv, WholeOK, Done, Saved, Running, prefs
<1>7. Undisturbed'
  BY <1>1, <1>5 DEF AlarmInv, Undisturbed, Running, NothingDone, CacheTold, prefs
<1> QED
  BY <1>4, <1>6, <1>7

LEMMA RestartOK ==
    ASSUME AlarmInv, Restart
    PROVE  LastWriteOK' /\ WholeOK' /\ Undisturbed'
<1>1. Running' = {} /\ loading' # {} /\ writes' = << >> /\ scheduled' \in {scheduled, {}}
      /\ UNCHANGED <<user, cache, saved>> /\ (~disturbed' => ~disturbed /\ Running = {})
  BY DEF Restart, Running, prefs, AlarmInv, AlarmTypeOK
<1>2. ~disturbed' => CacheTold'
  <2>1. ~disturbed' => CacheTold
    BY <1>1 DEF AlarmInv, Undisturbed
  <2> QED
    BY <1>1, <2>1 DEF CacheTold
<1> QED
  BY <1>1, <1>2 DEF LastWriteOK, WholeOK, Undisturbed, Quiet

LEMMA SwitchUserOK ==
    ASSUME AlarmInv, NEW u \in Users, SwitchUser(u)
    PROVE  LastWriteOK' /\ WholeOK' /\ Undisturbed'
<1>1. LastWriteOK'
  <2>1. CASE writes' = << >>
    BY <2>1 DEF LastWriteOK
  <2>2. CASE writes' = [i \in DOMAIN writes |-> Leave(writes[i])]
    <3>1. \A i \in DOMAIN writes : Leave(writes[i]).left # None
      <4> TAKE i \in DOMAIN writes
      <4>1. writes[i] \in Write /\ chosen[user] \in Settings
        BY DEF AlarmInv, AlarmTypeOK
      <4>2. writes[i].left = None => Leave(writes[i]).left = chosen[user]
        BY <4>1 DEF Leave, Write
      <4> QED
        BY <4>1, <4>2, AlarmConstants DEF Leave
    <3>2. writes' # << >> => Len(writes') \in DOMAIN writes
      BY <2>2 DEF AlarmInv, AlarmTypeOK
    <3> QED
      BY <2>2, <3>1, <3>2 DEF LastWriteOK
  <2> QED
    BY <2>1, <2>2 DEF SwitchUser
<1>2. \A k \in Callers : k \in Running' => calls'[k].whole = FALSE
  <2> TAKE k \in Callers
  <2>1. k \in Running => calls[k] \in Call /\ calls'[k] = [calls[k] EXCEPT !.whole = FALSE]
    BY RunningType DEF SwitchUser, AlarmInv
  <2>2. k \notin Running => k \notin Running'
    BY DEF SwitchUser, Running
  <2> QED
    BY <2>1, <2>2 DEF Call
<1>3. disturbed'
  BY DEF SwitchUser
<1> QED
  BY <1>1, <1>2, <1>3 DEF WholeOK, Undisturbed

LEMMA InvStep == AlarmInv /\ [AlarmNext]_alarmVars => AlarmInv'
<1> SUFFICES ASSUME AlarmInv, [AlarmNext]_alarmVars
             PROVE  AlarmInv'
  OBVIOUS
<1> DEFINE Kept == LastWriteOK' /\ WholeOK' /\ Undisturbed'
<1>1. ASSUME NEW c \in Callers, Proceed(c)
      PROVE  Kept
  BY <1>1, ClearAllOK, ForgetCacheOK, CompareOK, SkipsOK, NonePendingOK, SavePreferenceOK, CancelAllOK,
     ScheduleSlotOK, ScheduleFailsOK, LogAcknowledgedOK, ReportAcknowledgedOK DEF Proceed
<1>2. ASSUME NEW c \in Callers, AppResumed(c) \/ WriteAcknowledged(c) \/ \E u \in Users : HomeLoaded(c, u)
      PROVE  Kept
  BY <1>2, AppResumedOK, WriteAcknowledgedOK, HomeLoadedOK
<1>3. ASSUME HomeRebuilt
      PROVE  Kept
  BY <1>3, HomeRebuiltOK
<1>4. ASSUME Restart \/ \E u \in Users : SwitchUser(u)
      PROVE  Kept
  BY <1>4, RestartOK, SwitchUserOK
<1>5. ASSUME NEW s \in Settings, NEW key \in KeySet, Choose(key, s[key])
      PROVE  Kept
  BY <1>5, ChooseOK
<1>6. ASSUME Connectivity \/ UNCHANGED alarmVars
      PROVE  Kept
  <2>1. UNCHANGED <<user, chosen, writes, loading, cache, saved, scheduled, calls, disturbed>>
    BY <1>6 DEF Connectivity, alarmVars, prefs
  <2> QED
    BY <2>1 DEF AlarmInv, LastWriteOK, WholeOK, Done, Saved, Undisturbed, Quiet, Running, NothingDone, CacheTold
<1>7. Kept
  BY <1>1, <1>2, <1>3, <1>4, <1>5, <1>6 DEF AlarmNext, KeySet
<1>8. Typed'
  BY InvTyped, TypedStep
<1> QED
  BY <1>7, <1>8 DEF AlarmInv, Typed

LEMMA InvAlways == AlarmSpec => []AlarmInv
BY InitInv, InvStep, PTL DEF AlarmSpec

\* Whatever calls overlapped, failed or died before, once a call for the user's
\* settings has run alone to its end the alarms the system holds are those of the
\* settings whenever nothing is under way, until the next disturbance.
THEOREM AlarmsFollowSettingsAlways == AlarmSpec => []AlarmsFollowSettings
<1>1. AlarmInv => AlarmsFollowSettings
  BY DEF AlarmInv, Undisturbed, Quiet, AlarmsFollowSettings, AtRest
<1> QED
  BY InvAlways, <1>1, PTL

\* Then the preferences that the return to the foreground reads are the
\* user's settings as well.
THEOREM PreferencesFollowSettingsAlways == AlarmSpec => []PreferencesFollowSettings
<1>1. AlarmInv => PreferencesFollowSettings
  BY DEF AlarmInv, Undisturbed, Quiet, PreferencesFollowSettings, AtRest
<1> QED
  BY InvAlways, <1>1, PTL

\* At rest and undisturbed the alarms ring in the active hours of the user's
\* window and at the bed hour, for all hours and intervals, on both platforms.
THEOREM AlarmsRingAwakeAlways ==
    ASSUME MaxSlots >= 48
    PROVE  AlarmSpec => []AlarmsRingAwake
<1>1. AlarmInv => AlarmsRingAwake
  <2> SUFFICES ASSUME AlarmInv, AtRest, ~disturbed
               PROVE  {a.minute \div 60 : a \in scheduled} = HoursDue(chosen[user])
    BY DEF AlarmsRingAwake
  <2> DEFINE s == chosen[user]
  <2>1. s \in Settings /\ scheduled = AlarmsOf(s)
    BY DEF AlarmInv, AlarmTypeOK, Undisturbed, Quiet, AtRest
  <2>0. CASE ~s.alarmOn
    BY <2>0, <2>1 DEF AlarmsOf, HoursDue
  <2>2. SlotCount(s) = SlotsADay(s)
    BY <2>1, SlotsFit, AlarmConstants DEF SlotCount
  <2>3. s.alarmOn => scheduled = {Alarm(s, i) : i \in 1..SlotsADay(s)}
    BY <2>1, <2>2 DEF AlarmsOf, FirstAlarms
  <2> HIDE DEF s
  <2>4. ASSUME s.alarmOn
        PROVE  {a.minute : a \in scheduled} = LoopMinutes(s)
    <3>1. {a.minute : a \in scheduled} = {SlotMinute(s, i) : i \in 1..SlotsADay(s)}
      <4>1. \A i \in 1..SlotsADay(s) : Alarm(s, i).minute = SlotMinute(s, i)
        BY DEF Alarm
      <4>2. ASSUME NEW i \in 1..SlotsADay(s)
            PROVE  SlotMinute(s, i) \in {a.minute : a \in scheduled}
        BY <2>3, <2>4, <4>1
      <4>3. ASSUME NEW a \in scheduled
            PROVE  a.minute \in {SlotMinute(s, i) : i \in 1..SlotsADay(s)}
        BY <2>3, <2>4, <4>1
      <4> QED
        BY <4>2, <4>3
    <3> QED
      BY <2>1, <3>1, SlotsOfLoops
  <2>5. CASE s.alarmOn
    <3>1. {a.minute \div 60 : a \in scheduled} = {t \div 60 : t \in LoopMinutes(s)}
      BY <2>4, <2>5
    <3> QED
      BY <2>1, <2>5, <3>1, LoopsAreAwake DEF HoursDue, s
  <2> QED
    BY <2>0, <2>5
<1> QED
  BY InvAlways, <1>1, PTL
=============================================================================
