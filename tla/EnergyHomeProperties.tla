------------------------ MODULE EnergyHomeProperties ------------------------
(***************************************************************************)
(* What the editor of a day and the documents promise each other.          *)
(***************************************************************************)
EXTENDS EnergyHome

\* Every variable holds a value of its type.  Docs makes one thing more than a
\* type of it: a stored total is the total of the stored records in the
\* stored window.
TypeOK ==
    /\ server \in [Dates -> Docs \cup {NoDoc}]
    /\ cache \in [Dates -> Docs \cup {NoDoc, Unknown}]
    /\ inflight \subseteq Write
    /\ signedIn \in BOOLEAN
    /\ tab \in {"home", "trend"}
    /\ initialDate \in Dates \cup {NoDate}
    /\ selectedDate \in Dates
    /\ selectedHour \in Hours \cup {NoHour}
    /\ isNextDay \in BOOLEAN
    /\ localWindow \in AllWindows
    /\ defaultWindow \in AllWindows
    /\ loading \in BOOLEAN
    /\ snapshot \in Docs \cup {NoDoc, Unknown}
    /\ optimistic \in Records
    /\ pending \in [hour : Hours, minutes : Minutes, edit : 1..MaxEdits] \cup {NoPending}
    /\ debounce \in BOOLEAN
    /\ isSaveError \in BOOLEAN
    /\ edits \in Seq(Edit) /\ Len(edits) <= MaxEdits
    /\ lost \subseteq 1..MaxEdits

-----------------------------------------------------------------------------
(* The pending edit *)

\* An edit waits exactly while a timer will send it: no handler leaves an
\* edit that nothing will send, or a timer that will send nothing.
PendingIsArmed == pending # NoPending <=> debounce

\* While an edit waits its hour is the selected hour, so that the branch of
\* _updateEnergy that flushes an edit of another hour is never needed.
PendingHourIsSelected == pending # NoPending => pending.hour = selectedHour

\* The user always sees the value that is about to be sent: no change of day,
\* hour or screen hides it before it is sent.
PendingIsShown == pending # NoPending => Shown[pending.hour] = pending.minutes

\* The edit of day d and hour h the user made last; 0 if there is none, or
\* the document was deleted after it.
LatestEdit(d, h) ==
    LET touches(i) == edits[i].date = d /\ \/ edits[i].kind = "delete"
                                           \/ edits[i].hour = h
        last == {i \in DOMAIN edits :
                     touches(i) /\ \A j \in DOMAIN edits : touches(j) => j <= i}
    IN  IF \E i \in last : edits[i].kind = "energy"
        THEN CHOOSE i \in last : TRUE ELSE 0

IsWaiting(i) == \/ pending # NoPending /\ pending.edit = i
                \/ \E u \in inflight : u.edit = i

-----------------------------------------------------------------------------
(* The documents *)

\* Gesture i entered m minutes for hour h of day d.
Entered(i, d, h, m) ==
    /\ i \in DOMAIN edits
    /\ edits[i].kind = "energy"
    /\ edits[i].date = d /\ edits[i].hour = h /\ edits[i].minutes = m

\* A minute value stored for an hour of a day was entered by the user for
\* that hour of that day, whatever happened between the edit and its save.
StoredWhereEntered ==
    \A d \in Dates, h \in Hours :
        RecordsOf(server[d])[h] # Unset =>
            \E i \in DOMAIN edits : Entered(i, d, h, RecordsOf(server[d])[h])

\* The last value the user entered for an hour is stored, unless it waits, is
\* in flight, or its write failed, was dropped, or committed before an older
\* write of the same hour or an older deletion of the day: coalescing,
\* flushing, changes of day, new screens, restarts and any other order of the
\* commits lose nothing else.
LatestEditWins ==
    \A d \in Dates, h \in Hours :
        LET i == LatestEdit(d, h)
        IN  i # 0 /\ ~IsWaiting(i) /\ i \notin lost =>
                RecordsOf(server[d])[h] = edits[i].minutes

\* A write changes the records of one day, and of that day one hour, unless
\* it is the deletion of the document: a transaction keeps what other
\* transactions stored while it waited.
OneHourPerWrite ==
    [][\A d1, d2 \in Dates, h1, h2 \in Hours :
          /\ RecordsOf(server[d1])[h1] # RecordsOf(server'[d1])[h1]
          /\ RecordsOf(server[d2])[h2] # RecordsOf(server'[d2])[h2]
          => d1 = d2 /\ (h1 = h2 \/ server'[d1] = NoDoc)]_vars

-----------------------------------------------------------------------------
(* The screen and the document *)

\* Nothing is under way: no edit waits, no write is in flight, and the
\* stream has delivered the stored document.
Quiet ==
    /\ signedIn /\ pending = NoPending /\ inflight = {}
    /\ snapshot = server[selectedDate]

\* The value entered last for an hour of the day on the screen is not the one
\* the document has: its write is lost, or the day was deleted after it.
\* Nothing tells the screen: the comment in _flushPending leaves the value among
\* the optimistic records because the stream will overwrite it, but build lays
\* it over the stream's records for as long as the day stays.
Overruled(h) ==
    \E i \in DOMAIN edits :
        /\ Entered(i, selectedDate, h, optimistic[h])
        /\ \A j \in DOMAIN edits :
               Entered(j, selectedDate, h, edits[j].minutes) => j <= i
        /\ \/ i \in lost
           \/ \E j \in DOMAIN edits :
                  j > i /\ edits[j].kind = "delete" /\ edits[j].date = selectedDate

ShownAsStored(h) == Shown[h] = RecordsOf(server[selectedDate])[h]

\* At rest, whether the indicator of save errors is green or red, every hour of
\* the screen shows what is stored for it, but for the hours whose last value
\* the document lost; and where all hours do, the total on the screen is the
\* stored one, although the service and the screen compute it apart.
ShownIsStored ==
    Quiet =>
        /\ \A h \in Hours : ShownAsStored(h) \/ Overruled(h)
        /\ server[selectedDate] # NoDoc /\ (\A h \in Hours : ShownAsStored(h)) =>
               ShownTotal = server[selectedDate].totalActiveMinutes

\* The values laid over the stream's were entered for the day on the screen.
OptimisticIsThisDay ==
    \A h \in Hours : optimistic[h] # Unset =>
        \E i \in DOMAIN edits : Entered(i, selectedDate, h, optimistic[h])

-----------------------------------------------------------------------------
(* The window of active hours *)

\* At rest a day has the window the user saved for it last.
SavedWindowStays ==
    \A i \in DOMAIN edits :
        /\ edits[i].kind = "window" /\ i \notin lost
        /\ pending = NoPending /\ inflight = {}
        /\ \A j \in DOMAIN edits :
               j > i /\ edits[j].date = edits[i].date => edits[j].kind = "energy"
        => server[edits[i].date].window = edits[i].window

-----------------------------------------------------------------------------
(* The abstract record *)

RequestOf(u) ==
    [edit |-> u.edit, date |-> u.date, hour |-> u.hour, minutes |-> u.minutes]

\* The edit that waits for the timer is a request for the selected day.
PendingRequest ==
    IF pending = NoPending THEN {}
    ELSE {[edit |-> pending.edit, date |-> selectedDate, hour |-> pending.hour,
           minutes |-> pending.minutes]}

Requests == {RequestOf(u) : u \in {v \in inflight : v.kind # "window"}} \cup PendingRequest

Log == INSTANCE EnergyLog WITH
    stored <- [d \in Dates |-> RecordsOf(server[d])],
    waiting <- Requests,
    asked <- Len(edits)

\* The screen, its timer, its flushes and the transactions implement the
\* record of requests: no request changes its day, hour or value between the
\* gesture and the document, none is applied twice, and only the edit of the
\* same hour is replaced by a later one.
LogSpec == Log!Spec

-----------------------------------------------------------------------------
(* Liveness *)

\* Every edit is decided: superseded by a later edit of the same hour before
\* its save, stored, or lost; none waits forever.
EditsResolve == \A i \in 1..MaxEdits : IsWaiting(i) ~> ~IsWaiting(i)

\* A user who stays on a day sees what is stored for it again and again, but
\* for the hours whose last value the document lost.
ScreenCatchesUp ==
    \A d \in Dates :
        <>[](signedIn /\ selectedDate = d)
            => []<>(pending = NoPending
                    /\ \A h \in Hours : ShownAsStored(h) \/ Overruled(h))
=============================================================================
