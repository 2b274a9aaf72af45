----------------------- MODULE EnergyHomeOrderProofs -----------------------
(***************************************************************************)
(* What the order of gestures decides, for every value of the constants:   *)
(* the last value entered for an hour is the one stored, and the screen at *)
(* rest shows what is stored, but for the edits whose write is lost.  Both *)
(* need that the picker does not change the day under a pending edit.      *)
(***************************************************************************)
EXTENDS EnergyHomeProofs

-----------------------------------------------------------------------------
(* The last edit of an hour *)

Touches(e, d, h) == e.date = d /\ (e.kind = "delete" \/ e.hour = h)

\* Edit i entered the value of hour h of day d, and nothing has touched the
\* hour since.
IsLatest(i, d, h) ==
    /\ i \in DOMAIN edits
    /\ Entered(i, d, h, edits[i].minutes)
    /\ \A j \in DOMAIN edits : Touches(edits[j], d, h) => j <= i

\* A later edit of the hour that waits replaces the one that waits.
PendingIsLatest ==
    pending # NoPending =>
        \A j \in DOMAIN edits :
            Entered(j, selectedDate, pending.hour, edits[j].minutes) => j <= pending.edit

NobodyWaits == ~signedIn => pending = NoPending

LostInHistory == \A i \in lost : i \in DOMAIN edits

\* The last edit of an hour, once it is decided and not lost, is stored, and
\* no call is left that would touch the hour.
LatestIsSettled ==
    \A d \in Dates, h \in Hours, i \in DOMAIN edits :
        IsLatest(i, d, h) /\ ~IsWaiting(i) /\ i \notin lost =>
            /\ RecordsOf(server[d])[h] = edits[i].minutes
            /\ \A u \in inflight : ~Touches(u, d, h)

Ordered == PendingIsLatest /\ NobodyWaits /\ LostInHistory /\ LatestIsSettled

LEMMA LatestIsLatest ==
    ASSUME TypeOK, NEW d \in Dates, NEW h \in Hours, LatestEdit(d, h) # 0
    PROVE  IsLatest(LatestEdit(d, h), d, h)
<1> DEFINE touches(i) == edits[i].date = d /\ (edits[i].kind = "delete" \/ edits[i].hour = h)
           last == {i \in DOMAIN edits :
                       touches(i) /\ \A j \in DOMAIN edits : touches(j) => j <= i}
<1>1. DOMAIN edits \subseteq Int
  BY DEF TypeOK
<1>2. \E i \in last : edits[i].kind = "energy"
  BY DEF LatestEdit
<1>3. \A i, j \in last : i = j
  BY <1>1
<1>4. LatestEdit(d, h) \in last /\ edits[LatestEdit(d, h)].kind = "energy"
  <2>1. LatestEdit(d, h) = CHOOSE i \in last : TRUE
    BY <1>2 DEF LatestEdit
  <2> QED
    BY <1>2, <1>3, <2>1
<1> QED
  BY <1>4 DEF IsLatest, Entered, Touches

\* A gesture that does not touch the hour leaves the last edit of it.
LEMMA LatestKept ==
    ASSUME NEW i, NEW d, NEW h, i \in DOMAIN edits, IsLatest(i, d, h)',
           \A j \in DOMAIN edits : j \in DOMAIN edits' /\ edits'[j] = edits[j]
    PROVE  IsLatest(i, d, h)
  BY DEF IsLatest, Entered, Touches

-----------------------------------------------------------------------------
(* Steps that enter and store nothing *)

\* Each call comes from a call or from the pending edit, and an edit that
\* waited waits or is lost.
StepCarries ==
    /\ UNCHANGED <<server, edits>>
    /\ lost \subseteq lost'
    /\ \A x \in inflight' : \E u \in inflight \cup PendingWrite :
           x.edit = u.edit /\ x.kind = u.kind /\ x.date = u.date /\ x.hour = u.hour
    /\ \A i \in DOMAIN edits : IsWaiting(i) => IsWaiting(i)' \/ i \in lost'
    /\ pending' = NoPending \/ UNCHANGED <<pending, selectedDate>>

LEMMA CarriedSettled ==
    ASSUME TypeOK, Provenance, PendingIsLatest, LatestIsSettled, StepCarries
    PROVE  PendingIsLatest' /\ LatestIsSettled'
<1>1. PendingIsLatest'
  BY DEF StepCarries, PendingIsLatest, Entered
<1>2. LatestIsSettled'
  <2> SUFFICES ASSUME NEW d \in Dates, NEW h \in Hours, NEW i \in DOMAIN edits,
                      IsLatest(i, d, h), ~IsWaiting(i)', i \notin lost'
               PROVE  /\ RecordsOf(server[d])[h] = edits[i].minutes
                      /\ \A x \in inflight' : ~Touches(x, d, h)
    BY DEF StepCarries, LatestIsSettled, IsLatest, Entered, IsWaiting
  <2>1. ~IsWaiting(i) /\ i \notin lost
    BY DEF StepCarries
  <2>2. /\ RecordsOf(server[d])[h] = edits[i].minutes
        /\ \A u \in inflight : ~Touches(u, d, h)
    BY <2>1 DEF LatestIsSettled
  <2>3. ASSUME NEW u \in PendingWrite PROVE ~Touches(u, d, h)
    <3> SUFFICES ASSUME Touches(u, d, h) PROVE FALSE
      OBVIOUS
    <3>1. /\ pending # NoPending /\ u.edit = pending.edit /\ u.kind = "energy"
          /\ u.date = selectedDate /\ u.hour = pending.hour
      BY DEF PendingWrite
    <3>2. selectedDate = d /\ pending.hour = h
      BY <3>1 DEF Touches
    <3>3. pending.edit \in DOMAIN edits /\ Touches(edits[pending.edit], d, h)
      BY <3>1, <3>2 DEF Provenance, Entered, Touches, TypeOK
    <3>4. pending.edit <= i
      BY <3>3 DEF IsLatest
    <3>5. i <= pending.edit
      BY <3>1, <3>2 DEF PendingIsLatest, IsLatest
    <3>6. pending.edit \in Int /\ i \in Int
      BY <3>3 DEF TypeOK
    <3> QED
      BY <2>1, <3>1, <3>4, <3>5, <3>6 DEF IsWaiting
  <2> QED
    BY <2>2, <2>3 DEF StepCarries, Touches
<1> QED
  BY <1>1, <1>2

\* The kinds of step, and what they make of the edits that wait.
LEMMA StepsCarry ==
    ASSUME "picker" \notin Enabled, TypeOK, Provenance, NobodyWaits, LostInHistory, [Next]_vars
    PROVE  \/ StepCarries /\ NobodyWaits' /\ LostInHistory'
           \/ \E m \in Minutes : UpdateEnergy(m)
           \/ \E w \in Windows : UpdateSettings(w)
           \/ \E d \in Dates : DeleteLog(d)
           \/ \E u \in inflight, lostReply \in BOOLEAN : Commit(u, lostReply)
<1> DEFINE Fine == StepCarries /\ NobodyWaits' /\ LostInHistory'
           W == inflight \cup PendingWrite
<1>a. W \in SUBSET Write
  BY PendingWriteType DEF TypeOK
<1>0. ASSUME UNCHANGED <<server, edits, inflight, pending, lost>>,
             signedIn' = signedIn, pending' = NoPending \/ selectedDate' = selectedDate
      PROVE  Fine
  BY <1>0 DEF StepCarries, NobodyWaits, LostInHistory, IsWaiting
\* A flush.
<1>b. ASSUME UNCHANGED <<server, edits, lost>>, signedIn, pending' = NoPending,
             inflight' \in {W, Unmounted(W)}
      PROVE  Fine
  <2>1. ASSUME NEW x \in inflight'
        PROVE  \E u \in W : /\ x.edit = u.edit /\ x.kind = u.kind
                            /\ x.date = u.date /\ x.hour = u.hour
    <3>1. CASE inflight' = W
      BY <3>1, <2>1
    <3>2. CASE inflight' = Unmounted(W)
      BY <3>2, <2>1, <1>a, UnmountedCalls
    <3> QED
      BY <1>b, <3>1, <3>2
  <2>2. ASSUME NEW u \in W PROVE \E x \in inflight' : x.edit = u.edit
    <3>1. u \in Write
      BY <1>a
    <3>2. [u EXCEPT !.mounted = FALSE].edit = u.edit
      BY <3>1 DEF Write
    <3> QED
      BY <1>b, <3>2 DEF Unmounted
  <2>3. ASSUME NEW i \in DOMAIN edits, IsWaiting(i) PROVE IsWaiting(i)'
    <3>1. \E u \in W : u.edit = i
      <4>1. CASE pending # NoPending /\ pending.edit = i
        <5> DEFINE write == [edit |-> pending.edit, kind |-> "energy", date |-> selectedDate,
                             hour |-> pending.hour, minutes |-> pending.minutes,
                             window |-> localWindow, mounted |-> TRUE]
        <5>1. PendingWrite = {write}
          BY <1>b, <4>1 DEF PendingWrite
        <5>2. write.edit = i
          BY <4>1
        <5> QED
          BY <5>1, <5>2
      <4>2. CASE \E u \in inflight : u.edit = i
        BY <4>2
      <4> QED
        BY <2>3, <4>1, <4>2 DEF IsWaiting
    <3> QED
      BY <2>2, <3>1 DEF IsWaiting
  <2> QED
    BY <1>b, <2>1, <2>3 DEF StepCarries, NobodyWaits, LostInHistory
<1>1. CASE DebounceFires
  BY <1>1, <1>b DEF DebounceFires, FlushPending
<1>2. CASE AppPaused
  BY <1>2, <1>b DEF AppPaused, FlushPending
<1>3. ASSUME NEW h \in Hours, NEW nextDay \in BOOLEAN, TapRow(h, nextDay) PROVE Fine
  BY <1>3, <1>b DEF TapRow, SelectHour, HomeInFront, FlushPending
<1>4. ASSUME NEW delta \in {-1, 1}, StepHour(delta) PROVE Fine
  BY <1>4, <1>b DEF StepHour, SelectHour, HomeInFront, FlushPending
<1>5. ASSUME NEW delta \in {-1, 1}, ChangeDate(delta) PROVE Fine
  BY <1>5, <1>b DEF ChangeDate, MoveTo, HomeInFront, FlushPending
<1>6. CASE GoToday
  BY <1>6, <1>b DEF GoToday, MoveTo, HomeInFront, FlushPending
<1>7. ASSUME NEW d \in Dates, PickDate(d) PROVE FALSE
  BY <1>7 DEF PickDate
<1>8. CASE DefaultsLoaded
  BY <1>0, <1>8 DEF DefaultsLoaded
<1>9. CASE StreamEmits
  BY <1>0, <1>9 DEF StreamEmits
<1>10. ASSUME NEW d \in Dates, Sync(d) PROVE Fine
  BY <1>0, <1>10 DEF Sync, home
<1>11. ASSUME NEW d \in Dates, OpenHomeTab(d) PROVE Fine
  BY <1>0, <1>b, <1>11 DEF OpenHomeTab, FreshHome, home
<1>12. ASSUME NEW t \in {"home", "trend"}, SwitchTab(t) PROVE Fine
  BY <1>0, <1>12 DEF SwitchTab, home
<1>13. ASSUME NEW kept \in SUBSET inflight,
              UNCHANGED <<server, edits>>, inflight' = Unmounted(kept),
              pending' = NoPending,
              lost' = lost \cup DroppedEdit \cup {u.edit : u \in inflight \ kept}
       PROVE  Fine
  <2>0. kept \in SUBSET Write
    BY DEF TypeOK
  <2>1. ASSUME NEW x \in inflight'
        PROVE  \E u \in W : /\ x.edit = u.edit /\ x.kind = u.kind
                            /\ x.date = u.date /\ x.hour = u.hour
    BY <1>13, <2>0, <2>1, UnmountedCalls
  <2>2. ASSUME NEW i \in DOMAIN edits, IsWaiting(i) PROVE IsWaiting(i)' \/ i \in lost'
    <3>1. CASE pending # NoPending /\ pending.edit = i
      BY <1>13, <3>1 DEF DroppedEdit
    <3>2. ASSUME NEW u \in inflight, u.edit = i PROVE IsWaiting(i)' \/ i \in lost'
      <4>1. CASE u \in kept
        <5>1. u \in Write
          BY <2>0, <4>1
        <5>2. [u EXCEPT !.mounted = FALSE].edit = i
          BY <3>2, <5>1 DEF Write
        <5> QED
          BY <1>13, <4>1, <5>2 DEF Unmounted, IsWaiting
      <4>2. CASE u \notin kept
        BY <1>13, <3>2, <4>2
      <4> QED
        BY <4>1, <4>2
    <3> QED
      BY <2>2, <3>1, <3>2 DEF IsWaiting
  <2>3. LostInHistory'
    <3>1. \A i \in DroppedEdit : i \in DOMAIN edits
      BY DEF DroppedEdit, Provenance, TypeOK
    <3>2. \A u \in inflight : u.edit \in DOMAIN edits
      BY DEF Provenance, CallOK, TypeOK
    <3> QED
      BY <1>13, <3>1, <3>2 DEF LostInHistory
  <2> QED
    BY <1>13, <2>1, <2>2, <2>3 DEF StepCarries, NobodyWaits
<1>14. CASE SignOut
  <2>1. lost' = lost \cup DroppedEdit \cup {u.edit : u \in inflight \ inflight}
    BY <1>14 DEF SignOut
  <2> QED
    BY <1>13, <1>14, <2>1 DEF SignOut
<1>15. CASE SignIn
  BY <1>0, <1>15 DEF SignIn, FreshHome, NobodyWaits, StepCarries, LostInHistory, IsWaiting
<1>16. CASE Relaunch
  <2>1. PICK gone \in SUBSET {u \in inflight : u.kind # "delete"} :
           /\ inflight' = Unmounted(inflight \ gone)
           /\ lost' = lost \cup DroppedEdit \cup {u.edit : u \in gone}
    BY <1>16 DEF Relaunch
  <2>2. inflight \ (inflight \ gone) = gone
    OBVIOUS
  <2>3. lost' = lost \cup DroppedEdit \cup {u.edit : u \in inflight \ (inflight \ gone)}
    BY <2>1, <2>2
  <2>4. UNCHANGED <<server, edits>> /\ pending' = NoPending
    BY <1>16 DEF Relaunch, FreshHome
  <2> QED
    BY <1>13, <2>1, <2>3, <2>4
<1>17. ASSUME NEW u \in inflight, Fail(u) PROVE Fine
  <2>1. /\ UNCHANGED <<server, edits, pending, selectedDate, signedIn>>
        /\ inflight' = inflight \ {u} /\ lost' = lost \cup {u.edit}
    BY <1>17 DEF Fail
  <2>2. u.edit \in DOMAIN edits
    BY DEF Provenance, CallOK, TypeOK
  <2> QED
    BY <2>1, <2>2 DEF StepCarries, NobodyWaits, LostInHistory, IsWaiting
<1>18. CASE UNCHANGED vars
  BY <1>0, <1>18 DEF vars, home
<1> QED
  BY <1>1, <1>2, <1>3, <1>4, <1>5, <1>6, <1>7, <1>8, <1>9, <1>10, <1>11, <1>12,
     <1>14, <1>15, <1>16, <1>17, <1>18 DEF Next, Network

-----------------------------------------------------------------------------
(* Gestures, and the transactions in order *)

LEMMA EditSettled ==
    ASSUME TypeOK, PendingOK, Provenance, Ordered, NEW m \in Minutes, UpdateEnergy(m)
    PROVE  Ordered'
<1> USE DEF Ordered
<1>0. edits \in Seq(Edit) /\ Len(edits) \in Nat /\ DOMAIN edits = 1..Len(edits)
  BY DEF TypeOK
<1>1. /\ inflight' = inflight /\ UNCHANGED <<server, lost, signedIn, selectedDate>>
      /\ signedIn /\ selectedDate \in Dates /\ selectedHour \in Hours
      /\ pending' = [hour |-> selectedHour, minutes |-> m, edit |-> NextEdit]
      /\ CanEdit /\ Logged("energy", selectedDate, selectedHour, m, localWindow)
  BY DEF UpdateEnergy, HomeInFront, PendingOK, PendingHourIsSelected, TypeOK
<1>2. /\ Len(edits') = Len(edits) + 1
      /\ \A i \in DOMAIN edits : i \in DOMAIN edits' /\ edits'[i] = edits[i]
      /\ NextEdit \in DOMAIN edits'
      /\ edits'[NextEdit] = [kind |-> "energy", date |-> selectedDate,
             hour |-> selectedHour, minutes |-> m, window |-> localWindow]
  BY <1>1, HistoryKept DEF TypeOK, Kinds
<1>3. DOMAIN edits' = 1..(Len(edits) + 1) /\ NextEdit = Len(edits) + 1
  BY <1>0, <1>1, <1>2 DEF NextEdit, Logged
<1>4. pending' # NoPending /\ pending'.edit = NextEdit /\ pending'.hour = selectedHour
  BY <1>0, <1>1, <1>3, MarkersAssumption
<1>5. PendingIsLatest' /\ NobodyWaits' /\ LostInHistory'
  BY <1>0, <1>1, <1>2, <1>3, <1>4 DEF PendingIsLatest, NobodyWaits, LostInHistory
<1>6. LatestIsSettled'
  <2> SUFFICES ASSUME NEW d \in Dates, NEW h \in Hours, NEW i \in DOMAIN edits',
                      IsLatest(i, d, h)', ~IsWaiting(i)', i \notin lost
               PROVE  /\ RecordsOf(server[d])[h] = edits'[i].minutes
                      /\ \A u \in inflight : ~Touches(u, d, h)
    BY <1>1 DEF LatestIsSettled
  <2>1. i # NextEdit
    BY <1>4 DEF IsWaiting
  <2>2. i \in DOMAIN edits
    BY <1>0, <1>3, <2>1
  <2>3. ~(d = selectedDate /\ h = selectedHour)
    <3> SUFFICES ASSUME d = selectedDate, h = selectedHour PROVE FALSE
      OBVIOUS
    <3>1. Touches(edits'[NextEdit], d, h)
      BY <1>2 DEF Touches
    <3>2. NextEdit <= i
      BY <1>2, <3>1 DEF IsLatest
    <3> QED
      BY <1>0, <1>3, <2>2, <3>2
  <2>4. IsLatest(i, d, h)
    BY <1>2, <2>2, LatestKept
  <2>5. ~IsWaiting(i)
    <3>1. ~(pending # NoPending /\ pending.edit = i)
      BY <2>3, <2>4, <1>1 DEF Provenance, IsLatest, Entered, PendingOK, PendingHourIsSelected
    <3> QED
      BY <1>1, <3>1 DEF IsWaiting
  <2> QED
    BY <1>2, <2>2, <2>4, <2>5 DEF LatestIsSettled
<1> QED
  BY <1>5, <1>6

\* A window or a deletion, which enters no value.
LEMMA OtherSettled ==
    ASSUME TypeOK, Ordered, CanEdit,
           NEW k \in Kinds, k # "energy", NEW d0 \in Dates, NEW w \in AllWindows,
           Logged(k, d0, NoHour, Unset, w),
           NEW u, u.kind = k, u.date = d0, u.hour = NoHour,
           inflight' = inflight \cup {u},
           UNCHANGED <<server, lost, signedIn, selectedDate, pending>>
    PROVE  Ordered'
<1> USE DEF Ordered
<1>0. edits \in Seq(Edit) /\ Len(edits) \in Nat /\ DOMAIN edits = 1..Len(edits)
  BY DEF TypeOK
<1>1. [kind |-> k, date |-> d0, hour |-> NoHour, minutes |-> Unset, window |-> w] \in Edit
  BY DEF Edit
<1>2. /\ Len(edits') = Len(edits) + 1 /\ Len(edits) \in Nat
      /\ \A i \in DOMAIN edits : i \in DOMAIN edits' /\ edits'[i] = edits[i]
      /\ NextEdit \in DOMAIN edits'
      /\ edits'[NextEdit] = [kind |-> k, date |-> d0, hour |-> NoHour,
                             minutes |-> Unset, window |-> w]
  BY <1>0, <1>1 DEF Logged, NextEdit
<1>3. DOMAIN edits' = 1..(Len(edits) + 1) /\ NextEdit = Len(edits) + 1
  BY <1>0 DEF NextEdit, Logged
<1>4. ASSUME NEW j \in DOMAIN edits', edits'[j].kind = "energy" PROVE j \in DOMAIN edits
  <2>1. j # NextEdit
    BY <1>2, <1>4
  <2> QED
    BY <1>0, <1>3, <2>1
<1>5. PendingIsLatest'
  BY <1>2, <1>4 DEF PendingIsLatest, Entered
<1>6. NobodyWaits' /\ LostInHistory'
  BY <1>2 DEF NobodyWaits, LostInHistory
<1>7. LatestIsSettled'
  <2> SUFFICES ASSUME NEW d \in Dates, NEW h \in Hours, NEW i \in DOMAIN edits',
                      IsLatest(i, d, h)', ~IsWaiting(i)', i \notin lost
               PROVE  /\ RecordsOf(server[d])[h] = edits'[i].minutes
                      /\ \A v \in inflight' : ~Touches(v, d, h)
    BY DEF LatestIsSettled
  <2>1. i \in DOMAIN edits
    BY <1>4 DEF IsLatest, Entered
  <2>2. IsLatest(i, d, h)
    BY <1>2, <2>1, LatestKept
  <2>3. ~IsWaiting(i)
    BY DEF IsWaiting
  <2>4. ~Touches(u, d, h)
    <3> SUFFICES ASSUME d = d0, k = "delete" PROVE FALSE
      BY ConstantsAssumption DEF Touches
    <3>1. NextEdit \in DOMAIN edits' /\ Touches(edits'[NextEdit], d, h)
      BY <1>0, <1>2, <1>3 DEF Touches
    <3>2. NextEdit <= i
      BY <3>1 DEF IsLatest
    <3> QED
      BY <1>0, <1>3, <2>1, <3>2
  <2> QED
    BY <1>2, <2>1, <2>2, <2>3, <2>4 DEF LatestIsSettled
<1> QED
  BY <1>5, <1>6, <1>7

LEMMA WindowSettled ==
    ASSUME TypeOK, Ordered, NEW w \in Windows, UpdateSettings(w)
    PROVE  Ordered'
<1> DEFINE new == [edit |-> NextEdit, kind |-> "window", date |-> selectedDate,
                   hour |-> NoHour, minutes |-> Unset, window |-> w, mounted |-> TRUE]
<1>1. /\ inflight' = inflight \cup {new}
      /\ UNCHANGED <<server, lost, signedIn, selectedDate, pending>>
      /\ CanEdit /\ Logged("window", selectedDate, NoHour, Unset, w)
  BY DEF UpdateSettings
<1>2. new.kind = "window" /\ new.date = selectedDate /\ new.hour = NoHour
  OBVIOUS
<1>3. selectedDate \in Dates /\ w \in AllWindows
  BY WindowsInAll DEF TypeOK
<1>4. "window" \in Kinds /\ "window" # "energy"
  BY DEF Kinds
<1> HIDE DEF new
<1> QED
  BY <1>1, <1>2, <1>3, <1>4, OtherSettled

LEMMA DeletionSettled ==
    ASSUME TypeOK, Ordered, NEW d \in Dates, DeleteLog(d)
    PROVE  Ordered'
<1> DEFINE new == [edit |-> NextEdit, kind |-> "delete", date |-> d, hour |-> NoHour,
                   minutes |-> Unset, window |-> DefaultWindow, mounted |-> TRUE]
<1>1. /\ inflight' = inflight \cup {new}
      /\ UNCHANGED <<server, lost, signedIn, selectedDate, pending>>
      /\ CanEdit /\ Logged("delete", d, NoHour, Unset, DefaultWindow)
  BY DEF DeleteLog, home
<1>2. new.kind = "delete" /\ new.date = d /\ new.hour = NoHour
  OBVIOUS
<1>3. "delete" \in Kinds /\ "delete" # "energy"
  BY DEF Kinds
<1> HIDE DEF new
<1> QED
  BY <1>1, <1>2, <1>3, WindowsInAll, OtherSettled

\* A write that goes before an older one of its hour counts as lost, so nothing
\* older comes after the others.
LEMMA CommitSettled ==
    ASSUME TypeOK, Provenance, Distinct, Ordered,
           NEW u \in inflight, NEW lostReply \in BOOLEAN, Commit(u, lostReply)
    PROVE  Ordered'
<1> USE DEF Ordered
<1>1. /\ inflight' = inflight \ {u}
      /\ UNCHANGED <<edits, signedIn, selectedDate, pending>>
      /\ lost' = IF Overtakes(u) THEN lost \cup {u.edit} ELSE lost
  BY DEF Commit
<1>2. /\ u \in Write /\ u.date \in Dates /\ server[u.date] \in Docs \cup {NoDoc}
      /\ server'[u.date] = Applied(server[u.date], u)
      /\ \A d \in Dates : d # u.date => server'[d] = server[d]
  BY CommitRecords
<1>3. PendingIsLatest' /\ NobodyWaits' /\ LostInHistory'
  <2>1. u.edit \in DOMAIN edits
    BY DEF Provenance, CallOK, TypeOK
  <2> QED
    BY <1>1, <2>1 DEF PendingIsLatest, NobodyWaits, LostInHistory, Entered
<1>4. LatestIsSettled'
  <2> SUFFICES ASSUME NEW d \in Dates, NEW h \in Hours, NEW i \in DOMAIN edits,
                      IsLatest(i, d, h), ~IsWaiting(i)', i \notin lost'
               PROVE  /\ RecordsOf(server'[d])[h] = edits[i].minutes
                      /\ \A v \in inflight' : ~Touches(v, d, h)
    BY <1>1 DEF LatestIsSettled, IsLatest, Entered
  <2>0. CallOK(u) /\ DOMAIN edits \subseteq Int
    BY DEF Provenance, TypeOK
  <2>1. CASE u.edit = i
    <3>1. edits[i].kind = "energy" /\ Entered(i, d, h, edits[i].minutes)
      BY DEF IsLatest, Entered
    <3>2. /\ u.kind = "energy" /\ u.date = d /\ u.hour = h
          /\ u.minutes = edits[i].minutes
      BY <2>0, <2>1, <3>1 DEF CallOK, Entered
    <3>3. h # NoHour
      BY ConstantsAssumption
    <3>4. RecordsOf(server'[d]) = [RecordsOf(server[d]) EXCEPT ![h] = edits[i].minutes]
      BY <1>2, <3>2, <3>3, AppliedRecords
    <3>5. RecordsOf(server[d]) \in Records
      BY <1>2, <3>2, RecordsOfType
    <3>6. RecordsOf(server'[d])[h] = edits[i].minutes
      BY <3>4, <3>5 DEF Records
    <3>7. ASSUME NEW v \in inflight', Touches(v, d, h) PROVE FALSE
      <4>1. v \in inflight /\ v # u /\ CallOK(v) /\ v.edit \in DOMAIN edits
        BY <1>1 DEF Provenance, CallOK, TypeOK
      <4>2. v.kind \in Kinds
        BY <4>1 DEF TypeOK, Write
      <4>3. Touches(edits[v.edit], d, h)
        BY <3>3, <3>7, <4>1, <4>2 DEF Touches, CallOK, Entered, Kinds
      <4>4. v.edit <= i /\ v.edit # u.edit
        BY <2>1, <4>1, <4>3 DEF IsLatest, Distinct
      <4>5. v.edit < u.edit
        BY <2>0, <2>1, <4>1, <4>4
      <4>6. Overtakes(u)
        BY <3>2, <3>7, <4>1, <4>5 DEF Overtakes, Touches
      <4> QED
        BY <1>1, <2>1, <4>6
    <3> QED
      BY <3>6, <3>7
  <2>2. CASE u.edit # i
    <3>1. ~IsWaiting(i) /\ i \notin lost
      BY <1>1, <2>2 DEF IsWaiting
    <3>2. /\ RecordsOf(server[d])[h] = edits[i].minutes
          /\ \A v \in inflight : ~Touches(v, d, h)
      BY <3>1 DEF LatestIsSettled
    <3>3. CASE u.date # d
      BY <1>1, <1>2, <3>2, <3>3
    <3>4. CASE u.date = d
      <4>1. u.kind # "delete" /\ u.hour # h
        BY <3>2, <3>4 DEF Touches
      <4>2. RecordsOf(server'[d]) = IF u.hour = NoHour THEN RecordsOf(server[d])
                                    ELSE [RecordsOf(server[d]) EXCEPT ![u.hour] = u.minutes]
        BY <1>2, <3>4, <4>1, AppliedRecords
      <4>3. RecordsOf(server[d]) \in Records
        BY <1>2, <3>4, RecordsOfType
      <4>4. RecordsOf(server'[d])[h] = RecordsOf(server[d])[h]
        BY <4>1, <4>2, <4>3 DEF Records
      <4> QED
        BY <1>1, <3>2, <4>4
    <3> QED
      BY <3>3, <3>4
  <2> QED
    BY <2>1, <2>2
<1> QED
  BY <1>3, <1>4

LEMMA OrderedAlways ==
    ASSUME "picker" \notin Enabled
    PROVE  Spec => []Ordered
<1>1. Init => Ordered
  BY DEF Init, Ordered, PendingIsLatest, NobodyWaits, LostInHistory, LatestIsSettled
<1>2. (TypeOK /\ PendingOK /\ Provenance /\ Distinct) /\ Ordered /\ [Next]_vars => Ordered'
  BY StepsCarry, CarriedSettled, EditSettled, WindowSettled, DeletionSettled, CommitSettled
     DEF Ordered
<1> QED
  BY <1>1, <1>2, ProvenanceAlways, PTL DEF Spec

\* Without the picker, the value the user entered last for an hour is the one
\* stored unless its own write is lost or overtakes an older one of the hour:
\* flushes, deletions, sign-outs, restarts, the failures of other writes and
\* any other order of the commits do not disturb it.
THEOREM LatestEditWinsAlways ==
    ASSUME "picker" \notin Enabled
    PROVE  Spec => []LatestEditWins
<1>1. TypeOK /\ Ordered => LatestEditWins
  <2> SUFFICES ASSUME TypeOK, Ordered, NEW d \in Dates, NEW h \in Hours,
                      LatestEdit(d, h) # 0, ~IsWaiting(LatestEdit(d, h)),
                      LatestEdit(d, h) \notin lost
               PROVE  RecordsOf(server[d])[h] = edits[LatestEdit(d, h)].minutes
    BY DEF LatestEditWins
  <2>1. IsLatest(LatestEdit(d, h), d, h)
    BY LatestIsLatest
  <2> QED
    BY <2>1 DEF Ordered, LatestIsSettled, IsLatest
<1> QED
  BY <1>1, OrderedAlways, Typing, PTL

-----------------------------------------------------------------------------
(* The values laid over the stream's *)

\* A step leaves them and the day, clears them, or enters one.
LEMMA OptimisticKinds ==
    ASSUME "picker" \notin Enabled, [Next]_vars
    PROVE  \/ optimistic' = NoRecords
           \/ UNCHANGED <<optimistic, selectedDate>>
           \/ \E m \in Minutes : UpdateEnergy(m)
  BY DEF Next, Network, DebounceFires, AppPaused, FlushPending, UpdateSettings, TapRow,
         StepHour, SelectHour, ChangeDate, GoToday, MoveTo, PickDate, DefaultsLoaded,
         StreamEmits, Sync, OpenHomeTab, FreshHome, DeleteLog, SwitchTab, SignOut, SignIn,
         Relaunch, Commit, Fail, vars, home

\* The history only grows.
LEMMA HistoryGrows ==
    ASSUME TypeOK, [Next]_vars
    PROVE  \A i \in DOMAIN edits : i \in DOMAIN edits' /\ edits'[i] = edits[i]
<1>1. CASE edits' = edits
  BY <1>1
<1>2. ASSUME NEW m \in Minutes, UpdateEnergy(m)
      PROVE  \A i \in DOMAIN edits : i \in DOMAIN edits' /\ edits'[i] = edits[i]
  BY <1>2, HistoryKept DEF UpdateEnergy, TypeOK, Kinds
<1>3. ASSUME NEW w \in Windows, UpdateSettings(w)
      PROVE  \A i \in DOMAIN edits : i \in DOMAIN edits' /\ edits'[i] = edits[i]
  BY <1>3, HistoryKept, WindowsInAll DEF UpdateSettings, TypeOK, Kinds
<1>4. ASSUME NEW d \in Dates, DeleteLog(d)
      PROVE  \A i \in DOMAIN edits : i \in DOMAIN edits' /\ edits'[i] = edits[i]
  BY <1>4, HistoryKept, WindowsInAll DEF DeleteLog, Kinds
<1>5. \/ edits' = edits \/ \E m \in Minutes : UpdateEnergy(m)
      \/ \E w \in Windows : UpdateSettings(w)
      \/ \E d \in Dates : DeleteLog(d)
  BY DEF Next, Network, DebounceFires, AppPaused, TapRow, StepHour, SelectHour,
         ChangeDate, GoToday, MoveTo, PickDate, DefaultsLoaded, StreamEmits, Sync,
         OpenHomeTab, SwitchTab, SignOut, SignIn, Relaunch, Commit, Fail, vars
<1> QED
  BY <1>1, <1>2, <1>3, <1>4, <1>5

\* Without the picker, a value laid over the document of a day was entered for
\* that day and hour (every other change of day clears _optimisticRecords).
THEOREM OptimisticIsThisDayAlways ==
    ASSUME "picker" \notin Enabled
    PROVE  Spec => []OptimisticIsThisDay
<1>1. Init => OptimisticIsThisDay
  BY DEF Init, OptimisticIsThisDay, NoRecords
<1>2. TypeOK /\ OptimisticIsThisDay /\ [Next]_vars => OptimisticIsThisDay'
  <2> SUFFICES ASSUME TypeOK, OptimisticIsThisDay, [Next]_vars PROVE OptimisticIsThisDay'
    OBVIOUS
  <2>1. CASE optimistic' = NoRecords
    BY <2>1 DEF OptimisticIsThisDay, NoRecords
  <2>2. CASE UNCHANGED <<optimistic, selectedDate>>
    BY <2>2, HistoryGrows DEF OptimisticIsThisDay, Entered
  <2>3. ASSUME NEW m \in Minutes, UpdateEnergy(m) PROVE OptimisticIsThisDay'
    <3>1. /\ selectedHour \in Hours /\ selectedDate' = selectedDate
          /\ optimistic' = [optimistic EXCEPT ![selectedHour] = m]
      BY <2>3 DEF UpdateEnergy, TypeOK
    <3>2. /\ NextEdit \in DOMAIN edits'
          /\ edits'[NextEdit] = [kind |-> "energy", date |-> selectedDate,
                 hour |-> selectedHour, minutes |-> m, window |-> localWindow]
      BY <2>3, HistoryKept DEF UpdateEnergy, TypeOK, Kinds
    <3>3. \A i \in DOMAIN edits : i \in DOMAIN edits' /\ edits'[i] = edits[i]
      BY HistoryGrows
    <3> SUFFICES ASSUME NEW h \in Hours, optimistic'[h] # Unset
                 PROVE  \E i \in DOMAIN edits' : Entered(i, selectedDate, h, optimistic[h])'
      BY DEF OptimisticIsThisDay
    <3>4. CASE h = selectedHour
      <4>1. optimistic'[h] = m
        BY <3>1, <3>4 DEF TypeOK, Records
      <4>2. ASSUME NEW i, i = NextEdit PROVE Entered(i, selectedDate, h, optimistic[h])'
        BY <3>1, <3>2, <3>4, <4>1, <4>2 DEF Entered
      <4> QED
        BY <3>2, <4>2
    <3>5. CASE h # selectedHour
      <4>1. optimistic'[h] = optimistic[h]
        BY <3>1, <3>5 DEF TypeOK, Records
      <4> QED
        BY <3>1, <3>3, <4>1 DEF OptimisticIsThisDay, Entered
    <3> QED
      BY <3>4, <3>5
  <2> QED
    BY <2>1, <2>2, <2>3, OptimisticKinds
<1> QED
  BY <1>1, <1>2, Typing, PTL DEF Spec

-----------------------------------------------------------------------------
(* The screen at rest *)

\* Each of them is the value entered last for its hour of the day on the screen.
OptimisticIsLastEntry ==
    \A h \in Hours : optimistic[h] # Unset =>
        \E i \in DOMAIN edits :
            /\ Entered(i, selectedDate, h, optimistic[h])
            /\ \A j \in DOMAIN edits :
                   edits[j].date = selectedDate /\ edits[j].hour = h => j <= i

\* Only a touch of the bar adds an entry to the history for an hour.
LEMMA EntriesOfHours ==
    ASSUME TypeOK, [Next]_vars
    PROVE  \/ \E m \in Minutes : UpdateEnergy(m)
           \/ \A j \in DOMAIN edits' :
                  j \in DOMAIN edits \/ \A h \in Hours : edits'[j].hour # h
<1>0. edits \in Seq(Edit) /\ Len(edits) \in Nat /\ DOMAIN edits = 1..Len(edits)
  BY DEF TypeOK
<1>1. ASSUME NEW k, NEW d, NEW w, Logged(k, d, NoHour, Unset, w), NEW j \in DOMAIN edits'
      PROVE  j \in DOMAIN edits \/ \A h \in Hours : edits'[j].hour # h
  <2>1. edits' = Append(edits, [kind |-> k, date |-> d, hour |-> NoHour,
                                minutes |-> Unset, window |-> w])
    BY <1>1 DEF Logged
  <2>2. DOMAIN edits' = 1..(Len(edits) + 1) /\ edits'[Len(edits) + 1].hour = NoHour
    BY <1>0, <2>1
  <2> QED
    BY <1>0, <1>1, <2>2, ConstantsAssumption
<1>2. \/ edits' = edits \/ \E m \in Minutes : UpdateEnergy(m)
      \/ \E w \in Windows : Logged("window", selectedDate, NoHour, Unset, w)
      \/ \E d \in Dates : Logged("delete", d, NoHour, Unset, DefaultWindow)
  BY DEF Next, Network, DebounceFires, AppPaused, UpdateSettings, TapRow, StepHour,
         SelectHour, ChangeDate, GoToday, MoveTo, PickDate, DefaultsLoaded, StreamEmits,
         Sync, OpenHomeTab, DeleteLog, SwitchTab, SignOut, SignIn, Relaunch, Commit, Fail,
         vars
<1> QED
  BY <1>1, <1>2

LEMMA LastEntryStep ==
    ASSUME "picker" \notin Enabled, TypeOK, OptimisticIsLastEntry, [Next]_vars
    PROVE  OptimisticIsLastEntry'
<1>0. edits \in Seq(Edit) /\ Len(edits) \in Nat /\ DOMAIN edits = 1..Len(edits)
  BY DEF TypeOK
<1>1. CASE optimistic' = NoRecords
  BY <1>1 DEF OptimisticIsLastEntry, NoRecords
<1>2. ASSUME NEW m \in Minutes, UpdateEnergy(m) PROVE OptimisticIsLastEntry'
  <2>1. /\ selectedHour \in Hours /\ selectedDate' = selectedDate
        /\ optimistic' = [optimistic EXCEPT ![selectedHour] = m]
    BY <1>2 DEF UpdateEnergy, TypeOK
  <2>2. /\ \A i \in DOMAIN edits : i \in DOMAIN edits' /\ edits'[i] = edits[i]
        /\ NextEdit \in DOMAIN edits'
        /\ edits'[NextEdit] = [kind |-> "energy", date |-> selectedDate,
               hour |-> selectedHour, minutes |-> m, window |-> localWindow]
    BY <1>2, HistoryKept DEF UpdateEnergy, TypeOK, Kinds
  <2>3. DOMAIN edits' = 1..(Len(edits) + 1) /\ NextEdit = Len(edits) + 1
    BY <1>0, <1>2 DEF UpdateEnergy, NextEdit, Logged
  <2> SUFFICES ASSUME NEW h \in Hours, optimistic'[h] # Unset
               PROVE  \E i \in DOMAIN edits' :
                          /\ Entered(i, selectedDate, h, optimistic[h])'
                          /\ \A j \in DOMAIN edits' :
                                 edits'[j].date = selectedDate /\ edits'[j].hour = h
                                     => j <= i
    BY <2>1 DEF OptimisticIsLastEntry
  <2>4. CASE h = selectedHour
    <3>1. optimistic'[h] = m
      BY <2>1, <2>4 DEF TypeOK, Records
    <3>2. ASSUME NEW i, i = NextEdit PROVE Entered(i, selectedDate, h, optimistic[h])'
      BY <2>1, <2>2, <2>4, <3>1, <3>2 DEF Entered
    <3>3. \A j \in DOMAIN edits' : j <= NextEdit
      BY <1>0, <2>3
    <3> QED
      BY <2>2, <3>2, <3>3
  <2>5. CASE h # selectedHour
    <3>1. optimistic'[h] = optimistic[h]
      BY <2>1, <2>5 DEF TypeOK, Records
    <3>2. PICK i \in DOMAIN edits :
              /\ Entered(i, selectedDate, h, optimistic[h])
              /\ \A j \in DOMAIN edits :
                     edits[j].date = selectedDate /\ edits[j].hour = h => j <= i
      BY <3>1 DEF OptimisticIsLastEntry
    <3>3. Entered(i, selectedDate, h, optimistic[h])'
      BY <2>1, <2>2, <3>1, <3>2 DEF Entered
    <3>4. \A j \in DOMAIN edits' : j \in DOMAIN edits \/ j = NextEdit
      BY <1>0, <2>3
    <3> QED
      BY <2>2, <2>5, <3>2, <3>3, <3>4
  <2> QED
    BY <2>4, <2>5
<1>3. ASSUME UNCHANGED <<optimistic, selectedDate>>,
             \A j \in DOMAIN edits' :
                 j \in DOMAIN edits \/ \A h \in Hours : edits'[j].hour # h
      PROVE  OptimisticIsLastEntry'
  <2>1. \A i \in DOMAIN edits : i \in DOMAIN edits' /\ edits'[i] = edits[i]
    BY HistoryGrows
  <2> SUFFICES ASSUME NEW h \in Hours, optimistic[h] # Unset
               PROVE  \E i \in DOMAIN edits' :
                          /\ Entered(i, selectedDate, h, optimistic[h])'
                          /\ \A j \in DOMAIN edits' :
                                 edits'[j].date = selectedDate /\ edits'[j].hour = h
                                     => j <= i
    BY <1>3 DEF OptimisticIsLastEntry
  <2>2. PICK i \in DOMAIN edits :
            /\ Entered(i, selectedDate, h, optimistic[h])
            /\ \A j \in DOMAIN edits :
                   edits[j].date = selectedDate /\ edits[j].hour = h => j <= i
    BY DEF OptimisticIsLastEntry
  <2>3. Entered(i, selectedDate, h, optimistic[h])'
    BY <1>3, <2>1, <2>2 DEF Entered
  <2> QED
    BY <1>3, <2>1, <2>2, <2>3
<1> QED
  BY <1>1, <1>2, <1>3, EntriesOfHours, OptimisticKinds

\* Every frame has put the window of the last document on the screen.
WindowOfSnapshot == localWindow = WindowAfterFrame(snapshot, defaultWindow)

LEMMA WindowOfSnapshotAlways == Spec => []WindowOfSnapshot
<1>1. Init => WindowOfSnapshot
  BY DEF Init, WindowOfSnapshot, WindowAfterFrame
<1>2. WindowOfSnapshot /\ [Next]_vars => WindowOfSnapshot'
  <2> SUFFICES ASSUME WindowOfSnapshot, [Next]_vars PROVE WindowOfSnapshot'
    OBVIOUS
  <2>1. \/ UNCHANGED <<localWindow, snapshot, defaultWindow>>
        \/ \E w \in Windows : UpdateSettings(w)
        \/ DefaultsLoaded \/ StreamEmits
        \/ \E d \in Dates : FreshHome(d)
    BY ConstantsAssumption
       DEF Next, Network, DebounceFires, AppPaused, FlushPending, UpdateEnergy, TapRow,
         StepHour, SelectHour, ChangeDate, GoToday, MoveTo, PickDate, Sync, OpenHomeTab,
         DeleteLog, SwitchTab, SignOut, SignIn, Relaunch, Commit, Fail, vars, home
  <2> QED
    BY <2>1 DEF WindowOfSnapshot, WindowAfterFrame, UpdateSettings, DefaultsLoaded,
       StreamEmits, FreshHome
<1> QED
  BY <1>1, <1>2, PTL DEF Spec

\* A screen at rest shows the stored minutes, and where it does for every hour
\* the stored total, whatever failed, was overtaken, deleted or restarted: a
\* value laid over the document is the one entered last, and unless its write
\* is lost or the day was deleted after it, LatestIsSettled has it stored.
THEOREM ShownIsStoredAlways ==
    ASSUME "picker" \notin Enabled
    PROVE  Spec => []ShownIsStored
<1>1. TypeOK /\ Ordered /\ OptimisticIsLastEntry /\ WindowOfSnapshot => ShownIsStored
  <2> SUFFICES ASSUME TypeOK, Ordered, OptimisticIsLastEntry, WindowOfSnapshot, Quiet
               PROVE  /\ \A h \in Hours : ShownAsStored(h) \/ Overruled(h)
                      /\ server[selectedDate] # NoDoc /\ (\A h \in Hours : ShownAsStored(h))
                             => ShownTotal = server[selectedDate].totalActiveMinutes
    BY DEF ShownIsStored
  <2> DEFINE doc == server[selectedDate]
  <2>1. /\ selectedDate \in Dates /\ doc \in Docs \cup {NoDoc} /\ snapshot = doc
        /\ \A i : ~IsWaiting(i)
    BY DEF Quiet, TypeOK, IsWaiting
  <2>2. RecordsOf(doc) \in Records
    BY <2>1, RecordsOfType
  <2>3. ASSUME NEW h \in Hours, ~Overruled(h) PROVE ShownAsStored(h)
    <3>1. CASE optimistic[h] = Unset
      BY <2>1, <3>1 DEF ShownAsStored, Shown
    <3>2. CASE optimistic[h] # Unset
      <4>1. PICK i \in DOMAIN edits :
                /\ Entered(i, selectedDate, h, optimistic[h])
                /\ \A j \in DOMAIN edits :
                       edits[j].date = selectedDate /\ edits[j].hour = h => j <= i
        BY <3>2 DEF OptimisticIsLastEntry
      <4>2. \A j \in DOMAIN edits : Entered(j, selectedDate, h, edits[j].minutes) => j <= i
        BY <4>1 DEF Entered
      <4>3. /\ i \notin lost
            /\ \A j \in DOMAIN edits :
                   edits[j].kind = "delete" /\ edits[j].date = selectedDate => ~(j > i)
        BY <2>3, <4>1, <4>2 DEF Overruled
      <4>4. DOMAIN edits \subseteq Int
        BY DEF TypeOK
      <4>5. IsLatest(i, selectedDate, h)
        BY <4>1, <4>3, <4>4 DEF IsLatest, Touches, Entered
      <4>6. RecordsOf(doc)[h] = optimistic[h]
        BY <2>1, <4>1, <4>3, <4>5 DEF Ordered, LatestIsSettled, Entered
      <4> QED
        BY <3>2, <4>6 DEF ShownAsStored, Shown
    <3> QED
      BY <3>1, <3>2
  <2>4. ASSUME doc # NoDoc, \A h \in Hours : ShownAsStored(h)
        PROVE  ShownTotal = doc.totalActiveMinutes
    <3>1. PICK r \in Records, w \in AllWindows : doc = Doc(r, w)
      BY <2>1, <2>4 DEF Docs
    <3>2. doc \notin {NoDoc, Unknown}
      BY <2>1, <2>4, MarkersAssumption
    <3>3. RecordsOf(doc) = r /\ doc.totalActiveMinutes = ActiveMinutes(r, w, Unset)
      BY <3>1, <3>2 DEF RecordsOf, Doc
    <3>4. localWindow = w
      BY <2>1, <3>1, <3>2 DEF WindowOfSnapshot, WindowAfterFrame, Doc
    <3>5. Shown = RecordsOf(doc)
      BY <2>2, <2>4 DEF ShownAsStored, Shown, Records
    <3> QED
      BY <3>3, <3>4, <3>5 DEF ShownTotal
  <2> QED
    BY <2>3, <2>4
<1>2. Init => OptimisticIsLastEntry
  BY DEF Init, OptimisticIsLastEntry, NoRecords
<1>3. TypeOK /\ OptimisticIsLastEntry /\ [Next]_vars => OptimisticIsLastEntry'
  BY LastEntryStep
<1>4. Spec => []Ordered
  BY OrderedAlways
<1> QED
  BY <1>1, <1>2, <1>3, <1>4, Typing, WindowOfSnapshotAlways, PTL DEF Spec
=============================================================================
