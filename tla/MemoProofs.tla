----------------------------- MODULE MemoProofs -----------------------------
(***************************************************************************)
(* Proofs about MemoTab, for any days, texts, months and any number of     *)
(* loads and saves under way together.                                     *)
(***************************************************************************)
EXTENDS MemoTab, TLAPS

-----------------------------------------------------------------------------
(* Types *)

LEMMA ContentIsText ==
    ASSUME NEW m \in Texts \cup {NoMemo}
    PROVE  ContentOf(m) \in Texts
  BY MemoAssumption DEF ContentOf

\* A load that is overtaken stays the load it is.
LEMMA OvertakenLoad ==
    ASSUME NEW x \in Load \cup {None}
    PROVE  /\ Overtaken(x) \in Load \cup {None}
           /\ Overtaken(x) # None =>
                  /\ x # None
                  /\ Overtaken(x).date = x.date /\ Overtaken(x).content = x.content
                  /\ Overtaken(x).overtaken = TRUE
  BY DEF Overtaken, Load

\* What _loadMemo leaves behind: the new load, and the others overtaken.
LEMMA LoadAsked ==
    ASSUME MemoTypeOK, NEW d \in Dates, LoadMemo(d)
    PROVE  /\ isLoading' = TRUE
           /\ loads' \in [LoadIds -> Load \cup {None}]
           /\ \E new : loads' = [l \in LoadIds |->
                                 IF l = new THEN NewLoad(d) ELSE Overtaken(loads[l])]
<1>1. NewLoad(d) \in Load
  BY DEF NewLoad, Load
<1>2. PICK new : loads' = [l \in LoadIds |->
                              IF l = new THEN NewLoad(d) ELSE Overtaken(loads[l])]
  BY DEF LoadMemo, AskFor
<1>3. \A l \in LoadIds : Overtaken(loads[l]) \in Load \cup {None}
  BY OvertakenLoad DEF MemoTypeOK
<1>4. loads' \in [LoadIds -> Load \cup {None}]
  BY <1>1, <1>2, <1>3
<1> QED
  BY <1>2, <1>4 DEF LoadMemo

LEMMA EditorTyped ==
    ASSUME MemoTypeOK, EditorNext, UNCHANGED calendar
    PROVE  MemoTypeOK'
<1> USE DEF calendar, history
<1>1. ASSUME NEW l \in LoadIds, LoadReads(l)
      PROVE  MemoTypeOK'
  <2>1. loads[l] \in Load
    BY <1>1 DEF LoadReads, MemoTypeOK
  <2>2. memos[loads[l].date] \in Texts \cup {NoMemo}
    BY <2>1 DEF MemoTypeOK, Load
  <2>3. [loads[l] EXCEPT !.content = memos[loads[l].date]] \in Load
    BY <2>1, <2>2 DEF Load
  <2>4. loads' \in [LoadIds -> Load \cup {None}]
    BY <1>1, <2>3 DEF LoadReads, MemoTypeOK
  <2> QED
    BY <1>1, <2>4 DEF LoadReads, MemoTypeOK
<1>2. ASSUME NEW l \in LoadIds, LoadAnswered(l)
      PROVE  MemoTypeOK'
  <2>1. loads[l] \in Load
    BY <1>2 DEF LoadAnswered, MemoTypeOK
  <2>2. loads[l].content \in Texts \cup {NoMemo}
    BY <1>2, <2>1 DEF LoadAnswered, Load
  <2>3. ContentOf(loads[l].content) \in Texts
    BY <2>2, ContentIsText
  <2>4. crossed' \in BOOLEAN
    BY <1>2, <2>1 DEF LoadAnswered, Load
  <2> QED
    BY <1>2, <2>3, <2>4 DEF LoadAnswered, MemoTypeOK
<1>3. ASSUME NEW l \in LoadIds, LoadFails(l)
      PROVE  MemoTypeOK'
  BY <1>3 DEF LoadFails, MemoTypeOK
<1>4. ASSUME NEW d \in Dates, ChangeDate(d)
      PROVE  MemoTypeOK'
  <2>1. agreed' \in BOOLEAN
    BY <1>4 DEF ChangeDate, MemoTypeOK
  <2> QED
    BY <1>4, <2>1, LoadAsked DEF ChangeDate, MemoTypeOK
<1>5. ASSUME NEW d \in Dates, OpenMemoTab(d)
      PROVE  MemoTypeOK'
  <2>1. PICK l \in LoadIds : NewScreen(d, l)
    BY <1>5 DEF OpenMemoTab
  <2>2. NewLoad(d) \in Load
    BY DEF NewLoad, Load
  <2>3. loads' \in [LoadIds -> Load \cup {None}]
    BY <2>1, <2>2 DEF NewScreen
  <2>4. \A s \in SaveIds : saves[s] # None => [saves[s] EXCEPT !.mounted = FALSE] \in Save
    BY DEF MemoTypeOK, Save
  <2>5. saves' \in [SaveIds -> Save \cup {None}]
    BY <2>1, <2>4 DEF NewScreen
  <2>6. Empty \in Texts
    BY MemoAssumption
  <2> QED
    BY <1>5, <2>1, <2>3, <2>5, <2>6 DEF OpenMemoTab, NewScreen, MemoTypeOK
<1>6. ASSUME NEW forward \in BOOLEAN, SwipeToMemoDate(forward)
      PROVE  MemoTypeOK'
  <2>1. search' \in Search
    BY <1>6 DEF SwipeToMemoDate, MemoTypeOK, Search
  <2> QED
    BY <1>6, <2>1 DEF SwipeToMemoDate, MemoTypeOK
<1>7. ASSUME SearchFinds
      PROVE  MemoTypeOK'
  <2>1. PICK d \in Candidates : selectedDate' = d /\ LoadMemo(d)
    BY <1>7 DEF SearchFinds
  <2>2. d \in Dates
    BY DEF Candidates, MemoDates
  <2> QED
    BY <1>7, <2>1, <2>2, LoadAsked DEF SearchFinds, MemoTypeOK
<1>8. ASSUME SearchFindsNothing
      PROVE  MemoTypeOK'
  BY <1>8 DEF SearchFindsNothing, MemoTypeOK
<1>9. ASSUME NEW t \in Texts, TypeText(t)
      PROVE  MemoTypeOK'
  BY <1>9 DEF TypeText, MemoTypeOK
<1>10. ASSUME SaveMemo
       PROVE  MemoTypeOK'
  <2>1. [date |-> selectedDate, content |-> text, mounted |-> TRUE, step |-> "read"] \in Save
    BY DEF Save, MemoTypeOK
  <2>2. saves' \in [SaveIds -> Save \cup {None}]
    BY <1>10, <2>1 DEF SaveMemo, MemoTypeOK
  <2>3. misled' \subseteq Dates
    BY <1>10 DEF SaveMemo, MemoTypeOK
  <2> QED
    BY <1>10, <2>2, <2>3 DEF SaveMemo, MemoTypeOK
<1>11. ASSUME NEW s \in SaveIds, SaveReads(s)
       PROVE  MemoTypeOK'
  <2>1. saves[s] \in Save
    BY <1>11 DEF SaveReads, MemoTypeOK
  <2>2. \A x \in {"create", "update"} : [saves[s] EXCEPT !.step = x] \in Save
    BY <2>1 DEF Save
  <2>3. saves' \in [SaveIds -> Save \cup {None}]
    BY <1>11, <2>2 DEF SaveReads, MemoTypeOK
  <2> QED
    BY <1>11, <2>3 DEF SaveReads, MemoTypeOK
<1>12. ASSUME NEW s \in SaveIds, SaveWrites(s)
       PROVE  MemoTypeOK'
  <2>1. saves[s] \in Save
    BY <1>12 DEF SaveWrites, MemoTypeOK
  <2>2. \A x \in {"stored", "missing"} : [saves[s] EXCEPT !.step = x] \in Save
    BY <2>1 DEF Save
  <2>3. saves' \in [SaveIds -> Save \cup {None}]
    BY <1>12, <2>2 DEF SaveWrites, MemoTypeOK
  <2>4. memos' \in [Dates -> Texts \cup {NoMemo}]
    BY <1>12, <2>1 DEF SaveWrites, MemoTypeOK, Save
  <2> QED
    BY <1>12, <2>3, <2>4 DEF SaveWrites, MemoTypeOK
<1>13. ASSUME NEW s \in SaveIds, SaveAnswered(s)
       PROVE  MemoTypeOK'
  <2>1. saves[s] \in Save
    BY <1>13 DEF SaveAnswered, MemoTypeOK
  <2>2. savedContent' \in Texts
    BY <1>13, <2>1 DEF SaveAnswered, MemoTypeOK, Save
  <2>3. isSaving' \in BOOLEAN
    BY <1>13 DEF SaveAnswered
  <2> QED
    BY <1>13, <2>2, <2>3 DEF SaveAnswered, MemoTypeOK
<1>14. ASSUME NEW s \in SaveIds, SaveFails(s)
       PROVE  MemoTypeOK'
  <2>1. isSaving' \in BOOLEAN
    BY <1>14 DEF SaveFails
  <2> QED
    BY <1>14, <2>1 DEF SaveFails, MemoTypeOK
<1> QED
  BY <1>1, <1>2, <1>3, <1>4, <1>5, <1>6, <1>7, <1>8, <1>9, <1>10, <1>11, <1>12, <1>13, <1>14
  DEF EditorNext

LEMMA DeletedTyped ==
    ASSUME MemoTypeOK, NEW d \in Dates, NEW l \in Loop, DeleteMemo(d, l)
    PROVE  memos' \in [Dates -> Texts \cup {NoMemo}] /\ loop' \in Loop
<1>1. loop' \in Loop
  BY DEF DeleteMemo, Loop
<1> QED
  BY <1>1 DEF DeleteMemo, MemoTypeOK

LEMMA LoadMemoDatesTyped ==
    ASSUME MemoTypeOK, NEW m, LoadMemoDates(m)
    PROVE  queries' \in [QueryIds -> Answer \cup {NoQuery}]
<1>1. MemosInRange(m) \in Answer
  BY DEF MemosInRange, Answer
<1> QED
  BY <1>1 DEF LoadMemoDates, MemoTypeOK

LEMMA DisturbedTyped == ASSUME loop \in Loop \cup {NoLoop}
                        PROVE  Disturbed \in Loop \cup {NoLoop}
  BY DEF Disturbed, Loop

LEMMA CalendarTyped ==
    ASSUME MemoTypeOK, CalendarNext, UNCHANGED editor
    PROVE  MemoTypeOK'
<1> USE DEF editor, history
<1>1. ASSUME NEW q \in QueryIds, MemoDatesLoaded(q)
      PROVE  MemoTypeOK'
  <2>1. queries[q] \in Answer
    BY <1>1 DEF MemoDatesLoaded, MemoTypeOK
  <2> QED
    BY <1>1, <2>1 DEF MemoDatesLoaded, MemoTypeOK, Answer
<1>2. ASSUME NEW m \in Months, ChangeMonth(m)
      PROVE  MemoTypeOK'
  BY <1>2, LoadMemoDatesTyped DEF ChangeMonth, MemoTypeOK
<1>3. ASSUME ToggleEditMode
      PROVE  MemoTypeOK'
  BY <1>3, DisturbedTyped DEF ToggleEditMode, MemoTypeOK
<1>4. ASSUME NEW d \in Dates, TapDay(d)
      PROVE  MemoTypeOK'
  BY <1>4, DisturbedTyped DEF TapDay, MemoTypeOK
<1>5. ASSUME NEW d \in Dates, ConfirmDelete(d)
      PROVE  MemoTypeOK'
  <2>1. [confirmed |-> picked, done |-> {}, changed |-> FALSE] \in Loop
    BY DEF Loop, MemoTypeOK
  <2> QED
    BY <1>5, <2>1, DeletedTyped DEF ConfirmDelete, MemoTypeOK
<1>6. ASSUME NEW d \in Dates, NextDeletion(d)
      PROVE  MemoTypeOK'
  <2>1. loop \in Loop
    BY <1>6 DEF NextDeletion, MemoTypeOK
  <2> QED
    BY <1>6, <2>1, DeletedTyped DEF NextDeletion, MemoTypeOK
<1>7. ASSUME IteratorThrows
      PROVE  MemoTypeOK'
  BY <1>7 DEF IteratorThrows, MemoTypeOK
<1>8. ASSUME DeletionEnds
      PROVE  MemoTypeOK'
  BY <1>8, LoadMemoDatesTyped DEF DeletionEnds, MemoTypeOK
<1> QED
  BY <1>1, <1>2, <1>3, <1>4, <1>5, <1>6, <1>7, <1>8 DEF CalendarNext

LEMMA InitTyped == Init => MemoTypeOK
<1> SUFFICES ASSUME Init PROVE MemoTypeOK
  OBVIOUS
<1>1. NewLoad(Today) \in Load
  BY MemoAssumption DEF NewLoad, Load
<1>2. loads \in [LoadIds -> Load \cup {None}]
  BY <1>1 DEF Init, EditorInit
<1>3. MemosInRange(currentMonth) \in Answer
  BY DEF MemosInRange, Answer
<1>4. queries \in [QueryIds -> Answer \cup {NoQuery}]
  BY <1>3 DEF Init, CalendarInit
<1>5. MonthOf[Today] \in Months /\ Today \in Dates /\ Empty \in Texts
  BY MemoAssumption, CalendarAssumption
<1> QED
  BY <1>2, <1>4, <1>5 DEF Init, EditorInit, CalendarInit, MemoTypeOK

LEMMA StepTyped == MemoTypeOK /\ [Next]_vars => MemoTypeOK'
<1> SUFFICES ASSUME MemoTypeOK, [Next]_vars PROVE MemoTypeOK'
  OBVIOUS
<1>1. CASE UNCHANGED vars
  BY <1>1 DEF vars, editor, history, calendar, MemoTypeOK
<1> QED
  BY <1>1, EditorTyped, CalendarTyped DEF Next

\* Every variable of the memo screen and of the calendar keeps its type.
THEOREM MemoTyping == Spec => []MemoTypeOK
BY InitTyped, StepTyped, PTL DEF Spec

-----------------------------------------------------------------------------
(* The memo of a day was written on that day *)

\* The load asked last is for the day on the screen.
LastLoadOfTheDay ==
    \A l \in LoadIds : loads[l] # None /\ ~loads[l].overtaken => loads[l].date = selectedDate

\* Every copy of a text on its way is a note of the day it goes to, and so is
\* the text on the screen after the answer of the load asked last.
CopiesOfTheDay ==
    /\ \A l \in LoadIds : loads[l] # None /\ loads[l].date \notin misled =>
           loads[l].content \in {None, NoMemo} \cup Notes[loads[l].date]
    /\ ~isLoading /\ ~crossed /\ selectedDate \notin misled => text \in Notes[selectedDate]
    /\ \A s \in SaveIds : saves[s] # None /\ saves[s].date \notin misled =>
           saves[s].content \in Notes[saves[s].date]

OfDayInv == MemoTypeOK /\ LastLoadOfTheDay /\ CopiesOfTheDay /\ MemoOfItsDay

LEMMA OfDayInit == Init => OfDayInv
<1> SUFFICES ASSUME Init PROVE OfDayInv
  OBVIOUS
<1>1. MemoTypeOK
  BY InitTyped
<1>2. PICK l \in LoadIds : loads = [i \in LoadIds |->
          IF i = l THEN NewLoad(Today) ELSE None]
  BY DEF Init, EditorInit
<1>3. LastLoadOfTheDay
  BY <1>2 DEF Init, EditorInit, NewLoad, LastLoadOfTheDay
<1>4. CopiesOfTheDay
  BY <1>2 DEF Init, EditorInit, NewLoad, CopiesOfTheDay
<1>5. MemoOfItsDay
  BY DEF Init, EditorInit, MemoOfItsDay
<1> QED
  BY <1>1, <1>3, <1>4, <1>5 DEF OfDayInv

\* The screen turns to a day and asks for its memo.
LEMMA AskedOfDay ==
    ASSUME OfDayInv, NEW d \in Dates, LoadMemo(d), selectedDate' = d,
           UNCHANGED <<saves, misled>>
    PROVE  LastLoadOfTheDay' /\ CopiesOfTheDay'
<1> USE DEF OfDayInv
<1>1. PICK new : loads' = [l \in LoadIds |->
                              IF l = new THEN NewLoad(d) ELSE Overtaken(loads[l])]
  BY LoadAsked
<1>2. NewLoad(d).date = d /\ NewLoad(d).content = None
  BY DEF NewLoad
<1>3. ASSUME NEW l \in LoadIds, loads'[l] # None, l # new
      PROVE  /\ loads[l] # None /\ loads'[l].overtaken = TRUE
             /\ loads'[l].date = loads[l].date /\ loads'[l].content = loads[l].content
  <2>1. loads'[l] = Overtaken(loads[l]) /\ loads[l] \in Load \cup {None}
    BY <1>1, <1>3 DEF MemoTypeOK
  <2> QED
    BY <1>3, <2>1, OvertakenLoad
<1>4. \A l \in LoadIds : l = new => loads'[l] = NewLoad(d)
  BY <1>1
<1>5. LastLoadOfTheDay'
  BY <1>2, <1>3, <1>4 DEF LastLoadOfTheDay
<1>6. CopiesOfTheDay'
  BY <1>2, <1>3, <1>4, LoadAsked DEF CopiesOfTheDay
<1> QED
  BY <1>5, <1>6

LEMMA EditorOfDay ==
    ASSUME OfDayInv, EditorNext, MemoTypeOK'
    PROVE  OfDayInv'
<1> USE DEF OfDayInv, history
<1> DEFINE Goal == LastLoadOfTheDay' /\ CopiesOfTheDay' /\ MemoOfItsDay'
<1>1. ASSUME NEW l \in LoadIds, LoadReads(l)
      PROVE  Goal
  <2>1. loads[l] \in Load /\ loads[l].date \in Dates
    BY <1>1 DEF LoadReads, MemoTypeOK, Load
  <2>2. loads[l].date \notin misled =>
            memos[loads[l].date] \in {NoMemo} \cup Notes[loads[l].date]
    BY <2>1 DEF MemoOfItsDay
  <2>3. \A k \in LoadIds : loads'[k] =
            IF k = l THEN [loads[l] EXCEPT !.content = memos[loads[l].date]] ELSE loads[k]
    BY <1>1 DEF LoadReads, MemoTypeOK
  <2>4. [loads[l] EXCEPT !.content = memos[loads[l].date]].date = loads[l].date
    BY <2>1 DEF Load
  <2>5. /\ [loads[l] EXCEPT !.content = memos[loads[l].date]].content = memos[loads[l].date]
        /\ [loads[l] EXCEPT !.content = memos[loads[l].date]].overtaken = loads[l].overtaken
    BY <2>1 DEF Load
  <2>6. LastLoadOfTheDay'
    BY <1>1, <2>3, <2>4, <2>5 DEF LoadReads, LastLoadOfTheDay
  <2>7. CopiesOfTheDay'
    BY <1>1, <2>2, <2>3, <2>4, <2>5 DEF LoadReads, CopiesOfTheDay
  <2> QED
    BY <1>1, <2>6, <2>7 DEF LoadReads, MemoOfItsDay
<1>2. ASSUME NEW l \in LoadIds, LoadAnswered(l)
      PROVE  Goal
  <2>1. \A k \in LoadIds : loads'[k] = IF k = l THEN None ELSE loads[k]
    BY <1>2 DEF LoadAnswered, MemoTypeOK
  <2>2. LastLoadOfTheDay'
    BY <1>2, <2>1 DEF LoadAnswered, LastLoadOfTheDay
  <2>3. ASSUME ~crossed', selectedDate \notin misled PROVE text' \in Notes[selectedDate]
    <3>1. loads[l].date = selectedDate
      BY <1>2, <2>3 DEF LoadAnswered, LastLoadOfTheDay
    <3>2. loads[l].content \in {NoMemo} \cup Notes[selectedDate]
      BY <1>2, <2>3, <3>1 DEF LoadAnswered, CopiesOfTheDay
    <3>3. Empty \in Notes[selectedDate]
      BY NotesAssumption DEF MemoTypeOK
    <3> QED
      BY <1>2, <3>2, <3>3 DEF LoadAnswered, ContentOf
  <2>4. CopiesOfTheDay'
    BY <1>2, <2>1, <2>3 DEF LoadAnswered, CopiesOfTheDay
  <2> QED
    BY <1>2, <2>2, <2>4 DEF LoadAnswered, MemoOfItsDay
<1>3. ASSUME NEW l \in LoadIds, LoadFails(l)
      PROVE  Goal
  <2>1. \A k \in LoadIds : loads'[k] = IF k = l THEN None ELSE loads[k]
    BY <1>3 DEF LoadFails, MemoTypeOK
  <2> QED
    BY <1>3, <2>1 DEF LoadFails, LastLoadOfTheDay, CopiesOfTheDay, MemoOfItsDay
<1>4. ASSUME NEW d \in Dates, ChangeDate(d)
      PROVE  Goal
  <2>1. LastLoadOfTheDay' /\ CopiesOfTheDay'
    BY <1>4, AskedOfDay DEF ChangeDate
  <2> QED
    BY <1>4, <2>1 DEF ChangeDate, MemoOfItsDay
<1>5. ASSUME NEW d \in Dates, OpenMemoTab(d)
      PROVE  Goal
  <2>1. PICK l \in LoadIds : NewScreen(d, l)
    BY <1>5 DEF OpenMemoTab
  <2>2. /\ LastLoadOfTheDay' /\ isLoading' = TRUE /\ UNCHANGED <<memos, misled>>
        /\ \A k \in LoadIds : loads'[k] # None => loads'[k].content = None
    BY <1>5, <2>1 DEF OpenMemoTab, NewScreen, NewLoad, LastLoadOfTheDay
  <2>3. \A s \in SaveIds : saves'[s] # None =>
            /\ saves[s] # None
            /\ saves'[s].content = saves[s].content /\ saves'[s].date = saves[s].date
    <3>1. \A s \in SaveIds : saves[s] # None =>
              /\ [saves[s] EXCEPT !.mounted = FALSE].content = saves[s].content
              /\ [saves[s] EXCEPT !.mounted = FALSE].date = saves[s].date
      BY DEF MemoTypeOK, Save
    <3> QED
      BY <2>1, <3>1 DEF NewScreen
  <2>4. CopiesOfTheDay'
    BY <2>1, <2>2, <2>3 DEF NewScreen, CopiesOfTheDay
  <2> QED
    BY <2>2, <2>4 DEF MemoOfItsDay
<1>6. ASSUME NEW forward \in BOOLEAN, SwipeToMemoDate(forward)
      PROVE  Goal
  BY <1>6 DEF SwipeToMemoDate, LastLoadOfTheDay, CopiesOfTheDay, MemoOfItsDay
<1>7. ASSUME SearchFinds
      PROVE  Goal
  <2>1. PICK d \in Candidates : selectedDate' = d /\ LoadMemo(d)
    BY <1>7 DEF SearchFinds
  <2>2. d \in Dates
    BY DEF Candidates, MemoDates
  <2>3. LastLoadOfTheDay' /\ CopiesOfTheDay'
    BY <1>7, <2>1, <2>2, AskedOfDay DEF SearchFinds
  <2> QED
    BY <1>7, <2>3 DEF SearchFinds, MemoOfItsDay
<1>8. ASSUME SearchFindsNothing
      PROVE  Goal
  BY <1>8 DEF SearchFindsNothing, LastLoadOfTheDay, CopiesOfTheDay, MemoOfItsDay
<1>9. ASSUME NEW t \in Texts, TypeText(t)
      PROVE  Goal
  BY <1>9 DEF TypeText, LastLoadOfTheDay, CopiesOfTheDay, MemoOfItsDay
<1>10. ASSUME SaveMemo
       PROVE  Goal
  <2>1. misled \subseteq misled' /\ (selectedDate \notin misled' => text \in Notes[selectedDate])
    BY <1>10 DEF SaveMemo, CopiesOfTheDay
  <2>2. \A s \in SaveIds : saves'[s] = saves[s] \/ saves'[s] =
            [date |-> selectedDate, content |-> text, mounted |-> TRUE, step |-> "read"]
    BY <1>10 DEF SaveMemo, MemoTypeOK
  <2>3. CopiesOfTheDay'
    BY <1>10, <2>1, <2>2 DEF SaveMemo, CopiesOfTheDay
  <2> QED
    BY <1>10, <2>1, <2>3 DEF SaveMemo, LastLoadOfTheDay, MemoOfItsDay
<1>11. ASSUME NEW s \in SaveIds, SaveReads(s)
       PROVE  Goal
  <2>1. \A r \in SaveIds : saves'[r] # None =>
            /\ saves[r] # None
            /\ saves'[r].content = saves[r].content /\ saves'[r].date = saves[r].date
    BY <1>11 DEF SaveReads, MemoTypeOK, Save
  <2> QED
    BY <1>11, <2>1 DEF SaveReads, LastLoadOfTheDay, CopiesOfTheDay, MemoOfItsDay
<1>12. ASSUME NEW s \in SaveIds, SaveWrites(s)
       PROVE  Goal
  <2>1. \A r \in SaveIds : saves'[r] # None =>
            /\ saves[r] # None
            /\ saves'[r].content = saves[r].content /\ saves'[r].date = saves[r].date
    BY <1>12 DEF SaveWrites, MemoTypeOK, Save
  <2>2. /\ saves[s].date \in Dates
        /\ saves[s].date \notin misled => saves[s].content \in Notes[saves[s].date]
    BY <1>12 DEF SaveWrites, CopiesOfTheDay, MemoTypeOK, Save
  <2>3. memos' = memos \/ memos' = [memos EXCEPT ![saves[s].date] = saves[s].content]
    BY <1>12 DEF SaveWrites
  <2>4. MemoOfItsDay'
    BY <1>12, <2>2, <2>3 DEF SaveWrites, MemoOfItsDay, MemoTypeOK
  <2> QED
    BY <1>12, <2>1, <2>4 DEF SaveWrites, LastLoadOfTheDay, CopiesOfTheDay
<1>13. ASSUME NEW s \in SaveIds, SaveAnswered(s) \/ SaveFails(s)
       PROVE  Goal
  <2>1. \A r \in SaveIds : saves'[r] = None \/ saves'[r] = saves[r]
    BY <1>13 DEF SaveAnswered, SaveFails, MemoTypeOK
  <2> QED
    BY <1>13, <2>1 DEF SaveAnswered, SaveFails, LastLoadOfTheDay, CopiesOfTheDay, MemoOfItsDay
<1> QED
  BY <1>1, <1>2, <1>3, <1>4, <1>5, <1>6, <1>7, <1>8, <1>9, <1>10, <1>11, <1>12, <1>13
  DEF EditorNext

LEMMA CalendarOfDay ==
    ASSUME OfDayInv, CalendarNext, UNCHANGED editor, MemoTypeOK'
    PROVE  OfDayInv'
<1> USE DEF OfDayInv, editor, history
<1>1. \A d \in Dates : memos'[d] \in {memos[d], NoMemo}
  BY DEF CalendarNext, MemoDatesLoaded, ChangeMonth, ToggleEditMode, TapDay, ConfirmDelete,
         NextDeletion, IteratorThrows, DeletionEnds, DeleteMemo, MemoTypeOK
<1> QED
  BY <1>1 DEF LastLoadOfTheDay, CopiesOfTheDay, MemoOfItsDay

\* Whatever the user does while loads, saves and searches are out, a day holds a
\* text of another one only if it was saved while its memo was loading, or after
\* the answer of a load that a later one had overtaken.
THEOREM MemoOfItsDayAlways == Spec => []MemoOfItsDay
<1>1. OfDayInv /\ [Next]_vars => OfDayInv'
  <2> SUFFICES ASSUME OfDayInv, [Next]_vars PROVE OfDayInv'
    OBVIOUS
  <2>1. MemoTypeOK'
    BY StepTyped DEF OfDayInv
  <2>2. CASE UNCHANGED vars
    BY <2>1, <2>2 DEF vars, editor, history, calendar, OfDayInv, LastLoadOfTheDay,
       CopiesOfTheDay, MemoOfItsDay
  <2> QED
    BY <2>1, <2>2, EditorOfDay, CalendarOfDay DEF Next
<1>2. OfDayInv => MemoOfItsDay
  BY DEF OfDayInv
<1> QED
  BY OfDayInit, <1>1, <1>2, PTL DEF Spec

-----------------------------------------------------------------------------
(* What the user typed *)

\* A user who waits for every call before the next gesture.
Patient == {"overtake", "blind", "typeahead", "depart"} \cap Enabled = {}

\* At most one load is under way; it is for the day on the screen.
LoadsOfTheDay ==
    /\ \A l \in LoadIds : loads[l] # None => isLoading /\ loads[l].date = selectedDate
    /\ \A l, k \in LoadIds : loads[l] # None /\ loads[k] # None => l = k
    /\ search # None => ~isLoading

\* At most one save is under way, of the day on the screen, and the screen
\* waits for it.
SavesOfTheDay ==
    /\ \A s \in SaveIds : saves[s] # None =>
           isSaving /\ saves[s].mounted = TRUE /\ saves[s].date = selectedDate
    /\ \A s, r \in SaveIds : saves[s] # None /\ saves[r] # None => s = r
    /\ isSaving => ~isLoading /\ search = None

\* Unsaved text under a load or a search was given up by its user.
AskedFirst ==
    /\ isLoading /\ HasUnsavedChanges => agreed
    /\ search # None => ~HasUnsavedChanges

\* What is known to be stored is stored, or the calendar has deleted it.
KnownStored ==
    /\ \A l \in LoadIds : loads[l] # None /\ loads[l].content # None =>
           memos[loads[l].date] \in {loads[l].content, NoMemo}
    /\ \A s \in SaveIds : saves[s] # None /\ saves[s].step = "stored" =>
           memos[saves[s].date] \in {saves[s].content, NoMemo}
    /\ ~isLoading /\ (\A s \in SaveIds : saves[s] # None => saves[s].step # "stored") =>
           memos[selectedDate] \in {savedContent, NoMemo}

TextInv == MemoTypeOK /\ LoadsOfTheDay /\ SavesOfTheDay /\ AskedFirst /\ KnownStored

LEMMA NewDayLoads ==
    ASSUME MemoTypeOK, LoadsOfTheDay, ~isLoading, NEW d \in Dates, LoadMemo(d),
           selectedDate' = d, search' = None
    PROVE  /\ LoadsOfTheDay'
           /\ \A l \in LoadIds : loads'[l] # None => loads'[l].content = None
<1>1. \A l \in LoadIds : loads[l] = None
  BY DEF LoadsOfTheDay
<1>2. PICK new : loads' = [l \in LoadIds |->
                              IF l = new THEN NewLoad(d) ELSE Overtaken(loads[l])]
  BY LoadAsked
<1>3. \A l \in LoadIds : loads'[l] = IF l = new THEN NewLoad(d) ELSE None
  BY <1>1, <1>2 DEF Overtaken
<1>4. NewLoad(d).date = d /\ NewLoad(d).content = None
  BY DEF NewLoad
<1>5. isLoading' = TRUE
  BY LoadAsked
<1> QED
  BY <1>3, <1>4, <1>5 DEF LoadsOfTheDay

LEMMA NewScreenLoads ==
    ASSUME NEW d \in Dates, NEW l \in LoadIds, NewScreen(d, l)
    PROVE  /\ LoadsOfTheDay'
           /\ \A k \in LoadIds : loads'[k] # None => loads'[k].content = None
<1>1. \A k \in LoadIds : loads'[k] = IF k = l THEN NewLoad(d) ELSE None
  BY DEF NewScreen
<1> QED
  BY <1>1 DEF LoadsOfTheDay, NewScreen, NewLoad

LEMMA TextInit == Init => TextInv
<1> SUFFICES ASSUME Init PROVE TextInv
  OBVIOUS
<1>a. PICK l \in LoadIds : loads = [i \in LoadIds |->
          IF i = l THEN NewLoad(Today) ELSE None]
  BY DEF Init, EditorInit
<1>1. MemoTypeOK /\ LoadsOfTheDay
  BY <1>a, InitTyped DEF Init, EditorInit, NewLoad, LoadsOfTheDay
<1>2. \A k \in LoadIds : loads[k] # None => loads[k].content = None
  BY <1>a DEF NewLoad
<1>3. SavesOfTheDay /\ AskedFirst /\ KnownStored
  BY <1>2 DEF Init, EditorInit, SavesOfTheDay, AskedFirst, HasUnsavedChanges, KnownStored
<1> QED
  BY <1>1, <1>3 DEF TextInv

LEMMA NewDayText ==
    ASSUME TextInv, ~isLoading, ~isSaving, NEW d \in Dates, LoadMemo(d),
           selectedDate' = d, search' = None,
           UNCHANGED <<memos, text, savedContent, isSaving, saves>>,
           HasUnsavedChanges => agreed'
    PROVE  LoadsOfTheDay' /\ SavesOfTheDay' /\ AskedFirst' /\ KnownStored'
<1>1. LoadsOfTheDay' /\ \A l \in LoadIds : loads'[l] # None => loads'[l].content = None
  BY NewDayLoads DEF TextInv
<1>2. isLoading' = TRUE
  BY DEF LoadMemo
<1>3. \A s \in SaveIds : saves'[s] = None
  BY DEF TextInv, SavesOfTheDay
<1> QED
  BY <1>1, <1>2, <1>3 DEF SavesOfTheDay, AskedFirst, HasUnsavedChanges, KnownStored

LEMMA EditorKeepsText ==
    ASSUME Patient, TextInv, EditorNext, MemoTypeOK'
    PROVE  TextInv'
<1> USE DEF TextInv, Patient, history
<1> DEFINE Goal == LoadsOfTheDay' /\ SavesOfTheDay' /\ AskedFirst' /\ KnownStored'
<1>1. ASSUME NEW l \in LoadIds, LoadReads(l)
      PROVE  Goal
  <2>1. loads[l] \in Load
    BY <1>1 DEF LoadReads, MemoTypeOK
  <2> DEFINE read == [loads[l] EXCEPT !.content = memos[loads[l].date]]
  <2>2. read.date = loads[l].date /\ read.content = memos[loads[l].date]
    BY <2>1 DEF Load
  <2>3. loads[l] # None
    BY <1>1 DEF LoadReads
  <2>4. \A k \in LoadIds : loads'[k] = IF k = l THEN read ELSE loads[k]
    BY <1>1 DEF LoadReads, MemoTypeOK
  <2> HIDE DEF read
  <2>5. LoadsOfTheDay'
    BY <1>1, <2>2, <2>3, <2>4 DEF LoadReads, LoadsOfTheDay
  <2>6. KnownStored'
    BY <1>1, <2>2, <2>3, <2>4 DEF LoadReads, KnownStored
  <2> QED
    BY <1>1, <2>5, <2>6 DEF LoadReads, SavesOfTheDay, AskedFirst, HasUnsavedChanges
<1>2. ASSUME NEW l \in LoadIds, LoadAnswered(l)
      PROVE  Goal
  <2>1. \A k \in LoadIds : loads'[k] = None
    BY <1>2 DEF LoadAnswered, LoadsOfTheDay, MemoTypeOK
  <2>2. isLoading /\ ~isSaving /\ search = None /\ loads[l].date = selectedDate
    BY <1>2 DEF LoadAnswered, LoadsOfTheDay, SavesOfTheDay
  <2>3. memos[selectedDate] \in {loads[l].content, NoMemo}
    BY <1>2, <2>2 DEF LoadAnswered, KnownStored
  <2>4. memos'[selectedDate'] \in {savedContent', NoMemo}
    BY <1>2, <2>3 DEF LoadAnswered, ContentOf
  <2>5. \A s \in SaveIds : saves'[s] = None
    BY <1>2, <2>2 DEF LoadAnswered, SavesOfTheDay
  <2> QED
    BY <1>2, <2>1, <2>2, <2>4, <2>5
    DEF LoadAnswered, LoadsOfTheDay, SavesOfTheDay, AskedFirst, HasUnsavedChanges, KnownStored
<1>3. ASSUME NEW l \in LoadIds, LoadFails(l)
      PROVE  Goal
  <2>1. \A k \in LoadIds : loads'[k] = IF k = l THEN None ELSE loads[k]
    BY <1>3 DEF LoadFails, MemoTypeOK
  <2> QED
    BY <1>3, <2>1
    DEF LoadFails, LoadsOfTheDay, SavesOfTheDay, AskedFirst, HasUnsavedChanges, KnownStored
<1>4. ASSUME NEW d \in Dates, ChangeDate(d)
      PROVE  Goal
  <2>1. ~isLoading /\ ~isSaving /\ search' = None
    BY <1>4 DEF ChangeDate, MayLeave
  <2>2. HasUnsavedChanges => agreed'
    BY <1>4 DEF ChangeDate
  <2> QED
    BY <1>4, <2>1, <2>2, NewDayText DEF ChangeDate
<1>5. ASSUME NEW d \in Dates, OpenMemoTab(d)
      PROVE  Goal
  <2>1. PICK l \in LoadIds : NewScreen(d, l)
    BY <1>5 DEF OpenMemoTab
  <2>2. ~isSaving
    BY <1>5 DEF OpenMemoTab
  <2>3. LoadsOfTheDay' /\ \A k \in LoadIds : loads'[k] # None => loads'[k].content = None
    BY <2>1, NewScreenLoads
  <2>4. \A s \in SaveIds : saves'[s] = None
    BY <2>1, <2>2 DEF NewScreen, SavesOfTheDay
  <2> QED
    BY <2>1, <2>3, <2>4 DEF NewScreen, SavesOfTheDay, AskedFirst, HasUnsavedChanges, KnownStored
<1>6. ASSUME NEW forward \in BOOLEAN, SwipeToMemoDate(forward)
      PROVE  Goal
  BY <1>6 DEF SwipeToMemoDate, MayLeave, LoadsOfTheDay, SavesOfTheDay, AskedFirst,
              HasUnsavedChanges, KnownStored
<1>7. ASSUME SearchFinds
      PROVE  Goal
  <2>1. PICK d \in Candidates : selectedDate' = d /\ LoadMemo(d)
    BY <1>7 DEF SearchFinds
  <2>2. d \in Dates
    BY DEF Candidates, MemoDates
  <2>3. ~isLoading /\ ~isSaving /\ ~HasUnsavedChanges
    BY <1>7 DEF SearchFinds, LoadsOfTheDay, SavesOfTheDay, AskedFirst
  <2> QED
    BY <1>7, <2>1, <2>2, <2>3, NewDayText DEF SearchFinds
<1>8. ASSUME SearchFindsNothing
      PROVE  Goal
  BY <1>8 DEF SearchFindsNothing, LoadsOfTheDay, SavesOfTheDay, AskedFirst,
              HasUnsavedChanges, KnownStored
<1>9. ASSUME NEW t \in Texts, TypeText(t)
      PROVE  Goal
  BY <1>9 DEF TypeText, LoadsOfTheDay, SavesOfTheDay, AskedFirst, HasUnsavedChanges, KnownStored
<1>10. ASSUME SaveMemo
       PROVE  Goal
  <2> DEFINE new == [date |-> selectedDate, content |-> text, mounted |-> TRUE, step |-> "read"]
  <2>1. PICK s \in SaveIds : saves' = [saves EXCEPT ![s] = new]
    BY <1>10 DEF SaveMemo
  <2>2. \A r \in SaveIds : saves[r] = None
    BY <1>10 DEF SaveMemo, SavesOfTheDay
  <2>3. \A r \in SaveIds : saves'[r] = IF r = s THEN new ELSE None
    BY <2>1, <2>2 DEF MemoTypeOK
  <2>4. new.date = selectedDate /\ new.mounted = TRUE /\ new.step = "read"
    OBVIOUS
  <2> HIDE DEF new
  <2>5. SavesOfTheDay'
    BY <1>10, <2>3, <2>4 DEF SaveMemo, SavesOfTheDay
  <2>6. KnownStored'
    BY <1>10, <2>2, <2>3, <2>4 DEF SaveMemo, KnownStored
  <2> QED
    BY <1>10, <2>5, <2>6 DEF SaveMemo, LoadsOfTheDay, AskedFirst, HasUnsavedChanges
<1>11. ASSUME NEW s \in SaveIds, SaveReads(s)
       PROVE  Goal
  <2>1. \A r \in SaveIds : saves'[r] # None =>
            /\ saves[r] # None
            /\ saves'[r].content = saves[r].content /\ saves'[r].date = saves[r].date
            /\ saves'[r].mounted = saves[r].mounted
            /\ saves'[r].step = "stored" <=> saves[r].step = "stored"
    BY <1>11 DEF SaveReads, MemoTypeOK, Save
  <2>2. \A r \in SaveIds : saves[r] # None /\ saves[r].step = "stored" => saves'[r] = saves[r]
    BY <1>11 DEF SaveReads, MemoTypeOK
  <2> QED
    BY <1>11, <2>1, <2>2
    DEF SaveReads, LoadsOfTheDay, SavesOfTheDay, AskedFirst, HasUnsavedChanges, KnownStored
<1>12. ASSUME NEW s \in SaveIds, SaveWrites(s)
       PROVE  Goal
  <2>1. \A r \in SaveIds : saves'[r] # None =>
            /\ saves[r] # None
            /\ saves'[r].content = saves[r].content /\ saves'[r].date = saves[r].date
            /\ saves'[r].mounted = saves[r].mounted
    BY <1>12 DEF SaveWrites, MemoTypeOK, Save
  <2>2. LoadsOfTheDay' /\ SavesOfTheDay' /\ AskedFirst'
    BY <1>12, <2>1
    DEF SaveWrites, LoadsOfTheDay, SavesOfTheDay, AskedFirst, HasUnsavedChanges
  <2>3. \A r \in SaveIds : r # s => saves[r] = None /\ saves'[r] = None
    BY <1>12, <2>1 DEF SaveWrites, SavesOfTheDay
  <2>4. ~isLoading /\ saves[s].date = selectedDate /\ selectedDate \in Dates
    BY <1>12 DEF SaveWrites, SavesOfTheDay, MemoTypeOK
  <2>5. \A l \in LoadIds : loads'[l] = None
    BY <1>12, <2>4 DEF SaveWrites, LoadsOfTheDay
  <2>6. ASSUME saves[s].step = "update" /\ memos[saves[s].date] = NoMemo
        PROVE  KnownStored'
    <3>1. memos' = memos /\ memos[selectedDate] = NoMemo
      BY <1>12, <2>4, <2>6 DEF SaveWrites
    <3>2. \A r \in SaveIds : saves'[r] # None => saves'[r].date = selectedDate
      BY <1>12, <2>1 DEF SavesOfTheDay
    <3> QED
      BY <1>12, <2>5, <3>1, <3>2 DEF SaveWrites, KnownStored
  <2>7. ASSUME ~(saves[s].step = "update" /\ memos[saves[s].date] = NoMemo)
        PROVE  KnownStored'
    <3>1. memos'[selectedDate] = saves[s].content
      BY <1>12, <2>4, <2>7 DEF SaveWrites, MemoTypeOK
    <3>2. saves'[s] = [saves[s] EXCEPT !.step = "stored"]
      BY <1>12, <2>7 DEF SaveWrites, MemoTypeOK
    <3>3. saves'[s].step = "stored" /\ saves'[s] # None
      BY <1>12, <3>2, NotesAssumption DEF SaveWrites, MemoTypeOK, Save
    <3> QED
      BY <1>12, <2>1, <2>3, <2>4, <2>5, <3>1, <3>3 DEF SaveWrites, KnownStored
  <2> QED
    BY <2>2, <2>6, <2>7
<1>13. ASSUME NEW s \in SaveIds, SaveAnswered(s) \/ SaveFails(s)
       PROVE  Goal
  <2>1. \A r \in SaveIds : saves'[r] = None
    BY <1>13 DEF SaveAnswered, SaveFails, MemoTypeOK, SavesOfTheDay
  <2>2. isSaving /\ saves[s] # None /\ saves[s].mounted = TRUE /\ saves[s].date = selectedDate
    BY <1>13 DEF SaveAnswered, SaveFails, SavesOfTheDay
  <2>3. memos[selectedDate] \in {savedContent', NoMemo}
    BY <1>13, <2>2 DEF SaveAnswered, SaveFails, SavesOfTheDay, KnownStored
  <2>4. KnownStored'
    BY <1>13, <2>1, <2>2, <2>3 DEF SaveAnswered, SaveFails, KnownStored, SavesOfTheDay, LoadsOfTheDay
  <2> QED
    BY <1>13, <2>1, <2>2, <2>4
    DEF SaveAnswered, SaveFails, LoadsOfTheDay, SavesOfTheDay, AskedFirst, HasUnsavedChanges
<1> QED
  BY <1>1, <1>2, <1>3, <1>4, <1>5, <1>6, <1>7, <1>8, <1>9, <1>10, <1>11, <1>12, <1>13
  DEF EditorNext

LEMMA CalendarKeepsText ==
    ASSUME TextInv, CalendarNext, UNCHANGED editor, MemoTypeOK'
    PROVE  TextInv'
<1> USE DEF TextInv, editor, history
<1>1. \A d \in Dates : memos'[d] \in {memos[d], NoMemo}
  BY DEF CalendarNext, MemoDatesLoaded, ChangeMonth, ToggleEditMode, TapDay, ConfirmDelete,
         NextDeletion, IteratorThrows, DeletionEnds, DeleteMemo, MemoTypeOK
<1>2. selectedDate \in Dates
  BY DEF MemoTypeOK
<1>3. \A s \in SaveIds : saves[s] # None => saves[s].date \in Dates
  BY DEF MemoTypeOK, Save
<1>4. \A l \in LoadIds : loads[l] # None => loads[l].date \in Dates
  BY DEF MemoTypeOK, Load
<1>5. KnownStored'
  BY <1>1, <1>2, <1>3, <1>4 DEF KnownStored
<1> QED
  BY <1>5 DEF LoadsOfTheDay, SavesOfTheDay, AskedFirst, HasUnsavedChanges

LEMMA TextStep == Patient /\ TextInv /\ [Next]_vars => TextInv'
<1> SUFFICES ASSUME Patient, TextInv, [Next]_vars PROVE TextInv'
  OBVIOUS
<1>1. MemoTypeOK'
  BY StepTyped DEF TextInv
<1>2. CASE UNCHANGED vars
  BY <1>1, <1>2 DEF vars, editor, history, calendar, TextInv, LoadsOfTheDay, SavesOfTheDay,
     AskedFirst, HasUnsavedChanges, KnownStored
<1> QED
  BY <1>1, <1>2, EditorKeepsText, CalendarKeepsText DEF Next

LEMMA TextInvAlways == ASSUME Patient PROVE Spec => []TextInv
<1>1. TextInv /\ [Next]_vars => TextInv'
  BY TextStep
<1> QED
  BY TextInit, <1>1, PTL DEF Spec

\* For a user who waits for every answer, a screen without the mark for unsaved
\* text shows what is stored, unless the calendar has deleted it.
THEOREM CleanMeansStoredAlways == ASSUME Patient PROVE Spec => []CleanMeansStored
<1>1. TextInv => CleanMeansStored
  <2> SUFFICES ASSUME TextInv, ~isLoading, ~isSaving, ~HasUnsavedChanges
               PROVE  memos[selectedDate] \in {text, NoMemo}
    BY DEF CleanMeansStored
  <2> QED
    BY DEF TextInv, SavesOfTheDay, KnownStored, HasUnsavedChanges
<1> QED
  BY TextInvAlways, <1>1, PTL

\* For a user who waits for every answer, unsaved text is only lost after a
\* question, or to the home tab.
THEOREM TypedTextIsKeptAlways == ASSUME Patient PROVE Spec => TypedTextIsKept
<1> DEFINE Kept == text' # text /\ HasUnsavedChanges /\ ~Typing =>
                       agreed \/ \E d \in Dates : OpenMemoTab(d)
<1>1. TextInv /\ [Next]_vars => [Kept]_vars
  <2> SUFFICES ASSUME TextInv, Next, text' # text, HasUnsavedChanges, ~Typing,
                      ~ \E d \in Dates : OpenMemoTab(d)
               PROVE  agreed
    BY DEF Next
  <2>1. EditorNext
    BY DEF Next, editor
  <2>2. PICK l \in LoadIds : LoadAnswered(l)
    BY <2>1 DEF EditorNext, LoadReads, LoadFails, ChangeDate, SwipeToMemoDate, SearchFinds,
       SearchFindsNothing, Typing, SaveMemo, SaveReads, SaveWrites, SaveAnswered, SaveFails
  <2> QED
    BY <2>2 DEF LoadAnswered, TextInv, LoadsOfTheDay, AskedFirst
<1> QED
  BY TextInvAlways, <1>1, PTL DEF Spec, TypedTextIsKept

-----------------------------------------------------------------------------
(* The calendar *)

\* As long as the iterator has nothing to notice, the picked days are those
\* the dialog counted.
PickedIsConfirmed == loop # NoLoop /\ loop.changed = FALSE => picked = loop.confirmed

LoopInv == MemoTypeOK /\ PickedIsConfirmed

LEMMA LoopStep == LoopInv /\ [Next]_vars => LoopInv'
<1> SUFFICES ASSUME LoopInv, [Next]_vars PROVE PickedIsConfirmed'
  BY StepTyped DEF LoopInv
<1>1. CASE UNCHANGED calendar
  BY <1>1 DEF LoopInv, PickedIsConfirmed, calendar
<1>2. CASE CalendarNext
  <2> USE DEF LoopInv
  <2>1. ASSUME NEW x \in Loop
        PROVE  [x EXCEPT !.changed = TRUE].changed = TRUE
    BY DEF Loop
  <2>2. Disturbed = NoLoop \/ Disturbed.changed = TRUE
    BY <2>1 DEF Disturbed, MemoTypeOK
  <2>3. ASSUME NEW d \in Dates, NEW l \in Loop, DeleteMemo(d, l)
        PROVE  loop'.confirmed = l.confirmed /\ loop'.changed = l.changed
    BY <2>3 DEF DeleteMemo, Loop
  <2>4. CASE ToggleEditMode
    BY <2>2, <2>4 DEF ToggleEditMode, PickedIsConfirmed
  <2>5. CASE \E d \in Dates : TapDay(d)
    BY <2>2, <2>5 DEF TapDay, PickedIsConfirmed
  <2>6. ASSUME NEW d \in Dates, ConfirmDelete(d)
        PROVE  PickedIsConfirmed'
    <3>1. [confirmed |-> picked, done |-> {}, changed |-> FALSE] \in Loop
      BY DEF Loop, MemoTypeOK
    <3> QED
      BY <2>3, <2>6, <3>1 DEF ConfirmDelete, PickedIsConfirmed
  <2>7. ASSUME NEW d \in Dates, NextDeletion(d)
        PROVE  PickedIsConfirmed'
    <3>1. loop \in Loop
      BY <2>7 DEF NextDeletion, MemoTypeOK
    <3> QED
      BY <2>3, <2>7, <3>1 DEF NextDeletion, PickedIsConfirmed
  <2>8. CASE IteratorThrows \/ DeletionEnds
    BY <2>8 DEF IteratorThrows, DeletionEnds, PickedIsConfirmed
  <2>9. CASE (\E q \in QueryIds : MemoDatesLoaded(q)) \/ (\E m \in Months : ChangeMonth(m))
    BY <2>9 DEF MemoDatesLoaded, ChangeMonth, PickedIsConfirmed
  <2> QED
    BY <1>2, <2>4, <2>5, <2>6, <2>7, <2>8, <2>9 DEF CalendarNext
<1> QED
  BY <1>1, <1>2 DEF Next, vars

LEMMA LoopInvAlways == Spec => []LoopInv
<1>1. Init => LoopInv
  BY InitTyped DEF LoopInv, PickedIsConfirmed, Init, CalendarInit
<1> QED
  BY <1>1, LoopStep, PTL DEF Spec

\* Whatever the user taps while the loop waits, a memo is deleted only if its day
\* was picked when the dialog counted the days.
THEOREM OnlyConfirmedDeletedAlways == Spec => OnlyConfirmedDeleted
<1> DEFINE Confirmed == \A d \in Dates : memos[d] # NoMemo /\ memos'[d] = NoMemo =>
                            loop' # NoLoop /\ d \in loop'.confirmed
<1>1. LoopInv /\ [Next]_vars => [Confirmed]_vars
  <2> SUFFICES ASSUME LoopInv, Next, NEW d \in Dates, memos[d] # NoMemo, memos'[d] = NoMemo
               PROVE  loop' # NoLoop /\ d \in loop'.confirmed
    OBVIOUS
  <2> USE DEF LoopInv
  <2>1. ASSUME NEW s \in SaveIds, SaveWrites(s)
        PROVE  FALSE
    <3>1. saves[s].content \in Texts
      BY <2>1 DEF SaveWrites, MemoTypeOK, Save
    <3> QED
      BY <2>1, <3>1, MemoAssumption DEF SaveWrites, MemoTypeOK
  <2>2. ~EditorNext
    BY <2>1 DEF EditorNext, LoadReads, LoadAnswered, LoadFails, ChangeDate, OpenMemoTab,
       SwipeToMemoDate, SearchFinds, SearchFindsNothing, TypeText, SaveMemo, SaveReads,
       SaveAnswered, SaveFails
  <2>3. PICK e \in Dates : ConfirmDelete(e) \/ NextDeletion(e)
    BY <2>2 DEF Next, CalendarNext, MemoDatesLoaded, ChangeMonth, ToggleEditMode, TapDay,
       IteratorThrows, DeletionEnds
  <2>4. ASSUME NEW l \in Loop, DeleteMemo(e, l), l.confirmed = picked, e \in picked
        PROVE  loop' # NoLoop /\ d \in loop'.confirmed
    <3>1. loop' \in Loop /\ loop'.confirmed = picked
      BY <2>4 DEF DeleteMemo, Loop
    <3>2. d = e
      BY <2>4 DEF DeleteMemo, MemoTypeOK
    <3> QED
      BY <2>4, <3>1, <3>2, CalendarAssumption DEF Loop
  <2>5. CASE ConfirmDelete(e)
    <3>1. [confirmed |-> picked, done |-> {}, changed |-> FALSE] \in Loop
      BY DEF Loop, MemoTypeOK
    <3> QED
      BY <2>4, <2>5, <3>1 DEF ConfirmDelete
  <2>6. CASE NextDeletion(e)
    <3>1. loop \in Loop /\ loop.confirmed = picked
      BY <2>6 DEF NextDeletion, MemoTypeOK, PickedIsConfirmed
    <3> QED
      BY <2>4, <2>6, <3>1 DEF NextDeletion
  <2> QED
    BY <2>3, <2>5, <2>6
<1> QED
  BY LoopInvAlways, <1>1, PTL DEF Spec, OnlyConfirmedDeleted

\* A deletion that ends in success has deleted all that was confirmed.
THEOREM SuccessMeansAllDeletedAlways == Spec => SuccessMeansAllDeleted
<1> DEFINE AllDeleted == loop # NoLoop /\ loop' = NoLoop /\ isEditMode /\ ~isEditMode' =>
                             loop.confirmed \subseteq loop.done
<1>1. LoopInv /\ [Next]_vars => [AllDeleted]_vars
  <2> SUFFICES ASSUME LoopInv, Next, loop # NoLoop, loop' = NoLoop, isEditMode, ~isEditMode'
               PROVE  loop.confirmed \subseteq loop.done
    OBVIOUS
  <2>1. loop \in Loop
    BY DEF LoopInv, MemoTypeOK
  <2>2. Disturbed # NoLoop
    BY <2>1, CalendarAssumption DEF Disturbed, Loop
  <2>3. DeletionEnds
    BY <2>2 DEF Next, editor, calendar, CalendarNext, MemoDatesLoaded, ChangeMonth, ToggleEditMode,
       TapDay, ConfirmDelete, NextDeletion, IteratorThrows
  <2> QED
    BY <2>1, <2>3 DEF DeletionEnds, LoopInv, PickedIsConfirmed, Loop
<1> QED
  BY LoopInvAlways, <1>1, PTL DEF Spec, SuccessMeansAllDeleted
=============================================================================
