------------------------------ MODULE MemoTab ------------------------------
(***************************************************************************)
(* The memo screen and the calendar side by side: the tabs of              *)
(* MainNavigator are all alive, and both write the memos.                  *)
(***************************************************************************)
EXTENDS MemoEditor, TrendCalendar

vars == <<memos, editor, calendar>>

Init == EditorInit /\ CalendarInit

Next ==
    \/ EditorNext /\ UNCHANGED calendar
    \/ CalendarNext /\ UNCHANGED editor

Spec == Init /\ [][Next]_vars

\* The same while the calendar rests.
EditorSpec == Init /\ [][EditorNext /\ UNCHANGED calendar]_vars

\* Firestore answers what it is asked while the device is online.
SaveStep(s) == SaveReads(s) \/ SaveWrites(s) \/ SaveAnswered(s) \/ SaveFails(s)

FairSpec == Spec /\ \A s \in SaveIds : WF_vars(SaveStep(s) /\ UNCHANGED calendar)

-----------------------------------------------------------------------------
(* Types *)

\* Every variable holds a value of its type.
MemoTypeOK ==
    /\ memos \in [Dates -> Texts \cup {NoMemo}]
    /\ selectedDate \in Dates
    /\ text \in Texts /\ savedContent \in Texts
    /\ isLoading \in BOOLEAN /\ isSaving \in BOOLEAN
    /\ agreed \in BOOLEAN /\ crossed \in BOOLEAN /\ misled \subseteq Dates
    /\ loads \in [LoadIds -> Load \cup {None}]
    /\ saves \in [SaveIds -> Save \cup {None}]
    /\ search \in Search \cup {None}
    /\ currentMonth \in Months
    /\ tinted \subseteq Dates
    /\ queries \in [QueryIds -> Answer \cup {NoQuery}]
    /\ isEditMode \in BOOLEAN
    /\ picked \subseteq Dates
    /\ loop \in Loop \cup {NoLoop}

-----------------------------------------------------------------------------
(* The editor *)

\* A memo stored for a day was written on that day, whatever loads, saves and
\* changes of day were under way together, unless save was pressed while the
\* memo of the day was loading, or while an answer was on the screen that came
\* after the user had asked for another memo.  The screen looks at neither, and
\* in these two cases files the text of one day under another.
MemoOfItsDay ==
    \A d \in Dates : memos[d] # NoMemo /\ d \notin misled => memos[d] \in Notes[d]

\* The screen without the mark for unsaved text, and with nothing under way,
\* shows the stored memo, unless the calendar has deleted it meanwhile.
CleanMeansStored ==
    /\ ~isLoading /\ ~isSaving /\ search = None
    /\ ~HasUnsavedChanges
    => memos[selectedDate] \in {text, NoMemo}

Typing == \E t \in Texts : TypeText(t)

\* No step of the screen takes unsaved text away from a user who was not
\* asked; the replacement of the whole screen by MainNavigator is another
\* matter.
TypedTextIsKept ==
    [][text' # text /\ HasUnsavedChanges /\ ~Typing =>
          agreed \/ \E d \in Dates : OpenMemoTab(d)]_vars

\* Every save ends: the button comes back.
SavesEnd == isSaving ~> ~isSaving

-----------------------------------------------------------------------------
(* The calendar *)

\* A memo disappears only by a deletion whose dialog counted its day: days
\* picked while the loop waits for the server are not deleted with the rest.
OnlyConfirmedDeleted ==
    [][\A d \in Dates : memos[d] # NoMemo /\ memos'[d] = NoMemo =>
          loop' # NoLoop /\ d \in loop'.confirmed]_vars

\* A deletion that leaves edit mode, its sign of success, has deleted every
\* day that was confirmed.
SuccessMeansAllDeleted ==
    [][loop # NoLoop /\ loop' = NoLoop /\ isEditMode /\ ~isEditMode' =>
          loop.confirmed \subseteq loop.done]_vars
=============================================================================
