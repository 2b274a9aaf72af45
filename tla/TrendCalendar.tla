--------------------------- MODULE TrendCalendar ---------------------------
(***************************************************************************)
(* The calendar of TrendScreen: the months it shows, the days it tints     *)
(* because they have a memo, its edit mode, and the loop that deletes the  *)
(* memos of the picked days one by one.                                    *)
(*                                                                         *)
(* The loop iterates over the set of picked days itself.  Dart's iterator  *)
(* throws when it moves on after the set has changed; the loop then ends   *)
(* where it is and the screen stays in edit mode.                          *)
(***************************************************************************)
EXTENDS MemoStore

CONSTANTS
    Months,
    MonthOf,    \* the month of each day
    NoLoop,     \* no deletion is under way
    QueryIds,   \* bound: queries for the memos of a month under way together
    NoQuery

ASSUME CalendarAssumption ==
    /\ MonthOf \in [Dates -> Months]
    /\ NoLoop \notin [confirmed : SUBSET Dates, done : SUBSET Dates, changed : BOOLEAN]
    /\ NoQuery \notin [dates : SUBSET Dates]

VARIABLES
    currentMonth,
    tinted,            \* _memoDates
    queries,           \* answers of getMemosInRange on their way
    isEditMode,
    picked,            \* _selectedEditDates
    loop               \* the deletion under way

calendar == <<currentMonth, tinted, queries, isEditMode, picked, loop>>

Answer == [dates : SUBSET Dates]
Loop == [confirmed : SUBSET Dates, done : SUBSET Dates, changed : BOOLEAN]

\* The days of month m whose memo has a character; unlike the search of the
\* memo screen this does not trim.
MemosInRange(m) ==
    [dates |-> {d \in Dates : MonthOf[d] = m /\ memos[d] # NoMemo /\ memos[d] # Empty}]

\* _loadMemoDates asks for the month shown, of the documents as they are now.
LoadMemoDates(m) ==
    \E q \in QueryIds :
        /\ queries[q] = NoQuery
        /\ queries' = [queries EXCEPT ![q] = MemosInRange(m)]

MemoDatesLoaded(q) ==
    /\ queries[q] # NoQuery
    /\ tinted' = queries[q].dates
    /\ queries' = [queries EXCEPT ![q] = NoQuery]
    /\ UNCHANGED <<memos, currentMonth, isEditMode, picked, loop>>

\* The arrows rest in edit mode.
ChangeMonth(m) ==
    /\ ~isEditMode /\ m # currentMonth
    /\ currentMonth' = m
    /\ LoadMemoDates(m)
    /\ UNCHANGED <<memos, tinted, isEditMode, picked, loop>>

\* What a change of the picked days means to the iterator of a loop.
Disturbed == IF loop = NoLoop THEN NoLoop ELSE [loop EXCEPT !.changed = TRUE]

\* The button "delete" or "cancel"; clearing the empty set changes nothing.
ToggleEditMode ==
    /\ isEditMode' = ~isEditMode
    /\ picked' = {}
    /\ loop' = IF picked = {} THEN loop ELSE Disturbed
    /\ UNCHANGED <<memos, currentMonth, tinted, queries>>

TapDay(d) ==
    /\ isEditMode /\ MonthOf[d] = currentMonth
    /\ picked' = IF d \in picked THEN picked \ {d} ELSE picked \cup {d}
    /\ loop' = Disturbed
    /\ UNCHANGED <<memos, currentMonth, tinted, queries, isEditMode>>

\* The document of d is deleted and the loop waits for the server.
DeleteMemo(d, l) ==
    /\ memos' = [memos EXCEPT ![d] = NoMemo]
    /\ loop' = [l EXCEPT !.done = @ \cup {d}]

\* The user confirms the number of days; the first is deleted at once.  One
\* deletion at a time: the bound of this model.
ConfirmDelete(d) ==
    /\ isEditMode /\ d \in picked /\ loop = NoLoop
    /\ DeleteMemo(d, [confirmed |-> picked, done |-> {}, changed |-> FALSE])
    /\ UNCHANGED <<currentMonth, tinted, queries, isEditMode, picked>>

\* Variant: the iterator does not notice that the set has changed.
NextDeletionRegardless(d) ==
    /\ loop # NoLoop /\ d \in picked \ loop.done
    /\ DeleteMemo(d, loop)
    /\ UNCHANGED <<currentMonth, tinted, queries, isEditMode, picked>>

\* A deletion has answered and the iterator moves on.
NextDeletion(d) ==
    /\ loop # NoLoop /\ ~loop.changed /\ d \in picked \ loop.done
    /\ DeleteMemo(d, loop)
    /\ UNCHANGED <<currentMonth, tinted, queries, isEditMode, picked>>

IteratorThrows ==
    /\ loop # NoLoop /\ loop.changed
    /\ loop' = NoLoop
    /\ UNCHANGED <<memos, currentMonth, tinted, queries, isEditMode, picked>>

\* Variant: the deletions are not awaited.
DeletionEndsEarly ==
    /\ loop # NoLoop /\ ~loop.changed
    /\ loop' = NoLoop
    /\ isEditMode' = FALSE /\ picked' = {}
    /\ LoadMemoDates(currentMonth)
    /\ UNCHANGED <<memos, currentMonth, tinted>>

\* The last deletion has answered: the screen leaves edit mode.
DeletionEnds ==
    /\ loop # NoLoop /\ ~loop.changed /\ picked \subseteq loop.done
    /\ loop' = NoLoop
    /\ isEditMode' = FALSE /\ picked' = {}
    /\ LoadMemoDates(currentMonth)
    /\ UNCHANGED <<memos, currentMonth, tinted>>

CalendarInit ==
    /\ currentMonth = MonthOf[Today]
    /\ tinted = {}
    /\ \E q \in QueryIds : queries = [i \in QueryIds |->
           IF i = q THEN MemosInRange(currentMonth) ELSE NoQuery]
    /\ isEditMode = FALSE /\ picked = {}
    /\ loop = NoLoop

CalendarNext ==
    \/ \E q \in QueryIds : MemoDatesLoaded(q)
    \/ \E m \in Months : ChangeMonth(m)
    \/ ToggleEditMode
    \/ \E d \in Dates : TapDay(d) \/ ConfirmDelete(d) \/ NextDeletion(d)
    \/ IteratorThrows \/ DeletionEnds
=============================================================================
