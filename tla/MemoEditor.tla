----------------------------- MODULE MemoEditor -----------------------------
(***************************************************************************)
(* The memo tab: MemoScreen with its load on every change of day, its      *)
(* save, its search for the next day with a memo, and MainNavigator, which *)
(* replaces the screen when the home tab opens the memo of a day.          *)
(*                                                                         *)
(* A load and a save are calls that answer later.  What the user may do    *)
(* while one is out is chosen by Enabled:                                  *)
(*   "overtake"   leave a day before its memo has come                     *)
(*   "blind"      press save before the memo of the day has come           *)
(*   "typeahead"  type while the search of a swipe is out                  *)
(*   "depart"     leave a day, or its screen, before a save has answered   *)
(*   "offline"    reads fail for want of a network                         *)
(***************************************************************************)
EXTENDS MemoStore

CONSTANTS
    Notes,      \* the texts the user writes on each day
    LoadIds,    \* bound: loads under way together
    SaveIds,    \* bound: saves under way together
    Enabled,
    None        \* no load, no save, no search, not read yet

VARIABLES
    selectedDate,
    text,        \* _textController.text
    savedContent,
    isLoading, isSaving,
    loads, saves, search,
    agreed,      \* history: the user has agreed to leave the text on the screen
    crossed,     \* history: the last load to answer was not the last one asked
    misled       \* history: the days saved while loading, or after such an answer

history == <<agreed, crossed, misled>>
editor == <<selectedDate, text, savedContent, isLoading, isSaving,
            loads, saves, search, history>>

\* overtaken: another load has been asked since.
Load == [date : Dates, content : Texts \cup {NoMemo, None}, overtaken : BOOLEAN]
Save == [date : Dates, content : Texts, mounted : BOOLEAN,
         step : {"read", "create", "update", "stored", "missing"}]
Search == [from : Dates, forward : BOOLEAN]

ASSUME NotesAssumption ==
    /\ Notes \in [Dates -> SUBSET Texts]
    /\ \A d \in Dates : Empty \in Notes[d]
    /\ None \notin Texts \cup {NoMemo} \cup Save

HasUnsavedChanges == text # savedContent

-----------------------------------------------------------------------------
(* Loads *)

NewLoad(d) == [date |-> d, content |-> None, overtaken |-> FALSE]

Overtaken(load) == IF load = None THEN None ELSE [load EXCEPT !.overtaken = TRUE]

\* getMemoOnce is called for day d and awaited.
AskFor(d) ==
    LET free == {l \in LoadIds : loads[l] = None}
        new  == CHOOSE l \in free : TRUE
    IN  /\ free # {}
        /\ loads' = [l \in LoadIds |-> IF l = new THEN NewLoad(d) ELSE Overtaken(loads[l])]

\* Variant: the text field stays while the memo loads.
LoadQuietly(d) == AskFor(d) /\ UNCHANGED isLoading

\* _loadMemo up to its await, after the day has become d.
LoadMemo(d) == AskFor(d) /\ isLoading' = TRUE

\* getMemoOnce reads the document at some moment before its answer arrives.
LoadReads(l) ==
    /\ loads[l] # None /\ loads[l].content = None
    /\ loads' = [loads EXCEPT ![l].content = memos[loads[l].date]]
    /\ UNCHANGED <<memos, selectedDate, text, savedContent, isLoading,
                   isSaving, saves, search, history>>

\* The answer goes to the screen, whatever its day is by now.
LoadAnswered(l) ==
    /\ loads[l] # None /\ loads[l].content # None
    /\ savedContent' = ContentOf(loads[l].content)
    /\ text' = ContentOf(loads[l].content)
    /\ isLoading' = FALSE
    /\ loads' = [loads EXCEPT ![l] = None]
    /\ agreed' = FALSE
    /\ crossed' = loads[l].overtaken
    /\ UNCHANGED <<memos, selectedDate, isSaving, saves, search, misled>>

\* Nothing catches the error of a load: the spinner stays.
LoadFails(l) ==
    /\ "offline" \in Enabled
    /\ loads[l] # None /\ loads[l].content = None
    /\ loads' = [loads EXCEPT ![l] = None]
    /\ UNCHANGED <<memos, selectedDate, text, savedContent, isLoading,
                   isSaving, saves, search, history>>

-----------------------------------------------------------------------------
(* Days *)

MayLeave ==
    /\ isLoading \/ search # None => "overtake" \in Enabled
    /\ isSaving => "depart" \in Enabled

\* The arrows, the calendar and the button for today offer every day up to
\* today.  _confirmUnsavedChanges asks first; a user who does not agree stays.
ChangeDate(d) ==
    /\ MayLeave
    /\ selectedDate' = d
    /\ LoadMemo(d)
    /\ agreed' = (agreed \/ HasUnsavedChanges)
    /\ UNCHANGED <<memos, text, savedContent, isSaving, saves, search, crossed,
                   misled>>

\* Variant: a swipe that does not look at the text.
SwipeUnasked(forward) ==
    /\ MayLeave /\ search = None
    /\ search' = [from |-> selectedDate, forward |-> forward]
    /\ UNCHANGED <<memos, selectedDate, text, savedContent, isLoading,
                   isSaving, loads, saves, history>>

\* A swipe is ignored while the text is not saved.
SwipeToMemoDate(forward) ==
    /\ ~HasUnsavedChanges
    /\ MayLeave /\ search = None
    /\ search' = [from |-> selectedDate, forward |-> forward]
    /\ UNCHANGED <<memos, selectedDate, text, savedContent, isLoading,
                   isSaving, loads, saves, history>>

\* getPrevMemoDate and getNextMemoDate: the days with a memo on that side.
Candidates ==
    {d \in MemoDates : IF search.forward THEN d > search.from ELSE d < search.from}

Nearest(d) == \A e \in Candidates : IF search.forward THEN d <= e ELSE e <= d

\* The nearest day with a memo is shown.
SearchFinds ==
    /\ search # None
    /\ search' = None
    /\ \E d \in Candidates : Nearest(d) /\ selectedDate' = d /\ LoadMemo(d)
    /\ UNCHANGED <<memos, text, savedContent, isSaving, saves, history>>

\* A dialog says that there is none, or the query fails.
SearchFindsNothing ==
    /\ search # None
    /\ Candidates = {} \/ "offline" \in Enabled
    /\ search' = None
    /\ UNCHANGED <<memos, selectedDate, text, savedContent, isLoading,
                   isSaving, loads, saves, history>>

-----------------------------------------------------------------------------
(* Text *)

\* The text field is not there while the screen loads.
TypeText(t) ==
    /\ ~isLoading
    /\ search # None => "typeahead" \in Enabled
    /\ t \in Notes[selectedDate] /\ t # text
    /\ text' = t
    /\ UNCHANGED <<memos, selectedDate, savedContent, isLoading, isSaving,
                   loads, saves, search, history>>

\* The button is there also while the screen loads.
SaveMemo ==
    /\ ~isSaving
    /\ isLoading => "blind" \in Enabled
    /\ search # None => "depart" \in Enabled
    /\ isSaving' = TRUE
    /\ \E s \in SaveIds :
           /\ saves[s] = None
           /\ saves' = [saves EXCEPT ![s] =
                  [date |-> selectedDate, content |-> text, mounted |-> TRUE, step |-> "read"]]
    /\ misled' = IF isLoading \/ crossed THEN misled \cup {selectedDate} ELSE misled
    /\ UNCHANGED <<memos, selectedDate, text, savedContent, isLoading, loads,
                   search, agreed, crossed>>

\* MemoService.saveMemo looks whether the document exists...
SaveReads(s) ==
    /\ saves[s] # None /\ saves[s].step = "read"
    /\ saves' = [saves EXCEPT ![s].step =
           IF memos[saves[s].date] = NoMemo THEN "create" ELSE "update"]
    /\ UNCHANGED <<memos, selectedDate, text, savedContent, isLoading,
                   isSaving, loads, search, history>>

\* ... and creates or updates it.  The update of a document deleted meanwhile
\* does nothing and is answered with an error.
SaveWrites(s) ==
    /\ saves[s] # None /\ saves[s].step \in {"create", "update"}
    /\ LET misses == saves[s].step = "update" /\ memos[saves[s].date] = NoMemo
       IN  /\ memos' = IF misses THEN memos
                       ELSE [memos EXCEPT ![saves[s].date] = saves[s].content]
           /\ saves' = [saves EXCEPT ![s].step = IF misses THEN "missing" ELSE "stored"]
    /\ UNCHANGED <<selectedDate, text, savedContent, isLoading, isSaving,
                   loads, search, history>>

\* Variant: what is in the field when the save answers counts as saved.
SaveAnsweredLate(s) ==
    /\ saves[s] # None /\ saves[s].step = "stored"
    /\ saves' = [saves EXCEPT ![s] = None]
    /\ savedContent' = IF saves[s].mounted THEN text ELSE savedContent
    /\ isSaving' = (isSaving /\ ~saves[s].mounted)
    /\ UNCHANGED <<memos, selectedDate, text, isLoading, loads, search, history>>

\* The screen that saved notes what it saved, on whatever day it is by now; a
\* screen that was replaced notes nothing.
SaveAnswered(s) ==
    /\ saves[s] # None /\ saves[s].step = "stored"
    /\ saves' = [saves EXCEPT ![s] = None]
    /\ savedContent' = IF saves[s].mounted THEN saves[s].content ELSE savedContent
    /\ isSaving' = (isSaving /\ ~saves[s].mounted)
    /\ UNCHANGED <<memos, selectedDate, text, isLoading, loads, search, history>>

\* Variant: only a success brings the button back.
SaveFailsSilently(s) ==
    /\ saves[s] # None
    /\ \/ saves[s].step = "missing"
       \/ saves[s].step = "read" /\ "offline" \in Enabled
    /\ saves' = [saves EXCEPT ![s] = None]
    /\ UNCHANGED <<memos, selectedDate, text, savedContent, isLoading, isSaving, loads,
                   search, history>>

\* An error: the text stays as it is, unsaved.
SaveFails(s) ==
    /\ saves[s] # None
    /\ \/ saves[s].step = "missing"
       \/ saves[s].step = "read" /\ "offline" \in Enabled
    /\ saves' = [saves EXCEPT ![s] = None]
    /\ isSaving' = (isSaving /\ ~saves[s].mounted)
    /\ UNCHANGED <<memos, selectedDate, text, savedContent, isLoading, loads,
                   search, history>>

-----------------------------------------------------------------------------
(* MainNavigator *)

\* A new MemoScreen for day d; the answers its predecessor waits for find it
\* unmounted.
NewScreen(d, l) ==
    /\ selectedDate' = d
    /\ text' = Empty /\ savedContent' = Empty
    /\ isLoading' = TRUE /\ isSaving' = FALSE
    /\ loads' = [i \in LoadIds |-> IF i = l THEN NewLoad(d) ELSE None]
    /\ saves' = [s \in SaveIds |->
           IF saves[s] = None THEN None ELSE [saves[s] EXCEPT !.mounted = FALSE]]
    /\ search' = None
    /\ agreed' = FALSE /\ crossed' = FALSE
    /\ UNCHANGED misled

\* openMemoTab with another moment than the last one: the key is new and the
\* screen is replaced, and nobody asks about the text on it.  With the same
\* moment the screen stays as it is.
OpenMemoTab(d) ==
    /\ isSaving => "depart" \in Enabled
    /\ \E l \in LoadIds : NewScreen(d, l)
    /\ UNCHANGED memos

EditorInit ==
    /\ memos \in [Dates -> Texts \cup {NoMemo}]
    /\ \A d \in Dates : memos[d] # NoMemo => memos[d] \in Notes[d]
    /\ selectedDate = Today
    /\ text = Empty /\ savedContent = Empty
    /\ isLoading = TRUE /\ isSaving = FALSE
    /\ \E l \in LoadIds :
           loads = [i \in LoadIds |-> IF i = l THEN NewLoad(Today) ELSE None]
    /\ saves = [s \in SaveIds |-> None]
    /\ search = None
    /\ agreed = FALSE /\ crossed = FALSE /\ misled = {}

EditorNext ==
    \/ \E l \in LoadIds : LoadReads(l) \/ LoadAnswered(l) \/ LoadFails(l)
    \/ \E d \in Dates : ChangeDate(d) \/ OpenMemoTab(d)
    \/ \E forward \in BOOLEAN : SwipeToMemoDate(forward)
    \/ SearchFinds \/ SearchFindsNothing
    \/ \E t \in Texts : TypeText(t)
    \/ SaveMemo
    \/ \E s \in SaveIds : SaveReads(s) \/ SaveWrites(s) \/ SaveAnswered(s) \/ SaveFails(s)
=============================================================================
