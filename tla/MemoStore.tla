----------------------------- MODULE MemoStore -----------------------------
(***************************************************************************)
(* The memos of one user, as the device sees them: Firestore applies a     *)
(* write of the device to its local view when it is issued, so that the    *)
(* memo screen and the calendar, which share nothing else, see each        *)
(* other's writes at once.                                                 *)
(***************************************************************************)
EXTENDS Integers

CONSTANTS
    Dates,      \* days, as integers
    Today,      \* the last of them
    Texts,      \* contents of a memo
    Empty,      \* the content without a character
    Blanks,     \* the contents that trim to the empty one
    NoMemo      \* the day has no document

ASSUME MemoAssumption ==
    /\ Dates \subseteq Int /\ Today \in Dates
    /\ \A d \in Dates : d <= Today
    /\ Empty \in Blanks /\ Blanks \subseteq Texts
    /\ NoMemo \notin Texts

VARIABLE memos     \* the document daily_memos of each day

\* Variant: without "?? ''".
ContentAsRead(m) == m

\* The content a screen shows for what getMemoOnce returns.
ContentOf(m) == IF m = NoMemo THEN Empty ELSE m

\* getMemoDatesSorted: the days whose memo is more than white space.
MemoDates == {d \in Dates : memos[d] # NoMemo /\ memos[d] \notin Blanks}
=============================================================================
