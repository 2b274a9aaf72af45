---------------------------- MODULE AtomicUpdates ----------------------------
(***************************************************************************)
(* What updateEnergyLog relies on: a call is applied to the document as it *)
(* is at that moment, never to an older one, and is reported done only     *)
(* after that.                                                             *)
(*                                                                         *)
(* The two weaknesses of the promise are part of it.  A call that is not   *)
(* reported done may be applied all the same, even more than once and even *)
(* after its failure was reported; and a call that was reported done may   *)
(* be applied again when the document has been deleted since.              *)
(***************************************************************************)
CONSTANTS
    Calls,
    NoDocument,
    Updated(_, _)     \* what a call makes of a document

VARIABLES
    document,
    applied,      \* the calls that have been applied
    outcome       \* what each call was told: "waiting", "ok" or "failed"

vars == <<document, applied, outcome>>

Init ==
    /\ document = NoDocument
    /\ applied = {}
    /\ outcome = [c \in Calls |-> "waiting"]

Apply(c) ==
    /\ outcome[c] = "ok" => document = NoDocument
    /\ document' = Updated(document, c)
    /\ applied' = applied \cup {c}
    /\ UNCHANGED outcome

Report(c) ==
    /\ outcome[c] = "waiting"
    /\ \E o \in {"ok", "failed"} :
           /\ o = "ok" => c \in applied
           /\ outcome' = [outcome EXCEPT ![c] = o]
    /\ UNCHANGED <<document, applied>>

Delete ==
    /\ document' = NoDocument
    /\ UNCHANGED <<applied, outcome>>

Next == (\E c \in Calls : Apply(c) \/ Report(c)) \/ Delete

Spec == Init /\ [][Next]_vars
=============================================================================
