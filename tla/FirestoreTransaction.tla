------------------------ MODULE FirestoreTransaction ------------------------
(***************************************************************************)
(* The transactions of updateEnergyLog on the document of one day, as the  *)
(* Firestore client of the iOS build runs them: TransactionRunner starts   *)
(* an attempt, the attempt reads the document with its version, and its    *)
(* commit carries that version as a precondition, which the server checks. *)
(* A refused commit and a lost connection start the next attempt, as long  *)
(* as there are attempts left.                                             *)
(*                                                                         *)
(* The calls come from several places at once: the screen, the queue of    *)
(* taps that were undone, another device.  A commit whose connection was   *)
(* lost may still reach the server, at any later time.                     *)
(***************************************************************************)
EXTENDS EnergyDocument

CONSTANTS
    MaxAttempts,    \* max_attempts
    MaxDeletions    \* bound: deletions of the day

ASSUME AttemptAssumption == MaxAttempts \in Nat \ {0} /\ MaxDeletions \in Nat

VARIABLES
    document,
    version,      \* update time of the document, 0 without one
    clock,        \* the version of the last write
    deletions,
    step,         \* where each call is
    attempts,     \* attempts each call has begun
    snapshot,     \* what its attempt has read, and when
    requests,     \* commits on their way to the server
    lost,         \* history: calls that lost a connection
    times         \* history: how often each call was applied

server == <<document, version, clock, deletions>>
vars == <<server, step, attempts, snapshot, requests, lost, times>>

Steps == {"idle", "reading", "read", "committing", "stored", "refused", "ok", "failed"}

Snapshot == [version : Nat, records : Records, clock : Nat]

Errors == {"aborted", "already-exists", "failed-precondition", "unavailable", "permission-denied"}

\* IsRetryableTransactionError
IsRetryable(error) == error # "permission-denied"

-----------------------------------------------------------------------------
(* TransactionRunner *)

\* Run: one attempt less is left, and after the backoff it begins.
Run(c) ==
    /\ attempts' = [attempts EXCEPT ![c] = @ + 1]
    /\ step' = [step EXCEPT ![c] = "reading"]

\* Variant: the error of the last attempt is dropped.
SwallowTransactionError(c, error) ==
    IF attempts[c] < MaxAttempts /\ IsRetryable(error)
    THEN Run(c)
    ELSE step' = [step EXCEPT ![c] = "ok"] /\ UNCHANGED attempts

\* Variant: it retries without looking at the number of attempts left.
RetryTransactionError(c, error) ==
    IF IsRetryable(error)
    THEN Run(c)
    ELSE step' = [step EXCEPT ![c] = "failed"] /\ UNCHANGED attempts

\* Variant: the caller is not told of the last error.
DropTransactionError(c, error) ==
    IF attempts[c] < MaxAttempts /\ IsRetryable(error)
    THEN Run(c)
    ELSE UNCHANGED <<step, attempts>>

HandleTransactionError(c, error) ==
    IF attempts[c] < MaxAttempts /\ IsRetryable(error)
    THEN Run(c)
    ELSE step' = [step EXCEPT ![c] = "failed"] /\ UNCHANGED attempts

Start(c) ==
    /\ step[c] = "idle"
    /\ Run(c)
    /\ UNCHANGED <<server, snapshot, requests, lost, times>>

\* The server answers the read; RecordVersion keeps the version.
Lookup(c) ==
    /\ step[c] = "reading"
    /\ snapshot' = [snapshot EXCEPT ![c] =
           [version |-> version, records |-> RecordsOf(document), clock |-> clock]]
    /\ step' = [step EXCEPT ![c] = "read"]
    /\ UNCHANGED <<server, attempts, requests, lost, times>>

LookupDenied(c) ==
    /\ step[c] = "reading"
    /\ HandleTransactionError(c, "permission-denied")
    /\ UNCHANGED <<server, snapshot, requests, lost, times>>

\* The update function of EnergyService and the commit it ends with.
Commit(c) ==
    /\ step[c] = "read"
    /\ requests' = requests \cup
           {[call |-> c, attempt |-> attempts[c], version |-> snapshot[c].version,
             fields |-> Fields(snapshot[c].records, c)]}
    /\ step' = [step EXCEPT ![c] = "committing"]
    /\ UNCHANGED <<server, attempts, snapshot, lost, times>>

Committed(c) ==
    /\ step[c] = "stored"
    /\ step' = [step EXCEPT ![c] = "ok"]
    /\ UNCHANGED <<server, attempts, snapshot, requests, lost, times>>

Refused(c) ==
    /\ step[c] = "refused"
    /\ \E error \in {"aborted", "already-exists", "failed-precondition"} :
           HandleTransactionError(c, error)
    /\ UNCHANGED <<server, snapshot, requests, lost, times>>

\* The connection breaks while an answer is awaited, whether the server has
\* acted or not.
ConnectionLost(c) ==
    /\ step[c] \in {"reading", "committing", "stored", "refused"}
    /\ lost' = lost \cup {c}
    /\ HandleTransactionError(c, "unavailable")
    /\ UNCHANGED <<server, snapshot, requests, times>>

-----------------------------------------------------------------------------
(* The server *)

\* Variant: no precondition.
AnyVersion(r) == TRUE

\* Variant: whatever was read, the document may not exist.
NeverExists(r) == document = NoDocument

\* CreatePrecondition, and what the server makes of it: Exists(false) for a
\* document that was not there, otherwise UpdateTime of the version read.
Precondition(r) ==
    IF r.version = 0 THEN document = NoDocument ELSE version = r.version

\* Set merges: an hour the call has no record of stays.
Merged(fields) ==
    [fields EXCEPT !.records =
        [h \in Hours |-> IF fields.records[h] # Unset THEN fields.records[h]
                         ELSE RecordsOf(document)[h]]]

\* The answer goes to the attempt that waits for it.
Answer(r, answer) ==
    step' = IF step[r.call] = "committing" /\ attempts[r.call] = r.attempt
            THEN [step EXCEPT ![r.call] = answer] ELSE step

Store(r) ==
    /\ r \in requests /\ Precondition(r)
    /\ document' = Merged(r.fields)
    /\ clock' = clock + 1
    /\ version' = clock'
    /\ requests' = requests \ {r}
    /\ times' = [times EXCEPT ![r.call] = @ + 1]
    /\ Answer(r, "stored")
    /\ UNCHANGED <<deletions, attempts, snapshot, lost>>

Refuse(r) ==
    /\ r \in requests /\ ~Precondition(r)
    /\ requests' = requests \ {r}
    /\ Answer(r, "refused")
    /\ UNCHANGED <<server, attempts, snapshot, lost, times>>

\* deleteDailyLog, from the screen or from another device: a plain write.
DeleteDailyLog ==
    /\ document # NoDocument /\ deletions < MaxDeletions
    /\ deletions' = deletions + 1
    /\ document' = NoDocument
    /\ version' = 0
    /\ clock' = clock + 1
    /\ UNCHANGED <<step, attempts, snapshot, requests, lost, times>>

-----------------------------------------------------------------------------
(* Specification *)

Init ==
    /\ document = NoDocument /\ version = 0 /\ clock = 0 /\ deletions = 0
    /\ step = [c \in Calls |-> "idle"]
    /\ attempts = [c \in Calls |-> 0]
    /\ snapshot = [c \in Calls |-> [version |-> 0, records |-> NoRecords, clock |-> 0]]
    /\ requests = {}
    /\ lost = {}
    /\ times = [c \in Calls |-> 0]

Next ==
    \/ \E c \in Calls :
           Start(c) \/ Lookup(c) \/ LookupDenied(c) \/ Commit(c)
           \/ Committed(c) \/ Refused(c) \/ ConnectionLost(c)
    \/ \E r \in requests : Store(r) \/ Refuse(r)
    \/ DeleteDailyLog

\* An attempt goes on, and the server answers it, unless the connection breaks.
Goes(c) ==
    \/ Lookup(c) \/ Commit(c) \/ Committed(c) \/ Refused(c)
    \/ \E r \in requests : r.call = c /\ r.attempt = attempts[c] /\ (Store(r) \/ Refuse(r))

Spec == Init /\ [][Next]_vars

FairSpec == Spec /\ \A c \in Calls : WF_vars(Goes(c))

-----------------------------------------------------------------------------
(* Properties *)

Request == [call : Calls, attempt : 1..MaxAttempts, version : Nat, fields : Document]

\* Every variable holds a value of its type; no call begins more attempts than
\* it may.
TransactionTypeOK ==
    /\ document \in Document \cup {NoDocument}
    /\ version \in Nat /\ clock \in Nat /\ deletions \in 0..MaxDeletions
    /\ step \in [Calls -> Steps]
    /\ attempts \in [Calls -> 0..MaxAttempts]
    /\ snapshot \in [Calls -> Snapshot]
    /\ requests \subseteq Request
    /\ lost \subseteq Calls
    /\ times \in [Calls -> Nat]

\* The total is the sum of the active minutes recorded beside it, whatever
\* calls for other hours and other windows were under way together.
TotalOfRecords ==
    document # NoDocument =>
        document.totalActiveMinutes = ActiveMinutes(document.records, document.window, Unset)

\* A commit is refused only because another write came between its read and it,
\* so that of calls that collide one always succeeds.
RefusalHasCause ==
    \A c \in Calls : step[c] = "refused" => snapshot[c].clock < clock

\* A caller that is told of a success has stored its value, and as long as no
\* connection broke a success is stored once and a failure not at all.
OutcomeIsKnown ==
    \A c \in Calls :
        /\ step[c] \in {"stored", "ok"} => times[c] > 0
        /\ c \notin lost => times[c] = IF step[c] \in {"stored", "ok"} THEN 1 ELSE 0

AnswerOf(c) == {r \in requests : r.call = c /\ r.attempt = attempts[c]}

\* No call waits for nothing, or for two answers: a commit that is awaited is on
\* its way, whatever answers to earlier attempts come late, and it is the only one.
AnswerAwaited ==
    \A c \in Calls : step[c] = "committing" => \E r \in requests : AnswerOf(c) = {r}

\* How far an attempt has come.
Rank == [idle |-> 0, reading |-> 1, read |-> 2, committing |-> 3,
         stored |-> 4, refused |-> 4, ok |-> 5, failed |-> 5]

Progress(c) == 6 * attempts[c] + Rank[step[c]]

\* Whatever moves a call brings it nearer to its end: neither an answer that
\* comes late nor a retry sends it back.  The end is near, since attempts are few.
CallsAdvance ==
    [][\A c \in Calls : <<step[c], attempts[c]>>' # <<step[c], attempts[c]>> =>
                            Progress(c)' > Progress(c)]_vars

\* Every call ends: the attempts are used up or one succeeds.
CallsEnd == \A c \in Calls : step[c] # "idle" ~> step[c] \in {"ok", "failed"}

Outcome(c) == IF step[c] \in {"ok", "failed"} THEN step[c] ELSE "waiting"

Atomic == INSTANCE AtomicUpdates
    WITH applied <- {c \in Calls : times[c] > 0},
         outcome <- [c \in Calls |-> Outcome(c)]

\* Each call is applied to the document of the moment, although it computes
\* what it writes from one it read earlier.
AppliedAtomically == Atomic!Spec
=============================================================================
