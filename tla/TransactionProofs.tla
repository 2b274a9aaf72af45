-------------------------- MODULE TransactionProofs --------------------------
(***************************************************************************)
(* Proofs about FirestoreTransaction, for any number of calls, any hours,  *)
(* windows and minutes, and any number of attempts and deletions.          *)
(***************************************************************************)
EXTENDS FirestoreTransaction, TLAPS

-----------------------------------------------------------------------------
(* Documents *)

LEMMA RecordsOfIsRecords ==
    ASSUME NEW doc \in Document \cup {NoDocument}
    PROVE  RecordsOf(doc) \in Records
  BY DEF RecordsOf, Records, NoRecords, Document

LEMMA WithCallIsRecords ==
    ASSUME NEW records \in Records, NEW c \in Calls
    PROVE  WithCall(records, c) \in Records
  BY CallAssumption DEF WithCall, Records

LEMMA FieldsIsDocument ==
    ASSUME NEW records \in Records, NEW c \in Calls
    PROVE  Fields(records, c) \in Document
<1>1. WithCall(records, c) \in Records /\ WindowOf[c] \in Window
  BY WithCallIsRecords, CallAssumption
<1>2. ActiveMinutes(WithCall(records, c), WindowOf[c], Unset) \in Totals
  BY <1>1 DEF Totals
<1> QED
  BY <1>1, <1>2 DEF Fields, Document

LEMMA MergedIsDocument ==
    ASSUME document \in Document \cup {NoDocument}, NEW fields \in Document
    PROVE  Merged(fields) \in Document
<1>1. [h \in Hours |-> IF fields.records[h] # Unset THEN fields.records[h]
                       ELSE RecordsOf(document)[h]] \in Records
  BY RecordsOfIsRecords DEF Document, Records
<1> QED
  BY <1>1 DEF Merged, Document

\* To merge what a call computed from the records of the document into that
\* document is to set it.
LEMMA MergeIsSet ==
    ASSUME document \in Document \cup {NoDocument}, NEW c \in Calls
    PROVE  Merged(Fields(RecordsOf(document), c)) = Fields(RecordsOf(document), c)
<1> DEFINE old == RecordsOf(document)
           new == WithCall(old, c)
<1>1. old \in Records
  BY RecordsOfIsRecords
<1>2. new \in Records
  BY <1>1, WithCallIsRecords
<1>3. \A h \in Hours : new[h] = Unset => old[h] = Unset
  BY <1>1, CallAssumption DEF WithCall, Records
<1>4. Fields(old, c).records = new
  BY DEF Fields
<1>5. Fields(old, c) \in Document
  BY <1>1, FieldsIsDocument
<1> HIDE DEF old, new
<1>6. [h \in Hours |-> IF new[h] # Unset THEN new[h] ELSE old[h]] = new
  BY <1>1, <1>2, <1>3 DEF Records
<1>7. [Fields(old, c) EXCEPT !.records = new] = Fields(old, c)
  BY <1>4, <1>5 DEF Document
<1>8. Merged(Fields(old, c)) = [Fields(old, c) EXCEPT !.records =
          [h \in Hours |-> IF new[h] # Unset THEN new[h] ELSE old[h]]]
  BY <1>4 DEF Merged, old
<1> QED
  BY <1>6, <1>7, <1>8 DEF old

-----------------------------------------------------------------------------
(* Types *)

LEMMA ErrorHandled ==
    ASSUME TransactionTypeOK, NEW c \in Calls, NEW error, HandleTransactionError(c, error),
           step[c] \notin {"idle", "ok", "failed"}
    PROVE  /\ step' \in [Calls -> Steps] /\ attempts' \in [Calls -> 0..MaxAttempts]
           /\ \A d \in Calls : d # c => step'[d] = step[d] /\ attempts'[d] = attempts[d]
           /\ \/ step'[c] = "reading" /\ attempts'[c] = attempts[c] + 1
              \/ step'[c] = "failed" /\ attempts'[c] = attempts[c]
<1>1. CASE attempts[c] < MaxAttempts /\ IsRetryable(error)
  BY <1>1, AttemptAssumption DEF HandleTransactionError, Run, TransactionTypeOK, Steps
<1>2. CASE ~(attempts[c] < MaxAttempts /\ IsRetryable(error))
  BY <1>2 DEF HandleTransactionError, TransactionTypeOK, Steps
<1> QED
  BY <1>1, <1>2

LEMMA Answered ==
    ASSUME TransactionTypeOK, NEW r \in requests, NEW answer \in {"stored", "refused"},
           Answer(r, answer)
    PROVE  /\ step' \in [Calls -> Steps]
           /\ \A c \in Calls : c # r.call => step'[c] = step[c]
           /\ \/ /\ step[r.call] = "committing" /\ attempts[r.call] = r.attempt
                 /\ step'[r.call] = answer
              \/ step'[r.call] = step[r.call] /\
                 ~(step[r.call] = "committing" /\ attempts[r.call] = r.attempt)
<1>1. r.call \in Calls
  BY DEF TransactionTypeOK, Request
<1>2. CASE step[r.call] = "committing" /\ attempts[r.call] = r.attempt
  BY <1>1, <1>2 DEF Answer, TransactionTypeOK, Steps
<1>3. CASE ~(step[r.call] = "committing" /\ attempts[r.call] = r.attempt)
  BY <1>1, <1>3 DEF Answer, TransactionTypeOK
<1> QED
  BY <1>2, <1>3

LEMMA TypedInit == Init => TransactionTypeOK
<1> SUFFICES ASSUME Init PROVE TransactionTypeOK
  OBVIOUS
<1>1. [version |-> 0, records |-> NoRecords, clock |-> 0] \in Snapshot
  BY DEF Snapshot, Records, NoRecords
<1> QED
  BY <1>1, AttemptAssumption DEF Init, TransactionTypeOK, Steps

\* A call has begun an attempt exactly if it is not idle.
IdleIsFresh == \A c \in Calls : step[c] = "idle" <=> attempts[c] = 0

LEMMA TypedStep == TransactionTypeOK /\ IdleIsFresh /\ [Next]_vars => TransactionTypeOK' /\ IdleIsFresh'
<1> SUFFICES ASSUME TransactionTypeOK, IdleIsFresh, [Next]_vars
             PROVE  TransactionTypeOK' /\ IdleIsFresh'
  OBVIOUS
<1> DEFINE Goal == TransactionTypeOK' /\ IdleIsFresh'
<1> USE DEF server
<1>0. CASE UNCHANGED vars
  BY <1>0 DEF vars, TransactionTypeOK, IdleIsFresh
<1>1. ASSUME NEW c \in Calls, Start(c)
      PROVE  Goal
  BY <1>1, AttemptAssumption DEF Start, Run, TransactionTypeOK, IdleIsFresh, Steps
<1>2. ASSUME NEW c \in Calls, Lookup(c)
      PROVE  Goal
  <2>1. [version |-> version, records |-> RecordsOf(document), clock |-> clock] \in Snapshot
    BY RecordsOfIsRecords DEF TransactionTypeOK, Snapshot
  <2> QED
    BY <1>2, <2>1 DEF Lookup, TransactionTypeOK, IdleIsFresh, Steps
<1>3. ASSUME NEW c \in Calls, LookupDenied(c) \/ Refused(c) \/ ConnectionLost(c)
      PROVE  Goal
  <2>1. /\ step' \in [Calls -> Steps] /\ attempts' \in [Calls -> 0..MaxAttempts]
        /\ \A d \in Calls : d # c => step'[d] = step[d] /\ attempts'[d] = attempts[d]
        /\ step'[c] \in {"reading", "failed"} /\ attempts'[c] \in {attempts[c], attempts[c] + 1}
        /\ step[c] # "idle"
    BY <1>3, ErrorHandled DEF LookupDenied, Refused, ConnectionLost
  <2>2. lost' \subseteq Calls
    BY <1>3 DEF LookupDenied, Refused, ConnectionLost, TransactionTypeOK
  <2>3. UNCHANGED <<server, snapshot, requests, times>>
    BY <1>3 DEF LookupDenied, Refused, ConnectionLost
  <2>4. attempts[c] \in Nat /\ attempts[c] # 0
    BY <2>1 DEF TransactionTypeOK, IdleIsFresh
  <2>5. attempts'[c] # 0
    BY <2>1, <2>4
  <2>6. IdleIsFresh'
    BY <2>1, <2>5 DEF IdleIsFresh
  <2>7. TransactionTypeOK'
    BY <2>1, <2>2, <2>3 DEF TransactionTypeOK
  <2> QED
    BY <2>6, <2>7
<1>4. ASSUME NEW c \in Calls, Commit(c)
      PROVE  Goal
  <2>1. snapshot[c].version \in Nat /\ Fields(snapshot[c].records, c) \in Document
    BY FieldsIsDocument DEF TransactionTypeOK, Snapshot
  <2>2. attempts[c] \in 1..MaxAttempts
    BY <1>4 DEF Commit, TransactionTypeOK, IdleIsFresh
  <2>3. requests' \subseteq Request
    BY <1>4, <2>1, <2>2 DEF Commit, TransactionTypeOK, Request
  <2> QED
    BY <1>4, <2>3 DEF Commit, TransactionTypeOK, IdleIsFresh, Steps
<1>5. ASSUME NEW c \in Calls, Committed(c)
      PROVE  Goal
  BY <1>5 DEF Committed, TransactionTypeOK, IdleIsFresh, Steps
<1>6. ASSUME NEW r \in requests, Store(r)
      PROVE  Goal
  <2>1. r.call \in Calls /\ r.fields \in Document
    BY DEF TransactionTypeOK, Request
  <2>2. document' \in Document
    BY <1>6, <2>1, MergedIsDocument DEF Store, TransactionTypeOK
  <2>3. step' \in [Calls -> Steps] /\ IdleIsFresh'
    BY <1>6, <2>1, Answered DEF Store, TransactionTypeOK, IdleIsFresh
  <2>4. times' \in [Calls -> Nat]
    BY <1>6, <2>1 DEF Store, TransactionTypeOK
  <2> QED
    BY <1>6, <2>2, <2>3, <2>4 DEF Store, TransactionTypeOK
<1>7. ASSUME NEW r \in requests, Refuse(r)
      PROVE  Goal
  <2>1. step' \in [Calls -> Steps] /\ IdleIsFresh'
    BY <1>7, Answered DEF Refuse, TransactionTypeOK, IdleIsFresh
  <2> QED
    BY <1>7, <2>1 DEF Refuse, TransactionTypeOK
<1>8. CASE DeleteDailyLog
  BY <1>8, AttemptAssumption DEF DeleteDailyLog, TransactionTypeOK, IdleIsFresh
<1> QED
  BY <1>0, <1>1, <1>2, <1>3, <1>4, <1>5, <1>6, <1>7, <1>8 DEF Next

-----------------------------------------------------------------------------
(* Versions: what was read is what is there, as long as the version is *)

VersionsGrow ==
    /\ document = NoDocument <=> version = 0
    /\ version <= clock
    /\ \A c \in Calls : snapshot[c].version <= snapshot[c].clock /\ snapshot[c].clock <= clock
    /\ \A r \in requests : r.version <= clock

\* A version names one state of the document.
VersionsName ==
    /\ \A c \in Calls :
           /\ snapshot[c].version = 0 => snapshot[c].records = NoRecords
           /\ snapshot[c].version # 0 /\ snapshot[c].version = version =>
                  snapshot[c].records = RecordsOf(document)
           /\ snapshot[c].clock = clock => snapshot[c].version = version
    /\ \A r \in requests :
           /\ r.version = 0 => r.fields = Fields(NoRecords, r.call)
           /\ r.version # 0 /\ r.version = version =>
                  r.fields = Fields(RecordsOf(document), r.call)

\* What a call still has on its way to the server.
RequestsOfCall ==
    \A r \in requests :
        /\ r.attempt <= attempts[r.call]
        /\ step[r.call] \in {"idle", "reading", "read"} => r.attempt < attempts[r.call]
        /\ step[r.call] = "committing" /\ r.attempt = attempts[r.call] =>
               r.version = snapshot[r.call].version
        /\ step[r.call] \in {"stored", "ok"} => r.version = 0 \/ r.version # version

\* A call that lost no connection has at most one commit out, and waits for it.
CallsWithoutLoss ==
    /\ \A r \in requests : r.call \notin lost =>
           step[r.call] = "committing" /\ r.attempt = attempts[r.call]
    /\ \A r, q \in requests : r.call \notin lost /\ q.call = r.call => q = r

TransactionInv ==
    /\ TransactionTypeOK /\ IdleIsFresh
    /\ VersionsGrow /\ VersionsName
    /\ RequestsOfCall /\ CallsWithoutLoss
    /\ TotalOfRecords /\ RefusalHasCause /\ OutcomeIsKnown

LEMMA InvInit == Init => TransactionInv
<1> SUFFICES ASSUME Init PROVE TransactionInv
  OBVIOUS
<1>1. TransactionTypeOK
  BY TypedInit
<1>2. IdleIsFresh /\ VersionsGrow /\ VersionsName /\ RequestsOfCall /\ CallsWithoutLoss
  BY DEF Init, IdleIsFresh, VersionsGrow, VersionsName, RequestsOfCall, CallsWithoutLoss,
     RecordsOf
<1>3. TotalOfRecords /\ RefusalHasCause /\ OutcomeIsKnown
  BY DEF Init, TotalOfRecords, RefusalHasCause, OutcomeIsKnown
<1> QED
  BY <1>1, <1>2, <1>3 DEF TransactionInv

LEMMA StartInv ==
    ASSUME TransactionInv, NEW c \in Calls, Start(c), TransactionTypeOK', IdleIsFresh'
    PROVE  TransactionInv'
<1> USE DEF TransactionInv, server
<1>1. /\ step' = [step EXCEPT ![c] = "reading"] /\ attempts' = [attempts EXCEPT ![c] = @ + 1]
      /\ step[c] = "idle"
      /\ UNCHANGED <<server, snapshot, requests, lost, times>>
  BY DEF Start, Run
<1>2. VersionsGrow' /\ VersionsName' /\ TotalOfRecords'
  BY <1>1 DEF VersionsGrow, VersionsName, TotalOfRecords, RecordsOf
<1>3. RequestsOfCall' /\ CallsWithoutLoss'
  BY <1>1 DEF RequestsOfCall, CallsWithoutLoss, TransactionTypeOK, Request
<1>4. RefusalHasCause' /\ OutcomeIsKnown'
  BY <1>1 DEF RefusalHasCause, OutcomeIsKnown, TransactionTypeOK
<1> QED
  BY <1>2, <1>3, <1>4

LEMMA LookupInv ==
    ASSUME TransactionInv, NEW c \in Calls, Lookup(c), TransactionTypeOK', IdleIsFresh'
    PROVE  TransactionInv'
<1> USE DEF TransactionInv, server
<1>1. /\ step' = [step EXCEPT ![c] = "read"] /\ step[c] = "reading"
      /\ UNCHANGED <<server, attempts, requests, lost, times>>
  BY DEF Lookup
<1>2. \A d \in Calls : d # c => snapshot'[d] = snapshot[d]
  BY DEF Lookup, TransactionTypeOK
<1>3. snapshot'[c].version = version /\ snapshot'[c].clock = clock
      /\ snapshot'[c].records = RecordsOf(document)
  BY DEF Lookup, TransactionTypeOK
<1>4. clock \in Nat /\ version \in Nat
  BY DEF TransactionTypeOK
<1>5. VersionsGrow'
  BY <1>1, <1>2, <1>3, <1>4 DEF VersionsGrow
<1>6. VersionsName' /\ TotalOfRecords'
  BY <1>1, <1>2, <1>3 DEF VersionsName, VersionsGrow, TotalOfRecords, RecordsOf
<1>7. RequestsOfCall' /\ CallsWithoutLoss'
  BY <1>1, <1>2 DEF RequestsOfCall, CallsWithoutLoss, TransactionTypeOK, Request
<1>8. RefusalHasCause' /\ OutcomeIsKnown'
  BY <1>1, <1>2 DEF RefusalHasCause, OutcomeIsKnown, TransactionTypeOK
<1> QED
  BY <1>5, <1>6, <1>7, <1>8

LEMMA ErrorInv ==
    ASSUME TransactionInv, NEW c \in Calls, TransactionTypeOK', IdleIsFresh',
           LookupDenied(c) \/ Refused(c) \/ ConnectionLost(c)
    PROVE  TransactionInv'
<1> USE DEF TransactionInv, server
<1>1. /\ \A d \in Calls : d # c => step'[d] = step[d] /\ attempts'[d] = attempts[d]
      /\ \/ step'[c] = "reading" /\ attempts'[c] = attempts[c] + 1
         \/ step'[c] = "failed" /\ attempts'[c] = attempts[c]
  BY ErrorHandled DEF LookupDenied, Refused, ConnectionLost
<1>2. UNCHANGED <<server, snapshot, requests, times>>
  BY DEF LookupDenied, Refused, ConnectionLost
<1>3. lost \subseteq lost' /\ lost' \subseteq lost \cup {c}
      /\ (c \notin lost' => step[c] \in {"reading", "refused"})
  BY DEF LookupDenied, Refused, ConnectionLost
<1>4. VersionsGrow' /\ VersionsName' /\ TotalOfRecords'
  BY <1>2 DEF VersionsGrow, VersionsName, TotalOfRecords, RecordsOf
<1>5. RequestsOfCall'
  BY <1>1, <1>2 DEF RequestsOfCall, TransactionTypeOK, Request
<1>6. CallsWithoutLoss'
  BY <1>1, <1>2, <1>3 DEF CallsWithoutLoss, TransactionTypeOK, Request
<1>7. RefusalHasCause' /\ OutcomeIsKnown'
  BY <1>1, <1>2, <1>3 DEF RefusalHasCause, OutcomeIsKnown
<1> QED
  BY <1>4, <1>5, <1>6, <1>7

LEMMA CommitInv ==
    ASSUME TransactionInv, NEW c \in Calls, Commit(c), TransactionTypeOK', IdleIsFresh'
    PROVE  TransactionInv'
<1> USE DEF TransactionInv, server
<1> DEFINE new == [call |-> c, attempt |-> attempts[c], version |-> snapshot[c].version,
                   fields |-> Fields(snapshot[c].records, c)]
<1>1. /\ step' = [step EXCEPT ![c] = "committing"] /\ step[c] = "read"
      /\ requests' = requests \cup {new}
      /\ UNCHANGED <<server, attempts, snapshot, lost, times>>
  BY DEF Commit
<1>2. /\ new.call = c /\ new.attempt = attempts[c] /\ new.version = snapshot[c].version
      /\ new.fields = Fields(snapshot[c].records, c)
  OBVIOUS
<1> HIDE DEF new
<1>3. /\ snapshot[c].version \in Nat /\ snapshot[c].clock \in Nat /\ clock \in Nat
      /\ attempts[c] \in Nat
  BY DEF TransactionTypeOK, Snapshot
<1>4. VersionsGrow'
  BY <1>1, <1>2, <1>3 DEF VersionsGrow
<1>5. VersionsName' /\ TotalOfRecords'
  BY <1>1, <1>2 DEF VersionsName, TotalOfRecords, RecordsOf
<1>6. RequestsOfCall'
  BY <1>1, <1>2, <1>3 DEF RequestsOfCall, TransactionTypeOK, Request
<1>7. CallsWithoutLoss'
  BY <1>1, <1>2 DEF CallsWithoutLoss, TransactionTypeOK, Request
<1>8. RefusalHasCause' /\ OutcomeIsKnown'
  BY <1>1 DEF RefusalHasCause, OutcomeIsKnown, TransactionTypeOK
<1> QED
  BY <1>4, <1>5, <1>6, <1>7, <1>8

LEMMA CommittedInv ==
    ASSUME TransactionInv, NEW c \in Calls, Committed(c), TransactionTypeOK', IdleIsFresh'
    PROVE  TransactionInv'
<1> USE DEF TransactionInv, server
<1>1. /\ step' = [step EXCEPT ![c] = "ok"] /\ step[c] = "stored"
      /\ UNCHANGED <<server, attempts, snapshot, requests, lost, times>>
  BY DEF Committed
<1>2. VersionsGrow' /\ VersionsName' /\ TotalOfRecords'
  BY <1>1 DEF VersionsGrow, VersionsName, TotalOfRecords, RecordsOf
<1>3. RequestsOfCall' /\ CallsWithoutLoss'
  BY <1>1 DEF RequestsOfCall, CallsWithoutLoss, TransactionTypeOK, Request
<1>4. RefusalHasCause' /\ OutcomeIsKnown'
  BY <1>1 DEF RefusalHasCause, OutcomeIsKnown, TransactionTypeOK
<1> QED
  BY <1>2, <1>3, <1>4

\* What passes the precondition was computed from the document of the moment.
LEMMA StoredFields ==
    ASSUME TransactionInv, NEW r \in requests, Store(r)
    PROVE  document' = Fields(RecordsOf(document), r.call)
<1> USE DEF TransactionInv
<1>1. r.call \in Calls
  BY DEF TransactionTypeOK, Request
<1>2. r.fields = Fields(RecordsOf(document), r.call)
  BY DEF Store, Precondition, VersionsName, VersionsGrow, RecordsOf
<1> QED
  BY <1>1, <1>2, MergeIsSet DEF Store, TransactionTypeOK

LEMMA StoreInv ==
    ASSUME TransactionInv, NEW r \in requests, Store(r), TransactionTypeOK', IdleIsFresh'
    PROVE  TransactionInv'
<1> USE DEF TransactionInv
<1>1. /\ clock' = clock + 1 /\ version' = clock + 1 /\ requests' = requests \ {r}
      /\ clock \in Nat /\ version \in Nat
      /\ UNCHANGED <<attempts, snapshot, lost>>
  BY DEF Store, TransactionTypeOK
<1>2. r.call \in Calls
  BY DEF TransactionTypeOK, Request
<1>3. document' = Fields(RecordsOf(document), r.call)
  BY StoredFields
<1>4. document' # NoDocument
  <2>1. RecordsOf(document) \in Records
    BY RecordsOfIsRecords DEF TransactionTypeOK
  <2> QED
    BY <1>2, <1>3, <2>1, FieldsIsDocument, DocumentAssumption
<1>5. \A c \in Calls : snapshot[c].version \in Nat /\ snapshot[c].clock \in Nat
  BY DEF TransactionTypeOK, Snapshot
<1>6. \A q \in requests : q.version \in Nat /\ q.call \in Calls /\ q.attempt \in Nat
  BY DEF TransactionTypeOK, Request
<1>7. VersionsGrow'
  BY <1>1, <1>4, <1>5, <1>6 DEF VersionsGrow
<1>8. VersionsName'
  BY <1>1, <1>5, <1>6 DEF VersionsName, VersionsGrow
<1>9. /\ \A c \in Calls : c # r.call => step'[c] = step[c] /\ times'[c] = times[c]
      /\ \/ /\ step[r.call] = "committing" /\ attempts[r.call] = r.attempt
            /\ step'[r.call] = "stored"
         \/ step'[r.call] = step[r.call] /\
            ~(step[r.call] = "committing" /\ attempts[r.call] = r.attempt)
      /\ times'[r.call] = times[r.call] + 1
  BY <1>2, Answered DEF Store, TransactionTypeOK
<1>10. RequestsOfCall'
  BY <1>1, <1>6, <1>9 DEF RequestsOfCall, VersionsGrow
<1>11. CallsWithoutLoss'
  BY <1>1, <1>6, <1>9 DEF CallsWithoutLoss
<1>12. TotalOfRecords'
  BY <1>3 DEF TotalOfRecords, Fields
<1>13. RefusalHasCause'
  BY <1>1, <1>5, <1>9 DEF RefusalHasCause, VersionsGrow
<1>14. OutcomeIsKnown'
  <2>1. \A c \in Calls : times[c] \in Nat
    BY DEF TransactionTypeOK
  <2>2. r.call \notin lost => step[r.call] = "committing" /\ attempts[r.call] = r.attempt
    BY DEF CallsWithoutLoss
  <2> QED
    BY <1>1, <1>2, <1>9, <2>1, <2>2 DEF OutcomeIsKnown
<1> QED
  BY <1>7, <1>8, <1>10, <1>11, <1>12, <1>13, <1>14

LEMMA RefuseInv ==
    ASSUME TransactionInv, NEW r \in requests, Refuse(r), TransactionTypeOK', IdleIsFresh'
    PROVE  TransactionInv'
<1> USE DEF TransactionInv, server
<1>1. /\ requests' = requests \ {r} /\ ~Precondition(r)
      /\ UNCHANGED <<server, attempts, snapshot, lost, times>>
  BY DEF Refuse
<1>2. r.call \in Calls
  BY DEF TransactionTypeOK, Request
<1>3. /\ \A c \in Calls : c # r.call => step'[c] = step[c]
      /\ \/ /\ step[r.call] = "committing" /\ attempts[r.call] = r.attempt
            /\ step'[r.call] = "refused"
         \/ step'[r.call] = step[r.call] /\
            ~(step[r.call] = "committing" /\ attempts[r.call] = r.attempt)
  BY Answered DEF Refuse
<1>4. \A q \in requests : q.version \in Nat /\ q.call \in Calls /\ q.attempt \in Nat
  BY DEF TransactionTypeOK, Request
<1>5. VersionsGrow' /\ VersionsName' /\ TotalOfRecords'
  BY <1>1 DEF VersionsGrow, VersionsName, TotalOfRecords, RecordsOf
<1>6. RequestsOfCall'
  BY <1>1, <1>3, <1>4 DEF RequestsOfCall
<1>7. CallsWithoutLoss'
  BY <1>1, <1>3, <1>4 DEF CallsWithoutLoss
<1>8. RefusalHasCause'
  <2>1. step[r.call] = "committing" /\ attempts[r.call] = r.attempt =>
            snapshot[r.call].version # version
    BY <1>1 DEF RequestsOfCall, Precondition, VersionsGrow
  <2>2. step[r.call] = "committing" /\ attempts[r.call] = r.attempt =>
            snapshot[r.call].clock < clock
    <3>1. /\ snapshot[r.call].clock \in Nat /\ clock \in Nat
          /\ snapshot[r.call].clock <= clock
      BY <1>2 DEF VersionsGrow, TransactionTypeOK, Snapshot
    <3>2. snapshot[r.call].clock = clock => snapshot[r.call].version = version
      BY <1>2 DEF VersionsName
    <3> QED
      BY <2>1, <3>1, <3>2
  <2> QED
    BY <1>1, <1>2, <1>3, <2>2 DEF RefusalHasCause
<1>9. OutcomeIsKnown'
  BY <1>1, <1>2, <1>3 DEF OutcomeIsKnown
<1> QED
  BY <1>5, <1>6, <1>7, <1>8, <1>9

LEMMA DeleteInv ==
    ASSUME TransactionInv, DeleteDailyLog, TransactionTypeOK', IdleIsFresh'
    PROVE  TransactionInv'
<1> USE DEF TransactionInv
<1>1. /\ document' = NoDocument /\ version' = 0 /\ clock' = clock + 1 /\ clock \in Nat
      /\ UNCHANGED <<step, attempts, snapshot, requests, lost, times>>
  BY DEF DeleteDailyLog, TransactionTypeOK
<1>2. \A c \in Calls : snapshot[c].version \in Nat /\ snapshot[c].clock \in Nat
  BY DEF TransactionTypeOK, Snapshot
<1>3. \A q \in requests : q.version \in Nat
  BY DEF TransactionTypeOK, Request
<1>4. VersionsGrow' /\ VersionsName' /\ TotalOfRecords'
  BY <1>1, <1>2, <1>3 DEF VersionsGrow, VersionsName, TotalOfRecords
<1>5. RequestsOfCall' /\ CallsWithoutLoss'
  BY <1>1 DEF RequestsOfCall, CallsWithoutLoss
<1>6. RefusalHasCause' /\ OutcomeIsKnown'
  BY <1>1, <1>2 DEF RefusalHasCause, OutcomeIsKnown
<1> QED
  BY <1>4, <1>5, <1>6

LEMMA InvStep == TransactionInv /\ [Next]_vars => TransactionInv'
<1> SUFFICES ASSUME TransactionInv, [Next]_vars PROVE TransactionInv'
  OBVIOUS
<1>1. TransactionTypeOK' /\ IdleIsFresh'
  BY TypedStep DEF TransactionInv
<1>2. CASE UNCHANGED vars
  BY <1>1, <1>2 DEF vars, server, TransactionInv, VersionsGrow, VersionsName, RequestsOfCall,
     CallsWithoutLoss, TotalOfRecords, RefusalHasCause, OutcomeIsKnown, RecordsOf
<1>3. CASE Next
  BY <1>1, <1>3, StartInv, LookupInv, ErrorInv, CommitInv, CommittedInv, StoreInv, RefuseInv,
     DeleteInv DEF Next
<1> QED
  BY <1>2, <1>3

\* The invariant of the transactions.
LEMMA InvAlways == Spec => []TransactionInv
BY InvInit, InvStep, PTL DEF Spec

\* Every variable keeps its type, and no call begins more attempts than it may.
THEOREM TransactionTyping == Spec => []TransactionTypeOK
BY InvAlways, PTL DEF TransactionInv

\* The stored total is always that of the stored records in the stored window.
THEOREM TotalOfRecordsAlways == Spec => []TotalOfRecords
BY InvAlways, PTL DEF TransactionInv

\* A commit is refused only because of another write.
THEOREM RefusalHasCauseAlways == Spec => []RefusalHasCause
BY InvAlways, PTL DEF TransactionInv

\* What a caller is told is what happened, up to the connections it lost.
THEOREM OutcomeIsKnownAlways == Spec => []OutcomeIsKnown
BY InvAlways, PTL DEF TransactionInv

-----------------------------------------------------------------------------
(* Every call is on its way to its end *)

\* Who has no commit under way, and will have none after the step, awaits none.
LEMMA AwaitedKept ==
    ASSUME AnswerAwaited, UNCHANGED requests, TransactionTypeOK,
           \A c \in Calls : step'[c] = "committing" =>
               step[c] = "committing" /\ attempts'[c] = attempts[c]
    PROVE  AnswerAwaited'
BY DEF AnswerAwaited, AnswerOf

\* An answered commit leaves, and its call waits no more.
LEMMA AwaitedAnswered ==
    ASSUME AnswerAwaited, TransactionTypeOK, NEW r \in requests,
           NEW answer \in {"stored", "refused"},
           Answer(r, answer), requests' = requests \ {r}, UNCHANGED attempts
    PROVE  AnswerAwaited'
<1> SUFFICES ASSUME NEW c \in Calls, step'[c] = "committing"
             PROVE  \E q \in requests' : AnswerOf(c)' = {q}
  BY DEF AnswerAwaited
<1>1. step[c] = "committing" /\ ~(r.call = c /\ r.attempt = attempts[c])
  BY Answered
<1>2. PICK q \in requests : AnswerOf(c) = {q}
  BY <1>1 DEF AnswerAwaited
<1>3. r \notin AnswerOf(c) /\ AnswerOf(c)' = AnswerOf(c) \ {r}
  BY <1>1 DEF AnswerOf
<1> QED
  BY <1>2, <1>3

LEMMA AwaitedInit == Init => AnswerAwaited
BY DEF Init, AnswerAwaited

LEMMA AwaitedStep == TransactionInv /\ AnswerAwaited /\ [Next]_vars => AnswerAwaited'
<1> SUFFICES ASSUME TransactionInv, AnswerAwaited, [Next]_vars
             PROVE  AnswerAwaited'
  OBVIOUS
<1> USE DEF TransactionInv
<1>1. CASE UNCHANGED vars
  BY <1>1, AwaitedKept DEF vars
<1>2. ASSUME NEW c \in Calls, Start(c) \/ Lookup(c) \/ Committed(c)
      PROVE  AnswerAwaited'
  <2>1. /\ \A d \in Calls : d # c => step'[d] = step[d] /\ attempts'[d] = attempts[d]
        /\ step'[c] # "committing" /\ UNCHANGED requests
    BY <1>2 DEF Start, Run, Lookup, Committed, TransactionTypeOK
  <2> QED
    BY <2>1, AwaitedKept
<1>3. ASSUME NEW c \in Calls, LookupDenied(c) \/ Refused(c) \/ ConnectionLost(c)
      PROVE  AnswerAwaited'
  <2>1. /\ \A d \in Calls : d # c => step'[d] = step[d] /\ attempts'[d] = attempts[d]
        /\ step'[c] # "committing" /\ UNCHANGED requests
    BY <1>3, ErrorHandled DEF LookupDenied, Refused, ConnectionLost
  <2> QED
    BY <2>1, AwaitedKept
<1>4. ASSUME NEW c \in Calls, Commit(c)
      PROVE  AnswerAwaited'
  <2> DEFINE new == [call |-> c, attempt |-> attempts[c], version |-> snapshot[c].version,
                     fields |-> Fields(snapshot[c].records, c)]
  <2>1. /\ step' = [step EXCEPT ![c] = "committing"] /\ step[c] = "read"
        /\ requests' = requests \cup {new} /\ UNCHANGED attempts
    BY <1>4 DEF Commit
  <2>2. new.call = c /\ new.attempt = attempts[c]
    OBVIOUS
  <2> HIDE DEF new
  <2>3. AnswerOf(c) = {}
    <3>1. \A r \in requests : r.call = c => r.attempt \in Nat /\ attempts[c] \in Nat
                                            /\ r.attempt < attempts[c]
      BY <2>1 DEF RequestsOfCall, TransactionTypeOK, Request
    <3> QED
      BY <3>1 DEF AnswerOf
  <2>4. AnswerOf(c)' = {new}
    BY <2>1, <2>2, <2>3 DEF AnswerOf
  <2>5. ASSUME NEW d \in Calls, d # c, step'[d] = "committing"
        PROVE  \E r \in requests' : AnswerOf(d)' = {r}
    <3>1. step[d] = "committing"
      BY <2>1, <2>5 DEF TransactionTypeOK
    <3>2. PICK r \in requests : AnswerOf(d) = {r}
      BY <3>1 DEF AnswerAwaited
    <3>3. AnswerOf(d)' = AnswerOf(d)
      BY <2>1, <2>2, <2>5 DEF AnswerOf
    <3> QED
      BY <2>1, <3>2, <3>3
  <2> QED
    BY <2>1, <2>4, <2>5 DEF AnswerAwaited
<1>5. ASSUME NEW r \in requests, Store(r) \/ Refuse(r)
      PROVE  AnswerAwaited'
  BY <1>5, AwaitedAnswered DEF Store, Refuse
<1>6. CASE DeleteDailyLog
  BY <1>6, AwaitedKept DEF DeleteDailyLog
<1> QED
  BY <1>1, <1>2, <1>3, <1>4, <1>5, <1>6 DEF Next

\* A call that awaits the answer to its commit has exactly one on its way,
\* however many earlier attempts of it are still out.
THEOREM AnswerAwaitedAlways == Spec => []AnswerAwaited
<1>1. TransactionInv /\ AnswerAwaited /\ [Next]_vars => AnswerAwaited'
  BY AwaitedStep
<1> QED
  BY <1>1, AwaitedInit, InvAlways, PTL DEF Spec

LEMMA RanksOfSteps ==
    ASSUME NEW s \in Steps
    PROVE  Rank[s] \in 0..5
BY DEF Rank, Steps

\* To come further in an attempt, or to begin the next, is progress.
LEMMA ProgressMade ==
    ASSUME TransactionTypeOK, TransactionTypeOK', NEW c \in Calls,
           \/ attempts'[c] = attempts[c] /\ Rank[step'[c]] > Rank[step[c]]
           \/ attempts'[c] = attempts[c] + 1
    PROVE  Progress(c)' > Progress(c)
<1> DEFINE a == attempts[c]
           b == attempts'[c]
           r == Rank[step[c]]
           s == Rank[step'[c]]
<1>1. a \in Nat /\ b \in Nat
  BY DEF TransactionTypeOK
<1>2. r \in 0..5 /\ s \in 0..5
  BY RanksOfSteps DEF TransactionTypeOK
<1>3. Progress(c) = 6 * a + r /\ Progress(c)' = 6 * b + s
  BY DEF Progress, Rank
<1>4. (b = a /\ s > r) \/ b = a + 1
  OBVIOUS
<1> HIDE DEF a, b, r, s
<1> QED
  BY <1>1, <1>2, <1>3, <1>4

LEMMA StepAdvances ==
    ASSUME TransactionInv, TransactionInv', [Next]_vars, NEW c \in Calls,
           <<step[c], attempts[c]>>' # <<step[c], attempts[c]>>
    PROVE  Progress(c)' > Progress(c)
<1> USE DEF TransactionInv
<1> DEFINE Goal == \/ attempts'[c] = attempts[c] /\ Rank[step'[c]] > Rank[step[c]]
                   \/ attempts'[c] = attempts[c] + 1
<1>1. ASSUME NEW d \in Calls, Start(d) \/ Lookup(d) \/ Commit(d) \/ Committed(d)
      PROVE  Goal
  <2>1. d = c
    BY <1>1 DEF Start, Run, Lookup, Commit, Committed, TransactionTypeOK
  <2> QED
    BY <1>1, <2>1 DEF Start, Run, Lookup, Commit, Committed, TransactionTypeOK, Rank
<1>2. ASSUME NEW d \in Calls, LookupDenied(d) \/ Refused(d) \/ ConnectionLost(d)
      PROVE  Goal
  <2>1. /\ \A e \in Calls : e # d => step'[e] = step[e] /\ attempts'[e] = attempts[e]
        /\ \/ step'[d] = "reading" /\ attempts'[d] = attempts[d] + 1
           \/ step'[d] = "failed" /\ attempts'[d] = attempts[d]
        /\ step[d] \in {"reading", "committing", "stored", "refused"}
    BY <1>2, ErrorHandled DEF LookupDenied, Refused, ConnectionLost
  <2>2. d = c
    BY <2>1
  <2> QED
    BY <2>1, <2>2 DEF Rank
<1>3. ASSUME NEW r \in requests, Store(r) \/ Refuse(r)
      PROVE  Goal
  <2>1. PICK answer \in {"stored", "refused"} : Answer(r, answer)
    BY <1>3 DEF Store, Refuse
  <2>2. UNCHANGED attempts
    BY <1>3 DEF Store, Refuse
  <2>3. c = r.call /\ step[c] = "committing" /\ step'[c] = answer
    BY <2>1, <2>2, Answered
  <2> QED
    BY <2>2, <2>3 DEF Rank
<1>4. Goal
  BY <1>1, <1>2, <1>3 DEF Next, vars, DeleteDailyLog
<1> QED
  BY <1>4, ProgressMade

\* A call has at most 6 * MaxAttempts + 5 moves.
LEMMA ProgressBounded ==
    ASSUME TransactionTypeOK, NEW c \in Calls
    PROVE  Progress(c) \in 0..(6 * MaxAttempts + 5)
<1>1. attempts[c] \in 0..MaxAttempts /\ Rank[step[c]] \in 0..5 /\ MaxAttempts \in Nat
  BY RanksOfSteps, AttemptAssumption DEF TransactionTypeOK
<1> DEFINE a == attempts[c]
           r == Rank[step[c]]
<1>2. Progress(c) = 6 * a + r
  BY DEF Progress
<1> HIDE DEF a, r
<1>3. a \in 0..MaxAttempts /\ r \in 0..5
  BY <1>1 DEF a, r
<1> QED
  BY <1>1, <1>2, <1>3

\* A call only moves towards its end, whatever comes late.
THEOREM CallsAdvanceAlways == Spec => CallsAdvance
<1> DEFINE Advance ==
        \A c \in Calls : <<step[c], attempts[c]>>' # <<step[c], attempts[c]>> =>
                         Progress(c)' > Progress(c)
<1>1. TransactionInv /\ TransactionInv' /\ [Next]_vars => [Advance]_vars
  BY StepAdvances
<1> QED
  BY <1>1, InvAlways, PTL DEF Spec, CallsAdvance

-----------------------------------------------------------------------------
(* The transactions implement AtomicUpdates *)

Applied == {c \in Calls : times[c] > 0}

Outcomes == [c \in Calls |-> Outcome(c)]

\* A step that ends no call and touches no document is one that the abstract
\* specification does not see.
LEMMA Unseen ==
    ASSUME UNCHANGED <<document, times>>, \A c \in Calls : Outcome(c)' = Outcome(c)
    PROVE  UNCHANGED Atomic!vars
BY DEF Atomic!vars

\* To end a waiting call is to report it.
LEMMA Reported ==
    ASSUME NEW c \in Calls, UNCHANGED <<document, times>>, Outcome(c) = "waiting",
           \A d \in Calls : d # c => Outcome(d)' = Outcome(d),
           Outcome(c)' = "failed" \/ (Outcome(c)' = "ok" /\ c \in Applied)
    PROVE  Atomic!Report(c)
<1>1. Outcomes' = [Outcomes EXCEPT ![c] = Outcome(c)']
  BY DEF Outcomes
<1>2. Outcomes[c] = "waiting"
  BY DEF Outcomes
<1>3. UNCHANGED Applied
  BY DEF Applied
<1> QED
  BY <1>1, <1>2, <1>3 DEF Atomic!Report, Outcomes, Applied

LEMMA StoreIsApply ==
    ASSUME TransactionInv, NEW r \in requests, Store(r)
    PROVE  r.call \in Calls /\ Atomic!Apply(r.call)
<1> USE DEF TransactionInv
<1>1. r.call \in Calls
  BY DEF TransactionTypeOK, Request
<1>2. document' = Fields(RecordsOf(document), r.call)
  BY StoredFields
<1>3. Outcome(r.call) = "ok" => document = NoDocument
  BY DEF Outcome, RequestsOfCall, Store, Precondition
<1>4. Applied' = Applied \cup {r.call}
  <2>1. times' = [times EXCEPT ![r.call] = @ + 1]
    BY DEF Store
  <2>2. times \in [Calls -> Nat]
    BY DEF TransactionTypeOK
  <2>3. \A c \in Calls : times'[c] > 0 <=> times[c] > 0 \/ c = r.call
    BY <1>1, <2>1, <2>2
  <2> QED
    BY <1>1, <2>3 DEF Applied
<1>5. \A c \in Calls : Outcome(c)' = Outcome(c)
  BY <1>1, Answered DEF Store, Outcome
<1>6. Outcomes' = Outcomes
  BY <1>5 DEF Outcomes
<1>7. Outcomes[r.call] = Outcome(r.call)
  BY <1>1 DEF Outcomes
<1> QED
  BY <1>1, <1>2, <1>3, <1>4, <1>6, <1>7 DEF Atomic!Apply, Applied, Outcomes, Updated

LEMMA StepRefines == TransactionInv /\ [Next]_vars => [Atomic!Next]_(Atomic!vars)
<1> SUFFICES ASSUME TransactionInv, [Next]_vars PROVE [Atomic!Next]_(Atomic!vars)
  OBVIOUS
<1> USE DEF TransactionInv, server
<1>1. CASE UNCHANGED vars
  BY <1>1, Unseen DEF vars, Outcome
<1>2. ASSUME NEW c \in Calls, Start(c) \/ Lookup(c) \/ Commit(c)
      PROVE  UNCHANGED Atomic!vars
  <2>1. \A d \in Calls : Outcome(d)' = Outcome(d)
    BY <1>2 DEF Start, Run, Lookup, Commit, Outcome, TransactionTypeOK
  <2> QED
    BY <1>2, <2>1, Unseen DEF Start, Lookup, Commit
<1>3. ASSUME NEW c \in Calls, LookupDenied(c) \/ Refused(c) \/ ConnectionLost(c)
      PROVE  [Atomic!Next]_(Atomic!vars)
  <2>1. /\ \A d \in Calls : d # c => step'[d] = step[d]
        /\ step'[c] \in {"reading", "failed"}
        /\ step[c] \notin {"ok", "failed"}
        /\ UNCHANGED <<document, times>>
    BY <1>3, ErrorHandled DEF LookupDenied, Refused, ConnectionLost
  <2>2. \A d \in Calls : d # c => Outcome(d)' = Outcome(d)
    BY <2>1 DEF Outcome
  <2>3. Outcome(c) = "waiting" /\ Outcome(c)' \in {"waiting", "failed"}
    BY <2>1 DEF Outcome
  <2>4. CASE Outcome(c)' = "waiting"
    BY <2>1, <2>2, <2>3, <2>4, Unseen
  <2>5. CASE Outcome(c)' = "failed"
    BY <2>1, <2>2, <2>3, <2>5, Reported DEF Atomic!Next
  <2> QED
    BY <2>3, <2>4, <2>5
<1>4. ASSUME NEW c \in Calls, Committed(c)
      PROVE  [Atomic!Next]_(Atomic!vars)
  <2>1. /\ Outcome(c) = "waiting" /\ Outcome(c)' = "ok"
        /\ \A d \in Calls : d # c => Outcome(d)' = Outcome(d)
    BY <1>4 DEF Committed, Outcome, TransactionTypeOK
  <2>2. c \in Applied
    BY <1>4 DEF Committed, OutcomeIsKnown, Applied
  <2> QED
    BY <1>4, <2>1, <2>2, Reported DEF Committed, Atomic!Next
<1>5. ASSUME NEW r \in requests, Store(r)
      PROVE  [Atomic!Next]_(Atomic!vars)
  BY <1>5, StoreIsApply DEF Atomic!Next
<1>6. ASSUME NEW r \in requests, Refuse(r)
      PROVE  [Atomic!Next]_(Atomic!vars)
  <2>1. \A d \in Calls : Outcome(d)' = Outcome(d)
    BY <1>6, Answered DEF Refuse, Outcome
  <2> QED
    BY <1>6, <2>1, Unseen DEF Refuse
<1>7. CASE DeleteDailyLog
  BY <1>7 DEF DeleteDailyLog, Outcome, Atomic!Delete, Atomic!Next
<1> QED
  BY <1>1, <1>2, <1>3, <1>4, <1>5, <1>6, <1>7 DEF Next

LEMMA InitRefines == Init => Atomic!Init
BY DEF Init, Atomic!Init, Outcome

\* runTransaction applies every call of updateEnergyLog to the document of the
\* moment, however the calls, their retries and deletions interleave.
THEOREM AppliedAtomicallyAlways == Spec => AppliedAtomically
BY InitRefines, StepRefines, InvAlways, PTL DEF Spec, AppliedAtomically, Atomic!Spec
=============================================================================
