--------------------------- MODULE AccountSession ---------------------------
(***************************************************************************)
(* What follows the account on a device: the language of LanguageProvider, *)
(* kept in the preferences and in the settings document, and the deletion  *)
(* of the account by AuthService, which empties three collections document *)
(* by document before it deletes the account itself.                       *)
(*                                                                         *)
(* Firestore keeps the writes of each user in a queue of their own: they   *)
(* reach the server in order, while that user is signed in.                *)
(***************************************************************************)
EXTENDS Integers, Sequences

CONSTANTS
    Users, NoUser,
    Languages, DefaultLanguage,
    Documents,     \* of each of the three collections but the settings
    Calls,         \* bound: calls of deleteAccount under way together
    SyncIds,       \* bound: calls of _syncWithFirestore under way together
    MaxChoices,    \* bound: languages chosen
    MaxWrites,     \* bound: documents written
    MaxSignIns,    \* bound: sign-ins and launches
    MaxCalls,      \* bound: calls of deleteAccount in all
    Enabled,       \* "cache": a query is answered without the server
    None

ASSUME AccountAssumption ==
    /\ NoUser \notin Users
    /\ DefaultLanguage \in Languages
    /\ {"default", "none"} \cap Documents = {}
    /\ MaxChoices \in Nat /\ MaxWrites \in Nat /\ MaxSignIns \in Nat /\ MaxCalls \in Nat

VARIABLES
    accounts,    \* the users with an account
    user,        \* the user signed in on this device
    documents,   \* the documents of each user and collection
    language,    \* _currentLanguage and the preference language_code
    settings,    \* the language in the settings document of each user
    syncs,       \* answers of getUserSettings on their way
    queue,       \* writes of each user on their way
    deletions,   \* the calls of deleteAccount
    synced,      \* an answer that was still true has been taken over
    choices, writes, signIns, calls   \* counts for the bounds

firestore == <<documents, settings, queue>>
bounds == <<choices, writes, signIns, calls>>
vars == <<accounts, user, documents, language, settings, syncs, queue, deletions,
          synced, choices, writes, signIns, calls>>

\* The collections in the order in which they are emptied, and the two steps
\* that follow.
Collections == <<"daily_logs", "alarm_logs", "settings">>
DocumentsOf(i) == IF Collections[i] = "settings" THEN {"default"} ELSE Documents
UserDocument == Len(Collections) + 1
AuthAccount == UserDocument + 1

\* A call waits for a query, for its answer, or for each deletion in turn.  Its
\* field since, of no use to the code, holds the documents written after the
\* query of their collection.
Deletion ==
    [user : Users, step : 1..AuthAccount, phase : {"asking", "answered", "deleting"},
     todo : SUBSET (Documents \cup {"default"}),
     since : [DOMAIN Collections -> SUBSET (Documents \cup {"default"})]]

Sync == [user : Users, answer : Languages, answered : BOOLEAN]

\* A write of the language, or the deletion of a document for a call; the call
\* is None when the process that made it has ended.
LanguageWrite == [op : {"language"}, language : Languages]
DocumentDelete ==
    [op : {"delete"}, call : Calls \cup {None}, step : 1..UserDocument,
     document : Documents \cup {"default", "none"}]

ASSUME NoneAssumption == None \notin Deletion /\ None \notin Sync /\ None \notin Calls

-----------------------------------------------------------------------------
(* LanguageProvider *)

\* getUserSettings sees the writes of the user that are on their way, of which
\* the last one counts; without a settings document the language is the default.
OfSettings(w) == w.op = "language" \/ w.step = Len(Collections)
LanguageAfter(w) == IF w.op = "language" THEN w.language ELSE DefaultLanguage

SettingsWrites(q) == {k \in DOMAIN q : OfSettings(q[k])}
LastOf(q) == CHOOSE k \in SettingsWrites(q) : \A j \in SettingsWrites(q) : j <= k

LanguageOf(q, stored) ==
    IF SettingsWrites(q) = {} THEN stored ELSE LanguageAfter(q[LastOf(q)])

UserLanguage(u) == LanguageOf(queue[u], settings[u])

\* The listener of the auth state asks for the settings of who signed in.
SyncWithFirestore(u) ==
    \E s \in SyncIds :
        /\ syncs[s] = None
        /\ syncs' = [syncs EXCEPT ![s] =
               [user |-> u, answer |-> DefaultLanguage, answered |-> FALSE]]

\* The SDK answers; the rest of _syncWithFirestore has yet to run.
SettingsRead(s) ==
    /\ syncs[s] # None /\ ~syncs[s].answered /\ user = syncs[s].user
    /\ syncs' = [syncs EXCEPT ![s].answer = UserLanguage(user), ![s].answered = TRUE]
    /\ UNCHANGED <<accounts, user, firestore, language, deletions, synced, bounds>>

\* Variant: a language chosen on the device wins over the settings.
LanguageSyncedOnce(s) ==
    /\ syncs[s] # None /\ syncs[s].answered
    /\ language' = IF language = DefaultLanguage THEN syncs[s].answer ELSE language
    /\ synced' = (user = syncs[s].user /\ syncs[s].answer = UserLanguage(user))
    /\ syncs' = [syncs EXCEPT ![s] = None]
    /\ UNCHANGED <<accounts, user, firestore, deletions, bounds>>

\* The language of the answer is taken over, whoever is signed in by now.
LanguageSynced(s) ==
    /\ syncs[s] # None /\ syncs[s].answered
    /\ language' = syncs[s].answer
    /\ synced' = (user = syncs[s].user /\ syncs[s].answer = UserLanguage(user))
    /\ syncs' = [syncs EXCEPT ![s] = None]
    /\ UNCHANGED <<accounts, user, firestore, deletions, bounds>>

\* An error is ignored.
SyncFails(s) ==
    /\ syncs[s] # None /\ ~syncs[s].answered
    /\ syncs' = [syncs EXCEPT ![s] = None]
    /\ UNCHANGED <<accounts, user, firestore, language, deletions, synced, bounds>>

\* The choice on the login screen or in the settings.  Without a user it stays
\* on the device.
ChangeLanguage(l) ==
    /\ choices < MaxChoices /\ choices' = choices + 1
    /\ l # language
    /\ language' = l
    /\ IF user = NoUser THEN UNCHANGED queue
       ELSE queue' = [queue EXCEPT ![user] = Append(@, [op |-> "language", language |-> l])]
    /\ UNCHANGED <<accounts, user, documents, settings, syncs, deletions, synced,
                   writes, signIns, calls>>

-----------------------------------------------------------------------------
(* Signing in and out *)

SignIn(u) ==
    /\ user = NoUser /\ u \in accounts
    /\ signIns < MaxSignIns /\ signIns' = signIns + 1
    /\ user' = u
    /\ SyncWithFirestore(u)
    /\ synced' = FALSE
    /\ UNCHANGED <<accounts, firestore, language, deletions, choices, writes, calls>>

SignOut ==
    /\ user # NoUser
    /\ user' = NoUser
    /\ synced' = FALSE
    /\ UNCHANGED <<accounts, firestore, language, syncs, deletions, bounds>>

-----------------------------------------------------------------------------
(* AuthService.deleteAccount *)

Asked(g, i) == g.step > i \/ (g.step = i /\ g.phase # "asking")

\* The calls that have asked for the collection see that a document comes later.
WrittenSince(u, i, d) ==
    deletions' = [x \in Calls |->
        IF deletions[x] # None /\ deletions[x].user = u /\ Asked(deletions[x], i)
        THEN [deletions[x] EXCEPT !.since[i] = @ \cup {d}] ELSE deletions[x]]

\* The user confirmed and proved who they are again; nothing stops a second
\* call while one is under way.
DeleteAccount(x) ==
    /\ deletions[x] = None /\ user # NoUser
    /\ calls < MaxCalls /\ calls' = calls + 1
    /\ deletions' = [deletions EXCEPT ![x] =
           [user |-> user, step |-> 1, phase |-> "asking", todo |-> {},
            since |-> [i \in DOMAIN Collections |-> {}]]]
    /\ UNCHANGED <<accounts, user, firestore, language, syncs, synced, choices, writes, signIns>>

At(x, i, phase) ==
    deletions[x] # None /\ deletions[x].step = i /\ deletions[x].phase = phase

\* After a collection comes the query of the next one, after the last the
\* document of the user.
NextStep(g) ==
    [g EXCEPT !.step = @ + 1, !.todo = {},
              !.phase = IF g.step < Len(Collections) THEN "asking" ELSE "deleting"]

Deleting(x, g, d) == [op |-> "delete", call |-> x, step |-> g.step, document |-> d]

\* The loop goes on with one document of g.todo, or with the next step.  Every
\* deletion is queued and awaited.
Continue(x, g, rest) ==
    IF g.todo # {}
    THEN \E d \in g.todo :
            /\ deletions' = [deletions EXCEPT ![x] = [g EXCEPT !.phase = "deleting"]]
            /\ queue' = [queue EXCEPT ![g.user] = Append(rest, Deleting(x, g, d))]
            /\ synced' = (synced /\ g.step # Len(Collections))
    ELSE /\ UNCHANGED synced
         /\ deletions' = [deletions EXCEPT ![x] = NextStep(g)]
         /\ queue' = [queue EXCEPT ![g.user] =
               IF NextStep(g).step = UserDocument
               THEN Append(rest, Deleting(x, NextStep(g), "none")) ELSE rest]

\* Firestore reads the collection; the local cache may know a part of it only.
CollectionRead(x) ==
    /\ \E i \in DOMAIN Collections :
          /\ At(x, i, "asking") /\ user = deletions[x].user
          /\ \E found \in IF "cache" \in Enabled THEN SUBSET documents[user][i]
                          ELSE {documents[user][i]} :
                deletions' = [deletions EXCEPT ![x].phase = "answered", ![x].todo = found]
    /\ UNCHANGED <<accounts, user, firestore, language, syncs, synced, bounds>>

QueryAnswered(x) ==
    /\ \E i \in DOMAIN Collections : At(x, i, "answered")
    /\ Continue(x, deletions[x], queue[deletions[x].user])
    /\ UNCHANGED <<accounts, user, documents, language, settings, syncs, bounds>>

\* An error of a query ends the call; what is gone is gone.
QueryFails(x) ==
    /\ \E i \in DOMAIN Collections : At(x, i, "asking")
    /\ deletions' = [deletions EXCEPT ![x] = None]
    /\ UNCHANGED <<accounts, user, firestore, language, syncs, synced, bounds>>

\* Variant: the session of the deleted user goes on.
AuthDeletedSignedIn(x) ==
    /\ At(x, AuthAccount, "deleting") /\ user = deletions[x].user
    /\ accounts' = accounts \ {user}
    /\ deletions' = [deletions EXCEPT ![x] = None]
    /\ UNCHANGED <<user, firestore, language, syncs, synced, bounds>>

\* user.delete() signs the user out.
AuthDeleted(x) ==
    /\ At(x, AuthAccount, "deleting") /\ user = deletions[x].user
    /\ accounts' = accounts \ {user}
    /\ user' = NoUser /\ synced' = FALSE
    /\ deletions' = [deletions EXCEPT ![x] = None]
    /\ UNCHANGED <<firestore, language, syncs, bounds>>

\* user.delete() asks for a recent login, or its user is not signed in any more.
AuthRefused(x) ==
    /\ At(x, AuthAccount, "deleting")
    /\ deletions' = [deletions EXCEPT ![x] = None]
    /\ UNCHANGED <<accounts, user, firestore, language, syncs, synced, bounds>>

-----------------------------------------------------------------------------
(* The server *)

Oldest == Head(queue[user])
Rest == Tail(queue[user])

\* The call that waits for a deletion, if its process still runs.
Awaited(w) == w.call # None

LanguageStored ==
    /\ user # NoUser /\ queue[user] # <<>> /\ Oldest.op = "language"
    /\ settings' = [settings EXCEPT ![user] = Oldest.language]
    /\ documents' = [documents EXCEPT ![user][Len(Collections)] = {"default"}]
    /\ WrittenSince(user, Len(Collections), "default")
    /\ queue' = [queue EXCEPT ![user] = Rest]
    /\ UNCHANGED <<accounts, user, language, syncs, synced, bounds>>

\* changeLanguage ignores the error: the choice stays on the device.
LanguageRefused ==
    /\ user # NoUser /\ queue[user] # <<>> /\ Oldest.op = "language"
    /\ queue' = [queue EXCEPT ![user] = Rest]
    /\ synced' = FALSE
    /\ UNCHANGED <<accounts, user, documents, language, settings, syncs, deletions, bounds>>

DocumentDeleted ==
    /\ user # NoUser /\ queue[user] # <<>>
    /\ Oldest.op = "delete" /\ Oldest.step < UserDocument
    /\ documents' = [documents EXCEPT ![user][Oldest.step] = @ \ {Oldest.document}]
    /\ settings' = IF OfSettings(Oldest) THEN [settings EXCEPT ![user] = DefaultLanguage]
                   ELSE settings
    /\ IF Awaited(Oldest)
       THEN Continue(Oldest.call,
                     [deletions[Oldest.call] EXCEPT !.todo = @ \ {Oldest.document}], Rest)
       ELSE queue' = [queue EXCEPT ![user] = Rest] /\ UNCHANGED <<deletions, synced>>
    /\ UNCHANGED <<accounts, user, language, syncs, bounds>>

\* Variant: the loop ignores the error, as for the document of the user.
DeletionSwallowed ==
    /\ user # NoUser /\ queue[user] # <<>>
    /\ Oldest.op = "delete" /\ Oldest.step < UserDocument
    /\ IF Awaited(Oldest)
       THEN Continue(Oldest.call,
                     [deletions[Oldest.call] EXCEPT !.todo = @ \ {Oldest.document}], Rest)
       ELSE queue' = [queue EXCEPT ![user] = Rest] /\ UNCHANGED <<deletions, synced>>
    /\ UNCHANGED <<accounts, user, documents, language, settings, syncs, bounds>>

\* Variant: the error reaches nobody and the call waits for ever.
DeletionForgotten ==
    /\ user # NoUser /\ queue[user] # <<>>
    /\ Oldest.op = "delete" /\ Oldest.step < UserDocument
    /\ queue' = [queue EXCEPT ![user] = Rest]
    /\ synced' = (synced /\ ~OfSettings(Oldest))
    /\ UNCHANGED <<accounts, user, documents, language, settings, syncs, deletions,
                   bounds>>

\* An error of a deletion ends the call.
DeletionRefused ==
    /\ user # NoUser /\ queue[user] # <<>>
    /\ Oldest.op = "delete" /\ Oldest.step < UserDocument
    /\ queue' = [queue EXCEPT ![user] = Rest]
    /\ deletions' = IF Awaited(Oldest) THEN [deletions EXCEPT ![Oldest.call] = None]
                    ELSE deletions
    /\ synced' = (synced /\ ~OfSettings(Oldest))
    /\ UNCHANGED <<accounts, user, documents, language, settings, syncs, bounds>>

\* The document of the user was never written: deleted or not, the call goes on.
UserDocumentAnswered ==
    /\ user # NoUser /\ queue[user] # <<>>
    /\ Oldest.op = "delete" /\ Oldest.step = UserDocument
    /\ queue' = [queue EXCEPT ![user] = Rest]
    /\ deletions' = IF Awaited(Oldest)
                    THEN [deletions EXCEPT ![Oldest.call].step = AuthAccount] ELSE deletions
    /\ UNCHANGED <<accounts, user, documents, language, settings, syncs, synced, bounds>>

\* An energy save, an alarm's log or another setting, on this device or on
\* another one of the user.
DocumentWritten(u, i, d) ==
    /\ writes < MaxWrites /\ writes' = writes + 1
    /\ u \in accounts /\ d \in DocumentsOf(i)
    /\ documents' = [documents EXCEPT ![u][i] = @ \cup {d}]
    /\ WrittenSince(u, i, d)
    /\ UNCHANGED <<accounts, user, language, settings, syncs, queue, synced, choices, signIns,
                   calls>>

\* The process ends and starts again: the calls are gone, the queue and the
\* preference are not, and the listener of the auth state asks again.
Relaunch ==
    /\ user # NoUser /\ signIns < MaxSignIns /\ signIns' = signIns + 1
    /\ deletions' = [x \in Calls |-> None]
    /\ queue' = [u \in Users |-> [k \in DOMAIN queue[u] |->
           IF queue[u][k].op = "delete" THEN [queue[u][k] EXCEPT !.call = None] ELSE queue[u][k]]]
    /\ \E s \in SyncIds : syncs' = [t \in SyncIds |-> IF t = s
           THEN [user |-> user, answer |-> DefaultLanguage, answered |-> FALSE] ELSE None]
    /\ synced' = FALSE
    /\ UNCHANGED <<accounts, user, documents, language, settings, choices, writes, calls>>

-----------------------------------------------------------------------------
(* Specification *)

\* A device without a preference, and users with settings from elsewhere.
Init ==
    /\ accounts = Users /\ user = NoUser
    /\ documents = [u \in Users |-> [i \in DOMAIN Collections |-> DocumentsOf(i)]]
    /\ language = DefaultLanguage /\ settings \in [Users -> Languages]
    /\ syncs = [s \in SyncIds |-> None]
    /\ queue = [u \in Users |-> <<>>]
    /\ deletions = [x \in Calls |-> None]
    /\ synced = FALSE
    /\ choices = 0 /\ writes = 0 /\ signIns = 0 /\ calls = 0

QueueStep ==
    \/ LanguageStored \/ LanguageRefused
    \/ DocumentDeleted \/ DeletionRefused \/ UserDocumentAnswered

QueryStep(x) == CollectionRead(x) \/ QueryAnswered(x) \/ QueryFails(x)
AuthStep(x) == AuthDeleted(x) \/ AuthRefused(x)

Next ==
    \/ \E u \in Users : SignIn(u)
    \/ SignOut \/ Relaunch
    \/ \E l \in Languages : ChangeLanguage(l)
    \/ \E s \in SyncIds : SettingsRead(s) \/ LanguageSynced(s) \/ SyncFails(s)
    \/ \E x \in Calls : DeleteAccount(x) \/ QueryStep(x) \/ AuthStep(x)
    \/ QueueStep
    \/ \E u \in Users, i \in DOMAIN Collections :
           \E d \in DocumentsOf(i) : DocumentWritten(u, i, d)

Spec == Init /\ [][Next]_vars

\* Firestore and the auth service answer who is signed in.
FairSpec ==
    /\ Spec
    /\ WF_vars(QueueStep)
    /\ \A x \in Calls : WF_vars(QueryStep(x)) /\ WF_vars(AuthStep(x))

-----------------------------------------------------------------------------
(* Properties *)

\* Every variable holds a value of its type, and whoever is signed in has an
\* account.
AccountTypeOK ==
    /\ accounts \subseteq Users
    /\ user \in accounts \cup {NoUser}
    /\ documents \in [Users -> [DOMAIN Collections -> SUBSET (Documents \cup {"default"})]]
    /\ language \in Languages /\ settings \in [Users -> Languages]
    /\ syncs \in [SyncIds -> Sync \cup {None}]
    /\ queue \in [Users -> Seq(LanguageWrite \cup DocumentDelete)]
    /\ deletions \in [Calls -> Deletion \cup {None}]
    /\ synced \in BOOLEAN
    /\ choices \in 0..MaxChoices /\ writes \in 0..MaxWrites /\ signIns \in 0..MaxSignIns
    /\ calls \in 0..MaxCalls

\* Once an answer that was still true has been taken over, the language shown
\* is the one the settings hold or will hold, through later choices, syncs,
\* saves and broken deletions.
LanguageFollowsSettings == synced /\ user # NoUser => language = UserLanguage(user)

\* An account goes only after everything its call found has gone: a log or a
\* setting that remains was written after the call asked for its collection.
DataGoneFirst ==
    [][\A u \in accounts \ accounts' : \E x \in Calls :
          /\ deletions[x] # None /\ deletions[x].user = u
          /\ \A i \in DOMAIN Collections : documents[u][i] \subseteq deletions[x].since[i]]_vars

\* A call that awaits a deletion has it in the queue: whatever was stored,
\* refused or queued by others meanwhile, the SDK will answer it.
Awaits(x) ==
    deletions[x] # None /\ deletions[x].phase = "deleting" /\ deletions[x].step < AuthAccount

DeletionAwaited ==
    \A x \in Calls : Awaits(x) =>
        \E k \in DOMAIN queue[deletions[x].user] :
            LET w == queue[deletions[x].user][k]
            IN  w.op = "delete" /\ w.call = x /\ w.step = deletions[x].step

\* The deletion of an account ends, unless its user signs out meanwhile.
DeletionsEnd ==
    \A x \in Calls : deletions[x] # None ~>
        (deletions[x] = None \/ user # deletions[x].user)
=============================================================================
