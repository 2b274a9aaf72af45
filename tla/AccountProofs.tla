--------------------------- MODULE AccountProofs ---------------------------
(***************************************************************************)
(* Proofs about AccountSession: the types, that a call which awaits a      *)
(* deletion has it in the queue, that an account goes only after what its  *)
(* call found, and that the language follows the settings.                 *)
(***************************************************************************)
EXTENDS AccountSession, SequenceTheorems, TLAPS

Queued == LanguageWrite \cup DocumentDelete

LEMMA FiveSteps ==
    /\ Len(Collections) = 3 /\ DOMAIN Collections = 1..3
    /\ UserDocument = 4 /\ AuthAccount = 5
  BY DEF Collections, UserDocument, AuthAccount

-----------------------------------------------------------------------------
(* Sequences *)

LEMMA Appended ==
    ASSUME NEW S, NEW q \in Seq(S), NEW w \in S
    PROVE  /\ Append(q, w) \in Seq(S) /\ Len(q) \in Nat
           /\ DOMAIN q = 1..Len(q) /\ DOMAIN Append(q, w) = 1..(Len(q) + 1)
           /\ \A k \in 1..Len(q) : Append(q, w)[k] = q[k]
           /\ Append(q, w)[Len(q) + 1] = w
  OBVIOUS

LEMMA WithoutHead ==
    ASSUME NEW S, NEW q \in Seq(S), q # <<>>
    PROVE  /\ Tail(q) \in Seq(S) /\ Len(q) \in Nat /\ Len(q) >= 1
           /\ DOMAIN q = 1..Len(q) /\ DOMAIN Tail(q) = 1..(Len(q) - 1)
           /\ \A k \in 1..(Len(q) - 1) : Tail(q)[k] = q[k + 1]
           /\ Head(q) = q[1] /\ Head(q) \in S
  OBVIOUS

\* Whether a queue holds writes of the settings, one of them is the last.
HasLast(q) ==
    SettingsWrites(q) # {} =>
        \E k \in SettingsWrites(q) : \A j \in SettingsWrites(q) : j <= k

LEMMA LastIs ==
    ASSUME NEW q \in Seq(Queued), NEW k \in SettingsWrites(q),
           \A j \in SettingsWrites(q) : j <= k
    PROVE  LastOf(q) = k
<1>1. SettingsWrites(q) \subseteq Int
  BY DEF SettingsWrites
<1>2. \A j \in SettingsWrites(q) : (\A i \in SettingsWrites(q) : i <= j) => j = k
  BY <1>1
<1> QED
  BY <1>2 DEF LastOf

\* A write of the settings that is queued decides the language.
LEMMA LanguageQueued ==
    ASSUME NEW q \in Seq(Queued), NEW w \in Queued, OfSettings(w), NEW l
    PROVE  HasLast(Append(q, w)) /\ LanguageOf(Append(q, w), l) = LanguageAfter(w)
<1> DEFINE r == Append(q, w)
           n == Len(q) + 1
<1>1. /\ r \in Seq(Queued) /\ DOMAIN r = 1..n /\ r[n] = w /\ n \in Nat \ {0}
  BY Appended
<1> HIDE DEF r, n
<1>2. n \in SettingsWrites(r) /\ \A j \in SettingsWrites(r) : j <= n
  BY <1>1 DEF SettingsWrites
<1>3. LastOf(r) = n
  BY <1>1, <1>2, LastIs
<1>4. HasLast(r) /\ LanguageOf(r, l) = LanguageAfter(w)
  BY <1>1, <1>2, <1>3 DEF HasLast, LanguageOf
<1> QED
  BY <1>4 DEF r

\* Any other write leaves it alone.
LEMMA OtherQueued ==
    ASSUME NEW q \in Seq(Queued), HasLast(q), NEW w \in Queued, ~OfSettings(w), NEW l
    PROVE  HasLast(Append(q, w)) /\ LanguageOf(Append(q, w), l) = LanguageOf(q, l)
<1> DEFINE r == Append(q, w)
<1>1. /\ r \in Seq(Queued) /\ Len(q) \in Nat /\ DOMAIN q = 1..Len(q)
      /\ DOMAIN r = 1..(Len(q) + 1) /\ r[Len(q) + 1] = w
      /\ \A k \in 1..Len(q) : r[k] = q[k]
  BY Appended
<1> HIDE DEF r
<1>2. SettingsWrites(r) = SettingsWrites(q)
  BY <1>1 DEF SettingsWrites
<1>3. HasLast(r)
  BY <1>2 DEF HasLast
<1>4. LanguageOf(r, l) = LanguageOf(q, l)
  <2>1. CASE SettingsWrites(q) = {}
    BY <1>2, <2>1 DEF LanguageOf
  <2>2. CASE SettingsWrites(q) # {}
    <3>1. PICK k \in SettingsWrites(q) : \A j \in SettingsWrites(q) : j <= k
      BY <2>2 DEF HasLast
    <3>2. LastOf(q) = k /\ LastOf(r) = k
      BY <1>1, <1>2, <3>1, LastIs
    <3>3. r[k] = q[k]
      BY <1>1, <3>1 DEF SettingsWrites
    <3> QED
      BY <1>2, <2>2, <3>2, <3>3 DEF LanguageOf
  <2> QED
    BY <2>1, <2>2
<1> QED
  BY <1>3, <1>4 DEF r

\* The settings an applied write leaves behind.
Applied(w, l) == IF OfSettings(w) THEN LanguageAfter(w) ELSE l

\* The oldest write leaves the queue for the server, and the language that the
\* settings will have is the same.
LEMMA OldestApplied ==
    ASSUME NEW q \in Seq(Queued), q # <<>>, HasLast(q), NEW l
    PROVE  /\ HasLast(Tail(q))
           /\ LanguageOf(Tail(q), Applied(Head(q), l)) = LanguageOf(q, l)
<1> DEFINE r == Tail(q)
<1>1. /\ r \in Seq(Queued) /\ Len(q) \in Nat /\ Len(q) >= 1 /\ DOMAIN q = 1..Len(q)
      /\ DOMAIN r = 1..(Len(q) - 1) /\ Head(q) = q[1]
      /\ \A k \in 1..(Len(q) - 1) : r[k] = q[k + 1]
  BY WithoutHead
<1> HIDE DEF r
<1>2. \A k \in Int : k \in SettingsWrites(r) <=> k >= 1 /\ k + 1 \in SettingsWrites(q)
  BY <1>1 DEF SettingsWrites
<1>3. SettingsWrites(q) \subseteq 1..Len(q) /\ SettingsWrites(r) \subseteq 1..(Len(q) - 1)
  BY <1>1 DEF SettingsWrites
<1>4. 1 \in SettingsWrites(q) <=> OfSettings(Head(q))
  BY <1>1 DEF SettingsWrites
<1>5. CASE SettingsWrites(q) = {}
  <2>1. SettingsWrites(r) = {}
    BY <1>2, <1>3, <1>5
  <2> QED
    BY <1>4, <1>5, <2>1 DEF HasLast, LanguageOf, Applied, r
<1>6. CASE SettingsWrites(q) # {}
  <2>1. PICK k \in SettingsWrites(q) : \A j \in SettingsWrites(q) : j <= k
    BY <1>6 DEF HasLast
  <2>2. LastOf(q) = k
    BY <2>1, LastIs
  <2>3. CASE k = 1
    <3>1. SettingsWrites(r) = {}
      BY <1>2, <1>3, <2>1, <2>3
    <3> QED
      BY <1>1, <1>4, <1>6, <2>1, <2>2, <2>3, <3>1 DEF HasLast, LanguageOf, Applied, r
  <2>4. CASE k # 1
    <3>1. k - 1 \in SettingsWrites(r) /\ \A j \in SettingsWrites(r) : j <= k - 1
      BY <1>2, <1>3, <2>1, <2>4
    <3>2. LastOf(r) = k - 1
      BY <1>1, <3>1, LastIs
    <3>3. r[k - 1] = q[k]
      BY <1>1, <1>3, <2>1, <3>1
    <3> QED
      BY <1>6, <2>2, <3>1, <3>2, <3>3 DEF HasLast, LanguageOf, r
  <2> QED
    BY <2>3, <2>4
<1> QED
  BY <1>5, <1>6

-----------------------------------------------------------------------------
(* Calls and the deletions they have queued *)

ForCall(w, x) == w.op = "delete" /\ w.call = x

\* A call, as in g, that awaits a deletion.
Waiting(g) == g # None /\ g.phase = "deleting" /\ g.step < AuthAccount

\* Of the calls in D and the queues in Q: a deletion queued for a call is the
\* only one of its call, which waits for it; who waits has one.
Matched(D, Q) ==
    /\ D \in [Calls -> Deletion \cup {None}]
    /\ Q \in [Users -> Seq(Queued)]
    /\ \A u \in Users : HasLast(Q[u])
    /\ \A x \in Calls, u \in Users : \A k \in DOMAIN Q[u] : ForCall(Q[u][k], x) =>
           /\ Waiting(D[x]) /\ D[x].user = u /\ D[x].step = Q[u][k].step
           /\ \A j \in DOMAIN Q[u] : ForCall(Q[u][j], x) => j = k
    /\ \A x \in Calls : Waiting(D[x]) => \E k \in DOMAIN Q[D[x].user] : ForCall(Q[D[x].user][k], x)

\* A call that waits for nothing ends or is replaced by one that waits for
\* nothing.
LEMMA CallReplaced ==
    ASSUME NEW D, NEW Q, Matched(D, Q), NEW x \in Calls, ~Waiting(D[x]),
           NEW g \in Deletion \cup {None}, ~Waiting(g)
    PROVE  Matched([D EXCEPT ![x] = g], Q)
  BY DEF Matched

\* A call that waits for nothing queues a deletion.
LEMMA DeletionQueued ==
    ASSUME NEW D, NEW Q, Matched(D, Q), NEW x \in Calls, ~Waiting(D[x]),
           NEW g \in Deletion, Waiting(g), NEW w \in DocumentDelete,
           w.call = x, w.step = g.step
    PROVE  Matched([D EXCEPT ![x] = g], [Q EXCEPT ![g.user] = Append(@, w)])
<1> DEFINE u == g.user
           r == Append(Q[u], w)
           n == Len(Q[u]) + 1
           E == [D EXCEPT ![x] = g]
           R == [Q EXCEPT ![u] = r]
<1>1. u \in Users /\ w \in Queued /\ ForCall(w, x) /\ g # None
  BY DEF Deletion, Queued, DocumentDelete, ForCall, Waiting
<1>2. /\ r \in Seq(Queued) /\ n \in Nat \ {0} /\ DOMAIN Q[u] = 1..(n - 1)
      /\ DOMAIN r = 1..n /\ r[n] = w /\ \A k \in 1..(n - 1) : r[k] = Q[u][k]
  BY <1>1, Appended DEF Matched
<1>3. HasLast(r)
  BY <1>1, LanguageQueued, OtherQueued DEF Matched
<1>4. /\ E \in [Calls -> Deletion \cup {None}] /\ R \in [Users -> Seq(Queued)]
      /\ E[x] = g /\ \A y \in Calls : y # x => E[y] = D[y]
      /\ R[u] = r /\ \A v \in Users : v # u => R[v] = Q[v]
  BY <1>1, <1>2 DEF Matched
<1> HIDE DEF u, r, n, E, R
<1>5. \A v \in Users : HasLast(R[v])
  BY <1>3, <1>4 DEF Matched
<1>6. \A v \in Users : \A k \in DOMAIN Q[v] : ~ForCall(Q[v][k], x)
  BY DEF Matched
<1>7. ASSUME NEW y \in Calls, NEW v \in Users, NEW k \in DOMAIN R[v], ForCall(R[v][k], y)
      PROVE  /\ Waiting(E[y]) /\ E[y].user = v /\ E[y].step = R[v][k].step
             /\ \A j \in DOMAIN R[v] : ForCall(R[v][j], y) => j = k
  <2>1. CASE v = u /\ k = n
    <3>1. y = x
      BY <1>1, <1>2, <1>4, <1>7, <2>1 DEF ForCall
    <3> QED
      BY <1>1, <1>2, <1>4, <1>6, <2>1, <3>1 DEF u
  <2>2. CASE v = u /\ k # n
    <3>1. k \in DOMAIN Q[u] /\ R[u][k] = Q[u][k]
      BY <1>2, <1>4, <2>2
    <3>2. y # x
      BY <1>1, <1>6, <1>7, <2>2, <3>1
    <3>3. ~ForCall(w, y)
      BY <3>2 DEF ForCall
    <3>4. /\ Waiting(D[y]) /\ D[y].user = u /\ D[y].step = Q[u][k].step
          /\ \A j \in DOMAIN Q[u] : ForCall(Q[u][j], y) => j = k
      BY <1>1, <1>7, <2>2, <3>1 DEF Matched
    <3>5. ASSUME NEW j \in DOMAIN R[u], ForCall(R[u][j], y)
          PROVE  j \in DOMAIN Q[u] /\ R[u][j] = Q[u][j]
      BY <1>2, <1>4, <3>3, <3>5
    <3> QED
      BY <1>4, <2>2, <3>1, <3>2, <3>4, <3>5
  <2>3. CASE v # u
    <3>1. R[v] = Q[v] /\ y # x
      BY <1>4, <1>6, <1>7, <2>3
    <3> QED
      BY <1>4, <1>7, <3>1 DEF Matched
  <2> QED
    BY <2>1, <2>2, <2>3
<1>8. ASSUME NEW y \in Calls, Waiting(E[y])
      PROVE  \E k \in DOMAIN R[E[y].user] : ForCall(R[E[y].user][k], y)
  <2>1. CASE y = x
    BY <1>1, <1>2, <1>4, <2>1 DEF u
  <2>2. CASE y # x
    <3>1. PICK k \in DOMAIN Q[D[y].user] : ForCall(Q[D[y].user][k], y)
      BY <1>4, <1>8, <2>2 DEF Matched
    <3>2. D[y].user \in Users
      BY <1>4, <1>8, <2>2 DEF Matched, Waiting, Deletion
    <3> QED
      BY <1>2, <1>4, <2>2, <3>1, <3>2
  <2> QED
    BY <2>1, <2>2
<1> QED
  BY <1>4, <1>5, <1>7, <1>8 DEF Matched, E, R, r, u

\* The user chooses a language.
LEMMA LanguageWriteQueued ==
    ASSUME NEW D, NEW Q, Matched(D, Q), NEW u \in Users, NEW w \in LanguageWrite
    PROVE  Matched(D, [Q EXCEPT ![u] = Append(@, w)])
<1> DEFINE r == Append(Q[u], w)
           n == Len(Q[u]) + 1
           R == [Q EXCEPT ![u] = r]
<1>1. w \in Queued /\ OfSettings(w) /\ \A x \in Calls : ~ForCall(w, x)
  BY DEF Queued, LanguageWrite, OfSettings, ForCall
<1>2. /\ r \in Seq(Queued) /\ n \in Nat \ {0} /\ DOMAIN Q[u] = 1..(n - 1)
      /\ DOMAIN r = 1..n /\ r[n] = w /\ \A k \in 1..(n - 1) : r[k] = Q[u][k]
  BY <1>1, Appended DEF Matched
<1>3. HasLast(r)
  BY <1>1, LanguageQueued DEF Matched
<1>4. /\ R \in [Users -> Seq(Queued)]
      /\ R[u] = r /\ \A v \in Users : v # u => R[v] = Q[v]
  BY <1>2 DEF Matched
<1> HIDE DEF r, n, R
<1>5. \A v \in Users : HasLast(R[v])
  BY <1>3, <1>4 DEF Matched
<1>6. ASSUME NEW x \in Calls, NEW v \in Users, NEW k \in DOMAIN R[v], ForCall(R[v][k], x)
      PROVE  /\ k \in DOMAIN Q[v] /\ R[v][k] = Q[v][k]
             /\ Waiting(D[x]) /\ D[x].user = v /\ D[x].step = R[v][k].step
             /\ \A j \in DOMAIN R[v] : ForCall(R[v][j], x) => j = k
  <2>1. k \in DOMAIN Q[v] /\ R[v][k] = Q[v][k]
    BY <1>1, <1>2, <1>4, <1>6
  <2>2. ASSUME NEW j \in DOMAIN R[v], ForCall(R[v][j], x)
        PROVE  j \in DOMAIN Q[v] /\ R[v][j] = Q[v][j]
    BY <1>1, <1>2, <1>4, <2>2
  <2> QED
    BY <1>6, <2>1, <2>2 DEF Matched
<1>7. ASSUME NEW x \in Calls, Waiting(D[x])
      PROVE  \E k \in DOMAIN R[D[x].user] : ForCall(R[D[x].user][k], x)
  <2>1. PICK k \in DOMAIN Q[D[x].user] : ForCall(Q[D[x].user][k], x)
    BY <1>7 DEF Matched
  <2>2. D[x].user \in Users
    BY <1>7 DEF Matched, Waiting, Deletion
  <2> QED
    BY <1>2, <1>4, <2>1, <2>2
<1> QED
  BY <1>4, <1>5, <1>6, <1>7 DEF Matched, R, r

\* The oldest write leaves the queue, and its call, if it has one, ends.
LEMMA OldestGone ==
    ASSUME NEW D, NEW Q, Matched(D, Q), NEW u \in Users, Q[u] # <<>>,
           NEW E, E \in [Calls -> Deletion \cup {None}],
           \A x \in Calls : E[x] = IF ForCall(Head(Q[u]), x) THEN None ELSE D[x]
    PROVE  Matched(E, [Q EXCEPT ![u] = Tail(@)])
<1> DEFINE r == Tail(Q[u])
           n == Len(Q[u]) - 1
           R == [Q EXCEPT ![u] = r]
<1>1. /\ r \in Seq(Queued) /\ n \in Nat /\ DOMAIN Q[u] = 1..(n + 1)
      /\ DOMAIN r = 1..n /\ \A k \in 1..n : r[k] = Q[u][k + 1]
      /\ Head(Q[u]) = Q[u][1] /\ Head(Q[u]) \in Queued
  BY WithoutHead DEF Matched
<1>2. HasLast(r)
  BY OldestApplied DEF Matched
<1>3. /\ R \in [Users -> Seq(Queued)]
      /\ R[u] = r /\ \A v \in Users : v # u => R[v] = Q[v]
  BY <1>1 DEF Matched
<1> HIDE DEF r, n, R
<1>4. \A v \in Users : HasLast(R[v])
  BY <1>2, <1>3 DEF Matched
<1>5. \A v \in Users : \A k \in DOMAIN R[v] :
          \E j \in DOMAIN Q[v] : /\ R[v][k] = Q[v][j]
                                 /\ v = u => j = k + 1
                                 /\ v # u => j = k
  <2>1. ASSUME NEW v \in Users, NEW k \in DOMAIN R[v], v = u
        PROVE  k + 1 \in DOMAIN Q[v] /\ R[v][k] = Q[v][k + 1]
    <3>1. k \in 1..n
      BY <1>1, <1>3, <2>1
    <3>2. k + 1 \in 1..(n + 1) /\ R[u][k] = Q[u][k + 1]
      BY <1>1, <1>3, <3>1
    <3> QED
      BY <1>1, <2>1, <3>2
  <2>2. ASSUME NEW v \in Users, NEW k \in DOMAIN R[v], v # u
        PROVE  k \in DOMAIN Q[v] /\ R[v][k] = Q[v][k]
    BY <1>3, <2>2
  <2> QED
    BY <2>1, <2>2
<1>6. ASSUME NEW x \in Calls, NEW v \in Users, NEW k \in DOMAIN R[v], ForCall(R[v][k], x)
      PROVE  /\ Waiting(E[x]) /\ E[x].user = v /\ E[x].step = R[v][k].step
             /\ \A j \in DOMAIN R[v] : ForCall(R[v][j], x) => j = k
  <2>1. PICK i \in DOMAIN Q[v] : /\ R[v][k] = Q[v][i]
                                 /\ v = u => i = k + 1
                                 /\ v # u => i = k
    BY <1>5
  <2>2. /\ Waiting(D[x]) /\ D[x].user = v /\ D[x].step = R[v][k].step
        /\ \A j \in DOMAIN Q[v] : ForCall(Q[v][j], x) => j = i
    BY <1>6, <2>1 DEF Matched
  <2>3. ~ForCall(Head(Q[u]), x)
    <3> SUFFICES ASSUME ForCall(Q[u][1], x) PROVE FALSE
      BY <1>1
    <3>1. v = u
      BY <1>1, <2>2 DEF Matched
    <3> QED
      BY <1>1, <1>3, <2>1, <2>2, <3>1
  <2>4. ASSUME NEW j \in DOMAIN R[v], ForCall(R[v][j], x) PROVE j = k
    <3>1. PICK m \in DOMAIN Q[v] : /\ R[v][j] = Q[v][m]
                                   /\ v = u => m = j + 1
                                   /\ v # u => m = j
      BY <1>5
    <3>2. m = i
      BY <2>2, <2>4, <3>1
    <3>3. v = u => j \in Int /\ k \in Int
      BY <1>1, <1>3
    <3> QED
      BY <2>1, <3>1, <3>2, <3>3
  <2> QED
    BY <2>2, <2>3, <2>4
<1>7. ASSUME NEW x \in Calls, Waiting(E[x])
      PROVE  \E k \in DOMAIN R[E[x].user] : ForCall(R[E[x].user][k], x)
  <2>1. E[x] = D[x] /\ ~ForCall(Head(Q[u]), x)
    BY <1>7 DEF Waiting
  <2>2. PICK k \in DOMAIN Q[D[x].user] : ForCall(Q[D[x].user][k], x)
    BY <1>7, <2>1 DEF Matched
  <2>3. D[x].user \in Users
    BY <1>7, <2>1 DEF Matched, Waiting, Deletion
  <2>4. CASE D[x].user = u
    <3>1. k # 1
      BY <1>1, <2>1, <2>2, <2>4
    <3>2. k - 1 \in DOMAIN r /\ r[k - 1] = Q[u][k]
      BY <1>1, <2>4, <3>1
    <3> QED
      BY <1>3, <2>1, <2>2, <2>4, <3>2
  <2>5. CASE D[x].user # u
    BY <1>3, <2>1, <2>2, <2>3, <2>5
  <2> QED
    BY <2>4, <2>5
<1> QED
  BY <1>3, <1>4, <1>6, <1>7 DEF Matched, R, r

\* The process ends: its calls are gone, and what they queued is nobody's.
LEMMA ProcessEnds ==
    ASSUME NEW D, NEW Q, Matched(D, Q),
           NEW R, R = [u \in Users |-> [k \in DOMAIN Q[u] |->
               IF Q[u][k].op = "delete" THEN [Q[u][k] EXCEPT !.call = None] ELSE Q[u][k]]]
    PROVE  Matched([x \in Calls |-> None], R)
<1>1. ASSUME NEW w \in Queued, w.op = "delete"
      PROVE  /\ [w EXCEPT !.call = None] \in Queued
             /\ [w EXCEPT !.call = None].op = w.op
             /\ [w EXCEPT !.call = None].step = w.step
             /\ [w EXCEPT !.call = None].call = None
  BY <1>1 DEF Queued, LanguageWrite, DocumentDelete
<1>2. ASSUME NEW u \in Users
      PROVE  /\ R[u] \in Seq(Queued) /\ DOMAIN R[u] = DOMAIN Q[u]
             /\ \A k \in DOMAIN R[u] : R[u][k].op = Q[u][k].op
                                    /\ R[u][k].op = "delete" =>
                                           R[u][k].step = Q[u][k].step /\ R[u][k].call = None
  <2>1. Q[u] \in Seq(Queued) /\ Len(Q[u]) \in Nat /\ DOMAIN Q[u] = 1..Len(Q[u])
        /\ \A k \in 1..Len(Q[u]) : Q[u][k] \in Queued
    BY DEF Matched
  <2>2. /\ R[u] = [k \in 1..Len(Q[u]) |->
              IF Q[u][k].op = "delete" THEN [Q[u][k] EXCEPT !.call = None] ELSE Q[u][k]]
        /\ \A k \in 1..Len(Q[u]) : R[u][k] \in Queued
    BY <1>1, <2>1
  <2>3. R[u] \in [1..Len(Q[u]) -> Queued]
    BY <2>2
  <2>4. R[u] \in Seq(Queued)
    <3>1. R[u] \in UNION {[1..m -> Queued] : m \in Nat}
      BY <2>1, <2>3
    <3> QED
      BY <3>1, SeqDef
  <2> QED
    BY <1>1, <2>1, <2>2, <2>4
<1>3. ASSUME NEW u \in Users PROVE HasLast(R[u])
  <2>1. SettingsWrites(R[u]) = SettingsWrites(Q[u])
    <3>1. ASSUME NEW k \in DOMAIN Q[u] PROVE OfSettings(R[u][k]) <=> OfSettings(Q[u][k])
      <4>1. Q[u][k] \in Queued
        BY ElementOfSeq DEF Matched
      <4>2. Q[u][k].op \in {"language", "delete"}
        BY <4>1 DEF Queued, LanguageWrite, DocumentDelete
      <4> QED
        BY <1>2, <4>2 DEF OfSettings
    <3> QED
      BY <1>2, <3>1 DEF SettingsWrites
  <2> QED
    BY <2>1 DEF HasLast, Matched
<1>4. \A x \in Calls, u \in Users : \A k \in DOMAIN R[u] : ~ForCall(R[u][k], x)
  BY <1>2, NoneAssumption DEF ForCall
<1>5. R \in [Users -> Seq(Queued)]
  BY <1>2
<1> QED
  BY <1>3, <1>4, <1>5 DEF Matched, Waiting

\* What the calls remember of later writes does not matter here.
LEMMA SinceIrrelevant ==
    ASSUME NEW D, NEW Q, Matched(D, Q), NEW E, E \in [Calls -> Deletion \cup {None}],
           \A x \in Calls : \/ E[x] = D[x]
                            \/ /\ E[x] # None /\ D[x] # None /\ E[x].user = D[x].user
                               /\ E[x].step = D[x].step /\ E[x].phase = D[x].phase
    PROVE  Matched(E, Q)
<1>1. \A x \in Calls : /\ Waiting(E[x]) <=> Waiting(D[x])
                       /\ Waiting(D[x]) => E[x].user = D[x].user /\ E[x].step = D[x].step
  BY DEF Waiting
<1>2. \A x \in Calls, u \in Users : \A k \in DOMAIN Q[u] : ForCall(Q[u][k], x) =>
          /\ Waiting(E[x]) /\ E[x].user = u /\ E[x].step = Q[u][k].step
          /\ \A j \in DOMAIN Q[u] : ForCall(Q[u][j], x) => j = k
  BY <1>1 DEF Matched
<1>3. ASSUME NEW x \in Calls, Waiting(E[x])
      PROVE  \E k \in DOMAIN Q[E[x].user] : ForCall(Q[E[x].user][k], x)
  <2>1. Waiting(D[x]) /\ E[x].user = D[x].user
    BY <1>1, <1>3
  <2>2. PICK k \in DOMAIN Q[D[x].user] : ForCall(Q[D[x].user][k], x)
    BY <2>1 DEF Matched
  <2> QED
    BY <2>1, <2>2
<1>4. Q \in [Users -> Seq(Queued)] /\ \A u \in Users : HasLast(Q[u])
  BY DEF Matched
<1> QED
  BY <1>2, <1>3, <1>4 DEF Matched

-----------------------------------------------------------------------------
(* The steps of a call *)

CallsMatched == Matched(deletions, queue)

\* The write that the server answers next, and the call that awaits it.
LEMMA OldestWrite ==
    ASSUME AccountTypeOK, CallsMatched, user # NoUser, queue[user] # <<>>
    PROVE  /\ user \in Users /\ Oldest \in Queued
           /\ Oldest.op = "delete" /\ Awaited(Oldest) =>
                  /\ Oldest.call \in Calls /\ Waiting(deletions[Oldest.call])
                  /\ deletions[Oldest.call] \in Deletion
                  /\ deletions[Oldest.call].user = user
                  /\ deletions[Oldest.call].step = Oldest.step
                  /\ \A x \in Calls : ForCall(Oldest, x) <=> x = Oldest.call
           /\ Oldest.op = "delete" /\ ~Awaited(Oldest) => \A x \in Calls : ~ForCall(Oldest, x)
           /\ Oldest.op = "language" => \A x \in Calls : ~ForCall(Oldest, x)
<1>1. user \in Users /\ queue[user] \in Seq(Queued)
  BY AccountAssumption DEF AccountTypeOK, CallsMatched, Matched
<1>2. Oldest \in Queued /\ Oldest = queue[user][1] /\ 1 \in DOMAIN queue[user]
  BY <1>1, WithoutHead DEF Oldest
<1>3. ASSUME Oldest.op = "delete", Awaited(Oldest)
      PROVE  /\ Oldest.call \in Calls /\ ForCall(Oldest, Oldest.call)
             /\ \A x \in Calls : ForCall(Oldest, x) <=> x = Oldest.call
  BY <1>2, <1>3 DEF Queued, LanguageWrite, DocumentDelete, Awaited, ForCall
<1>4. ASSUME NEW x \in Calls, ForCall(Oldest, x)
      PROVE  /\ Waiting(deletions[x]) /\ deletions[x] \in Deletion
             /\ deletions[x].user = user /\ deletions[x].step = Oldest.step
  BY <1>1, <1>2, <1>4 DEF CallsMatched, Matched, Waiting
<1>5. Oldest.op = "delete" /\ ~Awaited(Oldest) => \A x \in Calls : ~ForCall(Oldest, x)
  BY NoneAssumption DEF Awaited, ForCall
<1> QED
  BY <1>1, <1>2, <1>3, <1>4, <1>5 DEF ForCall

\* A call goes on with a deletion or with the next step.
LEMMA NextStepType ==
    ASSUME NEW g \in Deletion, g.step \in DOMAIN Collections
    PROVE  /\ NextStep(g) \in Deletion /\ NextStep(g).user = g.user
           /\ NextStep(g).step = g.step + 1 /\ NextStep(g).todo = {}
           /\ NextStep(g).since = g.since
           /\ NextStep(g).phase = IF g.step < 3 THEN "asking" ELSE "deleting"
<1> DEFINE p == IF g.step < Len(Collections) THEN "asking" ELSE "deleting"
<1>1. NextStep(g) = [g EXCEPT !.step = g.step + 1, !.todo = {}, !.phase = p]
  BY DEF NextStep
<1>2. p = IF g.step < 3 THEN "asking" ELSE "deleting"
  BY FiveSteps
<1>3. g.step + 1 \in 1..AuthAccount
  BY FiveSteps
<1> HIDE DEF p
<1>4. NextStep(g) \in Deletion
  BY <1>1, <1>2, <1>3 DEF Deletion
<1>5. /\ NextStep(g).user = g.user /\ NextStep(g).step = g.step + 1
      /\ NextStep(g).todo = {} /\ NextStep(g).since = g.since /\ NextStep(g).phase = p
  BY <1>1 DEF Deletion
<1> QED
  BY <1>2, <1>4, <1>5

LEMMA ContinueMatched ==
    ASSUME NEW x \in Calls, NEW g \in Deletion, g.step \in DOMAIN Collections, NEW rest,
           Matched([deletions EXCEPT ![x] = None], [queue EXCEPT ![g.user] = rest]),
           deletions \in [Calls -> Deletion \cup {None}],
           queue \in [Users -> Seq(Queued)], Continue(x, g, rest)
    PROVE  Matched(deletions', queue')
<1> DEFINE D == [deletions EXCEPT ![x] = None]
           Q == [queue EXCEPT ![g.user] = rest]
<1>1. g.user \in Users /\ g.step \in 1..3 /\ g # None
  BY FiveSteps, NoneAssumption DEF Deletion
<1>2. D[x] = None /\ Q[g.user] = rest /\ ~Waiting(D[x])
  BY <1>1 DEF Waiting
<1>3. \A h : [D EXCEPT ![x] = h] = [deletions EXCEPT ![x] = h]
  OBVIOUS
<1>4. \A r : [Q EXCEPT ![g.user] = r] = [queue EXCEPT ![g.user] = r]
  OBVIOUS
<1> HIDE DEF D, Q
<1>5. Matched(D, Q)
  BY DEF D, Q
<1>6. CASE g.todo # {}
  <2> DEFINE h == [g EXCEPT !.phase = "deleting"]
  <2>1. PICK d \in g.todo : /\ deletions' = [deletions EXCEPT ![x] = h]
                            /\ queue' = [queue EXCEPT ![g.user] = Append(rest, Deleting(x, g, d))]
    BY <1>6 DEF Continue
  <2>2. /\ h \in Deletion /\ h.user = g.user /\ h.step = g.step /\ h # None
        /\ h.phase = "deleting"
    BY NoneAssumption DEF Deletion
  <2>3. Waiting(h)
    BY <1>1, <2>2, FiveSteps DEF Waiting
  <2>4. /\ Deleting(x, g, d) \in DocumentDelete
        /\ Deleting(x, g, d).call = x /\ Deleting(x, g, d).step = h.step
    BY <1>1, <2>2, FiveSteps DEF Deleting, DocumentDelete, Deletion
  <2> HIDE DEF h
  <2>5. Matched([D EXCEPT ![x] = h], [Q EXCEPT ![g.user] = Append(@, Deleting(x, g, d))])
    BY <1>2, <1>5, <2>2, <2>3, <2>4, DeletionQueued
  <2> QED
    BY <1>2, <1>3, <1>4, <2>1, <2>5
<1>7. CASE g.todo = {} /\ NextStep(g).step = UserDocument
  <2>1. /\ deletions' = [deletions EXCEPT ![x] = NextStep(g)]
        /\ queue' = [queue EXCEPT ![g.user] = Append(rest, Deleting(x, NextStep(g), "none"))]
    BY <1>7 DEF Continue
  <2>2. /\ NextStep(g) \in Deletion /\ NextStep(g).user = g.user /\ NextStep(g) # None
        /\ NextStep(g).step = 4 /\ NextStep(g).phase = "deleting"
    BY <1>1, <1>7, NextStepType, NoneAssumption, FiveSteps
  <2>3. Waiting(NextStep(g))
    BY <2>2, FiveSteps DEF Waiting
  <2>4. /\ Deleting(x, NextStep(g), "none") \in DocumentDelete
        /\ Deleting(x, NextStep(g), "none").call = x
        /\ Deleting(x, NextStep(g), "none").step = NextStep(g).step
    BY <2>2, FiveSteps DEF Deleting, DocumentDelete
  <2>5. Matched([D EXCEPT ![x] = NextStep(g)],
                [Q EXCEPT ![g.user] = Append(@, Deleting(x, NextStep(g), "none"))])
    BY <1>2, <1>5, <2>2, <2>3, <2>4, DeletionQueued
  <2> QED
    BY <1>2, <1>3, <1>4, <2>1, <2>5
<1>8. CASE g.todo = {} /\ NextStep(g).step # UserDocument
  <2>1. /\ deletions' = [D EXCEPT ![x] = NextStep(g)]
        /\ queue' = Q
    BY <1>3, <1>8 DEF Continue, Q
  <2>2. NextStep(g) \in Deletion /\ ~Waiting(NextStep(g))
    BY <1>1, <1>8, NextStepType, FiveSteps DEF Waiting
  <2> QED
    BY <1>2, <1>5, <2>1, <2>2, CallReplaced
<1> QED
  BY <1>6, <1>7, <1>8

\* A step of the server ends the wait of a call or answers nobody's write.
LEMMA AnsweredMatched ==
    ASSUME AccountTypeOK, CallsMatched, user # NoUser, queue[user] # <<>>
    PROVE  /\ Oldest.op = "delete" /\ Awaited(Oldest) =>
                  Matched([deletions EXCEPT ![Oldest.call] = None], [queue EXCEPT ![user] = Rest])
           /\ Oldest.op = "language" \/ ~Awaited(Oldest) =>
                  Matched(deletions, [queue EXCEPT ![user] = Rest])
<1>1. user \in Users /\ deletions \in [Calls -> Deletion \cup {None}]
  BY OldestWrite DEF CallsMatched, Matched
<1>2. ASSUME Oldest.op = "delete", Awaited(Oldest)
      PROVE  Matched([deletions EXCEPT ![Oldest.call] = None], [queue EXCEPT ![user] = Rest])
  <2> DEFINE E == [deletions EXCEPT ![Oldest.call] = None]
  <2>1. E \in [Calls -> Deletion \cup {None}]
    BY <1>1
  <2>2. \A x \in Calls : E[x] = IF ForCall(Head(queue[user]), x) THEN None ELSE deletions[x]
    BY <1>1, <1>2, OldestWrite DEF Oldest
  <2> HIDE DEF E
  <2>3. Matched(E, [queue EXCEPT ![user] = Tail(@)])
    BY <1>1, <2>1, <2>2, OldestGone DEF CallsMatched
  <2> QED
    BY <2>3 DEF E, Rest
<1>3. ASSUME Oldest.op = "language" \/ ~Awaited(Oldest)
      PROVE  Matched(deletions, [queue EXCEPT ![user] = Rest])
  <2>1. \A x \in Calls : ~ForCall(Head(queue[user]), x)
    BY <1>3, OldestWrite DEF Oldest, ForCall, Awaited
  <2>2. Matched(deletions, [queue EXCEPT ![user] = Tail(@)])
    BY <1>1, <2>1, OldestGone DEF CallsMatched
  <2> QED
    BY <2>2 DEF Rest
<1> QED
  BY <1>2, <1>3

\* Later writes change only what calls remember of them.
Noted(g, i, d) == [g EXCEPT !.since[i] = @ \cup {d}]

LEMMA NotedType ==
    ASSUME NEW g \in Deletion, NEW i \in DOMAIN Collections, NEW d \in Documents \cup {"default"}
    PROVE  /\ Noted(g, i, d) \in Deletion /\ Noted(g, i, d) # None
           /\ Noted(g, i, d).user = g.user /\ Noted(g, i, d).step = g.step
           /\ Noted(g, i, d).phase = g.phase /\ Noted(g, i, d).todo = g.todo
           /\ Noted(g, i, d).since = [g.since EXCEPT ![i] = @ \cup {d}]
<1>1. Noted(g, i, d) \in Deletion
  BY DEF Noted, Deletion
<1> QED
  BY <1>1, NoneAssumption DEF Noted, Deletion

LEMMA WrittenSinceType ==
    ASSUME CallsMatched, NEW u, NEW i \in DOMAIN Collections,
           NEW d \in Documents \cup {"default"}, WrittenSince(u, i, d)
    PROVE  /\ deletions' \in [Calls -> Deletion \cup {None}]
           /\ \A x \in Calls : deletions'[x] =
                  IF deletions[x] # None /\ deletions[x].user = u /\ Asked(deletions[x], i)
                  THEN Noted(deletions[x], i, d) ELSE deletions[x]
<1>1. deletions \in [Calls -> Deletion \cup {None}]
  BY DEF CallsMatched, Matched
<1>2. deletions' = [x \in Calls |->
          IF deletions[x] # None /\ deletions[x].user = u /\ Asked(deletions[x], i)
          THEN Noted(deletions[x], i, d) ELSE deletions[x]]
  BY DEF WrittenSince, Noted
<1> QED
  BY <1>1, <1>2, NotedType

LEMMA WrittenSinceMatched ==
    ASSUME CallsMatched, NEW u, NEW i \in DOMAIN Collections,
           NEW d \in Documents \cup {"default"}, WrittenSince(u, i, d),
           NEW Q, Matched(deletions, Q)
    PROVE  Matched(deletions', Q)
<1>1. deletions \in [Calls -> Deletion \cup {None}]
  BY DEF CallsMatched, Matched
<1>2. \A x \in Calls : \/ deletions'[x] = deletions[x]
                       \/ /\ deletions'[x] # None /\ deletions[x] # None
                          /\ deletions'[x].user = deletions[x].user
                          /\ deletions'[x].step = deletions[x].step
                          /\ deletions'[x].phase = deletions[x].phase
  <2> SUFFICES ASSUME NEW x \in Calls, deletions'[x] # deletions[x]
               PROVE  /\ deletions'[x] # None /\ deletions[x] # None
                      /\ deletions'[x].user = deletions[x].user
                      /\ deletions'[x].step = deletions[x].step
                      /\ deletions'[x].phase = deletions[x].phase
    OBVIOUS
  <2>1. deletions[x] # None /\ deletions'[x] = Noted(deletions[x], i, d)
    BY WrittenSinceType
  <2>2. deletions[x] \in Deletion
    BY <1>1, <2>1
  <2> DEFINE h == Noted(deletions[x], i, d)
  <2>3. /\ h # None /\ h.user = deletions[x].user /\ h.step = deletions[x].step
        /\ h.phase = deletions[x].phase
    BY <2>2, NotedType
  <2> HIDE DEF h
  <2>4. deletions'[x] = h
    BY <2>1 DEF h
  <2> QED
    BY <2>1, <2>3, <2>4
<1> QED
  BY <1>2, WrittenSinceType, SinceIrrelevant

-----------------------------------------------------------------------------
(* Types, and the calls and their queues *)

Base == AccountTypeOK /\ CallsMatched

LEMMA InitBase == Init => Base
<1> SUFFICES ASSUME Init PROVE Base
  OBVIOUS
<1>1. \A u \in Users : queue[u] = <<>> /\ HasLast(queue[u])
  <2>1. DOMAIN <<>> = {}
    OBVIOUS
  <2>2. SettingsWrites(<<>>) = {}
    BY <2>1 DEF SettingsWrites
  <2> QED
    BY <2>2 DEF Init, HasLast
<1>2. queue \in [Users -> Seq(Queued)] /\ queue \in [Users -> Seq(LanguageWrite \cup DocumentDelete)]
  BY DEF Init
<1>3. \A x \in Calls : deletions[x] = None
  BY DEF Init
<1>4. deletions \in [Calls -> Deletion \cup {None}]
  BY DEF Init
<1>5. CallsMatched
  BY <1>1, <1>2, <1>3, <1>4 DEF CallsMatched, Matched, Waiting
<1>6. documents \in [Users -> [DOMAIN Collections -> SUBSET (Documents \cup {"default"})]]
  BY DEF Init, DocumentsOf
<1>7. syncs \in [SyncIds -> Sync \cup {None}]
  BY DEF Init
<1>8. /\ accounts \subseteq Users /\ user \in accounts \cup {NoUser}
      /\ language \in Languages /\ settings \in [Users -> Languages]
  BY AccountAssumption DEF Init
<1>9. synced \in BOOLEAN
  BY DEF Init
<1>10. /\ choices \in 0..MaxChoices /\ writes \in 0..MaxWrites /\ signIns \in 0..MaxSignIns
       /\ calls \in 0..MaxCalls
  BY AccountAssumption DEF Init
<1> QED
  BY <1>2, <1>4, <1>5, <1>6, <1>7, <1>8, <1>9, <1>10 DEF Base, AccountTypeOK

\* The language that is asked for is one of the languages.
LEMMA LanguageType ==
    ASSUME AccountTypeOK, CallsMatched, NEW u \in Users
    PROVE  UserLanguage(u) \in Languages
<1>1. /\ queue[u] \in Seq(Queued) /\ HasLast(queue[u]) /\ settings[u] \in Languages
  BY DEF AccountTypeOK, CallsMatched, Matched
<1>2. ASSUME SettingsWrites(queue[u]) # {}
      PROVE  queue[u][LastOf(queue[u])] \in Queued
  <2>1. PICK k \in SettingsWrites(queue[u]) : \A j \in SettingsWrites(queue[u]) : j <= k
    BY <1>1, <1>2 DEF HasLast
  <2>2. LastOf(queue[u]) = k
    BY <1>1, <2>1, LastIs
  <2> QED
    BY <1>1, <2>1, <2>2 DEF SettingsWrites
<1>3. \A w \in Queued : LanguageAfter(w) \in Languages
  BY AccountAssumption DEF LanguageAfter, Queued, LanguageWrite, DocumentDelete
<1> QED
  BY <1>1, <1>2, <1>3 DEF UserLanguage, LanguageOf

\* What Matched says of calls and queues is what AccountTypeOK says of them.
LEMMA MatchedTypes ==
    ASSUME NEW D, NEW Q, Matched(D, Q)
    PROVE  /\ D \in [Calls -> Deletion \cup {None}]
           /\ Q \in [Users -> Seq(LanguageWrite \cup DocumentDelete)]
  BY DEF Matched, Queued

LEMMA MatchedStep == Base /\ [Next]_vars => CallsMatched'
<1> SUFFICES ASSUME AccountTypeOK, CallsMatched, [Next]_vars PROVE Matched(deletions', queue')
  BY DEF Base, CallsMatched
<1> USE DEF CallsMatched
<1>0. /\ deletions \in [Calls -> Deletion \cup {None}] /\ queue \in [Users -> Seq(Queued)]
      /\ user # NoUser => user \in Users
  BY AccountAssumption DEF AccountTypeOK, Matched
<1>1. ASSUME UNCHANGED <<deletions, queue>> PROVE Matched(deletions', queue')
  BY <1>1
<1>2. ASSUME NEW l \in Languages, ChangeLanguage(l) PROVE Matched(deletions', queue')
  <2>1. CASE user = NoUser
    BY <1>2, <2>1 DEF ChangeLanguage
  <2>2. CASE user # NoUser
    <3> DEFINE w == [op |-> "language", language |-> l]
    <3>1. w \in LanguageWrite
      BY DEF LanguageWrite
    <3>2. deletions' = deletions /\ queue' = [queue EXCEPT ![user] = Append(@, w)]
      BY <1>2, <2>2 DEF ChangeLanguage
    <3> HIDE DEF w
    <3> QED
      BY <1>0, <2>2, <3>1, <3>2, LanguageWriteQueued
  <2> QED
    BY <2>1, <2>2
<1>3. ASSUME NEW x \in Calls, DeleteAccount(x) PROVE Matched(deletions', queue')
  <2> DEFINE g == [user |-> user, step |-> 1, phase |-> "asking", todo |-> {},
                   since |-> [i \in DOMAIN Collections |-> {}]]
  <2>1. g \in Deletion /\ ~Waiting(g)
    BY <1>0, <1>3, FiveSteps DEF DeleteAccount, Deletion, Waiting
  <2>2. /\ deletions' = [deletions EXCEPT ![x] = g] /\ queue' = queue
        /\ ~Waiting(deletions[x])
    BY <1>3 DEF DeleteAccount, firestore, Waiting
  <2> HIDE DEF g
  <2> QED
    BY <2>1, <2>2, CallReplaced
<1>4. ASSUME NEW x \in Calls, CollectionRead(x) PROVE Matched(deletions', queue')
  <2>1. PICK i \in DOMAIN Collections :
            /\ At(x, i, "asking") /\ user = deletions[x].user
            /\ \E found \in SUBSET documents[user][i] :
                   deletions' = [deletions EXCEPT ![x].phase = "answered", ![x].todo = found]
    BY <1>4 DEF CollectionRead
  <2>2. PICK found \in SUBSET documents[user][i] :
            deletions' = [deletions EXCEPT ![x].phase = "answered", ![x].todo = found]
    BY <2>1
  <2> DEFINE g == [deletions[x] EXCEPT !.phase = "answered", !.todo = found]
  <2>3. deletions[x] \in Deletion /\ deletions[x].phase = "asking"
    BY <1>0, <2>1 DEF At
  <2>4. found \in SUBSET (Documents \cup {"default"})
    BY <2>1, <2>2, <2>3 DEF AccountTypeOK, Deletion
  <2>5. g \in Deletion /\ g.phase = "answered"
    BY <2>3, <2>4 DEF Deletion
  <2>6. deletions' = [deletions EXCEPT ![x] = g] /\ queue' = queue
    BY <1>0, <1>4, <2>2 DEF CollectionRead, firestore
  <2> HIDE DEF g
  <2> QED
    BY <2>3, <2>5, <2>6, CallReplaced DEF Waiting
<1>5. ASSUME NEW x \in Calls, QueryAnswered(x) PROVE Matched(deletions', queue')
  <2>1. PICK i \in DOMAIN Collections : At(x, i, "answered")
    BY <1>5 DEF QueryAnswered
  <2> DEFINE g == deletions[x]
  <2>2. g \in Deletion /\ g.step \in DOMAIN Collections /\ ~Waiting(g) /\ g.user \in Users
    BY <1>0, <2>1 DEF At, Waiting, Deletion
  <2>3. Matched([deletions EXCEPT ![x] = None], queue)
    BY <2>2, CallReplaced DEF Waiting
  <2>4. [queue EXCEPT ![g.user] = queue[g.user]] = queue
    BY <1>0
  <2>5. Continue(x, g, queue[g.user])
    BY <1>5 DEF QueryAnswered
  <2> QED
    BY <1>0, <2>2, <2>3, <2>4, <2>5, ContinueMatched
<1>6. ASSUME NEW x \in Calls, QueryFails(x) \/ AuthDeleted(x) \/ AuthRefused(x)
      PROVE  Matched(deletions', queue')
  <2>1. /\ deletions' = [deletions EXCEPT ![x] = None] /\ queue' = queue
        /\ \/ deletions[x].phase = "asking"
           \/ deletions[x].step = AuthAccount
    BY <1>6 DEF QueryFails, AuthDeleted, AuthRefused, At, firestore
  <2>2. ~Waiting(deletions[x])
    BY <2>1, FiveSteps DEF Waiting
  <2> QED
    BY <2>1, <2>2, CallReplaced DEF Waiting
<1>7. ASSUME LanguageStored PROVE Matched(deletions', queue')
  <2>1. /\ user # NoUser /\ queue[user] # <<>> /\ Oldest.op = "language"
        /\ queue' = [queue EXCEPT ![user] = Rest]
        /\ WrittenSince(user, Len(Collections), "default")
    BY <1>7 DEF LanguageStored
  <2>2. Matched(deletions, queue')
    BY <2>1, AnsweredMatched
  <2> QED
    BY <2>1, <2>2, WrittenSinceMatched, FiveSteps
<1>8. ASSUME LanguageRefused PROVE Matched(deletions', queue')
  BY <1>8, AnsweredMatched DEF LanguageRefused
<1>9. ASSUME DocumentDeleted PROVE Matched(deletions', queue')
  <2>1. CASE Awaited(Oldest)
    <3> DEFINE x == Oldest.call
               g == [deletions[x] EXCEPT !.todo = @ \ {Oldest.document}]
    <3>1. /\ user # NoUser /\ queue[user] # <<>> /\ Oldest.op = "delete"
          /\ Oldest.step < UserDocument /\ Continue(x, g, Rest)
      BY <1>9, <2>1 DEF DocumentDeleted
    <3>2. /\ x \in Calls /\ deletions[x] \in Deletion /\ deletions[x].user = user
          /\ deletions[x].step = Oldest.step
          /\ Matched([deletions EXCEPT ![x] = None], [queue EXCEPT ![user] = Rest])
      BY <2>1, <3>1, OldestWrite, AnsweredMatched
    <3>3. g \in Deletion /\ g.user = user /\ g.step = deletions[x].step
      BY <3>2 DEF Deletion
    <3>4. g.step \in DOMAIN Collections
      BY <3>1, <3>2, <3>3, FiveSteps DEF Deletion
    <3> HIDE DEF x, g
    <3> QED
      BY <1>0, <3>1, <3>2, <3>3, <3>4, ContinueMatched
  <2>2. CASE ~Awaited(Oldest)
    BY <1>9, <2>2, AnsweredMatched DEF DocumentDeleted
  <2> QED
    BY <2>1, <2>2
<1>10. ASSUME DeletionRefused PROVE Matched(deletions', queue')
  BY <1>10, AnsweredMatched DEF DeletionRefused
<1>11. ASSUME UserDocumentAnswered PROVE Matched(deletions', queue')
  <2>1. CASE Awaited(Oldest)
    <3> DEFINE x == Oldest.call
               g == [deletions[x] EXCEPT !.step = AuthAccount]
               E == [deletions EXCEPT ![x] = None]
    <3>1. /\ user # NoUser /\ queue[user] # <<>> /\ Oldest.op = "delete"
          /\ queue' = [queue EXCEPT ![user] = Rest]
          /\ deletions' = [deletions EXCEPT ![x].step = AuthAccount]
      BY <1>11, <2>1 DEF UserDocumentAnswered
    <3>2. /\ x \in Calls /\ deletions[x] \in Deletion
          /\ Matched(E, queue')
      BY <2>1, <3>1, OldestWrite, AnsweredMatched
    <3>3. g \in Deletion /\ ~Waiting(g)
      BY <3>2, FiveSteps DEF Deletion, Waiting
    <3>4. deletions' = [E EXCEPT ![x] = g] /\ ~Waiting(E[x])
      BY <1>0, <3>1, <3>2 DEF Waiting
    <3> HIDE DEF x, g, E
    <3> QED
      BY <3>2, <3>3, <3>4, CallReplaced
  <2>2. CASE ~Awaited(Oldest)
    BY <1>11, <2>2, AnsweredMatched DEF UserDocumentAnswered
  <2> QED
    BY <2>1, <2>2
<1>12. ASSUME NEW u \in Users, NEW i \in DOMAIN Collections, NEW d \in DocumentsOf(i),
              DocumentWritten(u, i, d)
       PROVE  Matched(deletions', queue')
  <2>1. WrittenSince(u, i, d) /\ queue' = queue /\ d \in Documents \cup {"default"}
    BY <1>12 DEF DocumentWritten, DocumentsOf
  <2> QED
    BY <2>1, WrittenSinceMatched
<1>13. ASSUME Relaunch PROVE Matched(deletions', queue')
  BY <1>13, ProcessEnds DEF Relaunch
<1>14. CASE UNCHANGED vars
  BY <1>1, <1>14 DEF vars
<1>15. CASE \E u \in Users : SignIn(u)
  BY <1>1, <1>15 DEF SignIn, firestore
<1>16. CASE SignOut
  BY <1>1, <1>16 DEF SignOut, firestore
<1>17. CASE \E s \in SyncIds : SettingsRead(s) \/ LanguageSynced(s) \/ SyncFails(s)
  BY <1>1, <1>17 DEF SettingsRead, LanguageSynced, SyncFails, firestore
<1> QED
  BY <1>2, <1>3, <1>4, <1>5, <1>6, <1>7, <1>8, <1>9, <1>10, <1>11, <1>12, <1>13, <1>14,
     <1>15, <1>16, <1>17 DEF Next, QueryStep, AuthStep, QueueStep

LEMMA TypeStep == Base /\ [Next]_vars => AccountTypeOK'
<1> SUFFICES ASSUME AccountTypeOK, CallsMatched, [Next]_vars PROVE AccountTypeOK'
  BY DEF Base
<1> DEFINE Docs == [Users -> [DOMAIN Collections -> SUBSET (Documents \cup {"default"})]]
<1>1. /\ deletions' \in [Calls -> Deletion \cup {None}]
      /\ queue' \in [Users -> Seq(LanguageWrite \cup DocumentDelete)]
  BY MatchedStep, MatchedTypes DEF Base, CallsMatched
<1>2. user # NoUser => user \in Users /\ user \in accounts
  BY AccountAssumption DEF AccountTypeOK
<1>3. /\ accounts' \subseteq Users /\ user' \in accounts' \cup {NoUser}
  BY <1>2 DEF AccountTypeOK, Next, vars, SignIn, SignOut, Relaunch, ChangeLanguage, SettingsRead,
         LanguageSynced, SyncFails, DeleteAccount, QueryStep, CollectionRead, QueryAnswered,
         QueryFails, AuthStep, AuthDeleted, AuthRefused, QueueStep, LanguageStored,
         LanguageRefused, DocumentDeleted, DeletionRefused, UserDocumentAnswered,
         DocumentWritten
<1>4. documents' \in Docs
  <2>1. ASSUME NEW u \in Users, NEW i \in DOMAIN Collections,
               NEW D \in SUBSET (Documents \cup {"default"}),
               documents' = [documents EXCEPT ![u][i] = D]
        PROVE  documents' \in Docs
    <3> DEFINE c == [documents[u] EXCEPT ![i] = D]
    <3>1. documents \in Docs /\ documents[u] \in [DOMAIN Collections -> SUBSET (Documents \cup {"default"})]
      BY DEF AccountTypeOK
    <3>2. c \in [DOMAIN Collections -> SUBSET (Documents \cup {"default"})]
      BY <3>1
    <3>3. documents' = [documents EXCEPT ![u] = c]
      BY <2>1
    <3> HIDE DEF c
    <3> QED
      BY <3>1, <3>2, <3>3
  <2>2. CASE LanguageStored
    <3>1. /\ user \in Users /\ 3 \in DOMAIN Collections
          /\ {"default"} \in SUBSET (Documents \cup {"default"})
          /\ documents' = [documents EXCEPT ![user][3] = {"default"}]
      BY <1>2, <2>2, FiveSteps DEF LanguageStored
    <3> QED
      BY <2>1, <3>1
  <2>3. CASE DocumentDeleted
    <3>1. /\ user # NoUser /\ queue[user] # <<>> /\ Oldest.op = "delete"
          /\ Oldest.step < UserDocument
          /\ documents' = [documents EXCEPT ![user][Oldest.step] = @ \ {Oldest.document}]
      BY <2>3 DEF DocumentDeleted
    <3>2. Oldest.step \in DOMAIN Collections
      BY <3>1, OldestWrite, FiveSteps DEF Queued, LanguageWrite, DocumentDelete
    <3>3. documents[user][Oldest.step] \ {Oldest.document} \in SUBSET (Documents \cup {"default"})
      BY <1>2, <3>1, <3>2 DEF AccountTypeOK
    <3> QED
      BY <1>2, <2>1, <3>1, <3>2, <3>3
  <2>4. ASSUME NEW u \in Users, NEW i \in DOMAIN Collections, NEW d \in DocumentsOf(i),
               DocumentWritten(u, i, d)
        PROVE  documents' \in Docs
    <3>1. documents' = [documents EXCEPT ![u][i] = documents[u][i] \cup {d}]
      BY <2>4 DEF DocumentWritten
    <3>2. documents[u][i] \cup {d} \in SUBSET (Documents \cup {"default"})
      BY DEF AccountTypeOK, DocumentsOf
    <3> QED
      BY <2>1, <3>1, <3>2
  <2>5. documents \in Docs
    BY DEF AccountTypeOK
  <2> HIDE DEF Docs
  <2>6. UNCHANGED documents => documents' \in Docs
    BY <2>5
  <2> QED
    BY <2>2, <2>3, <2>4, <2>6 DEF Next, vars, firestore, SignIn, SignOut, Relaunch,
       ChangeLanguage, SettingsRead, LanguageSynced, SyncFails, DeleteAccount, QueryStep,
       CollectionRead, QueryAnswered, QueryFails, AuthStep, AuthDeleted, AuthRefused, QueueStep,
       LanguageRefused, DeletionRefused, UserDocumentAnswered
<1>5. language' \in Languages
  <2>1. \A s \in SyncIds : LanguageSynced(s) => language' \in Languages
    BY DEF LanguageSynced, AccountTypeOK, Sync
  <2> QED
    BY <2>1 DEF AccountTypeOK, Next, vars, SignIn, SignOut, Relaunch, ChangeLanguage, SettingsRead,
         SyncFails, DeleteAccount, QueryStep, CollectionRead, QueryAnswered,
         QueryFails, AuthStep, AuthDeleted, AuthRefused, QueueStep, LanguageStored,
         LanguageRefused, DocumentDeleted, DeletionRefused, UserDocumentAnswered,
         DocumentWritten
<1>6. settings' \in [Users -> Languages]
  <2>1. CASE LanguageStored
    <3>1. user \in Users /\ Oldest.language \in Languages
      BY <2>1, OldestWrite DEF LanguageStored, Queued, LanguageWrite, DocumentDelete
    <3> QED
      BY <2>1, <3>1 DEF LanguageStored, AccountTypeOK
  <2>2. CASE DocumentDeleted
    BY <1>2, <2>2, AccountAssumption DEF DocumentDeleted, AccountTypeOK
  <2>3. UNCHANGED settings => settings' \in [Users -> Languages]
    BY DEF AccountTypeOK
  <2> QED
    BY <2>1, <2>2, <2>3 DEF Next, vars, firestore, SignIn, SignOut, Relaunch,
       ChangeLanguage, SettingsRead, LanguageSynced, SyncFails, DeleteAccount, QueryStep,
       CollectionRead, QueryAnswered, QueryFails, AuthStep, AuthDeleted, AuthRefused, QueueStep,
       LanguageRefused, DeletionRefused, UserDocumentAnswered, DocumentWritten
<1>7. syncs' \in [SyncIds -> Sync \cup {None}]
  <2>1. ASSUME NEW u \in Users
        PROVE  [user |-> u, answer |-> DefaultLanguage, answered |-> FALSE] \in Sync
    BY AccountAssumption DEF Sync
  <2>2. ASSUME NEW u \in Users, SignIn(u) PROVE syncs' \in [SyncIds -> Sync \cup {None}]
    BY <2>1, <2>2 DEF SignIn, SyncWithFirestore, AccountTypeOK
  <2>3. CASE Relaunch
    BY <1>2, <2>1, <2>3 DEF Relaunch
  <2>4. ASSUME NEW s \in SyncIds, SettingsRead(s) PROVE syncs' \in [SyncIds -> Sync \cup {None}]
    <3>1. /\ syncs[s] \in Sync /\ user \in Users
          /\ syncs' = [syncs EXCEPT ![s].answer = UserLanguage(user), ![s].answered = TRUE]
      BY <1>2, <2>4, AccountAssumption DEF SettingsRead, AccountTypeOK, Sync
    <3> DEFINE l == UserLanguage(user)
               t == [syncs[s] EXCEPT !.answer = l, !.answered = TRUE]
    <3>2. l \in Languages
      BY <3>1, LanguageType
    <3> HIDE DEF l
    <3>3. t \in Sync
      BY <3>1, <3>2 DEF Sync
    <3>4. syncs' = [syncs EXCEPT ![s] = t]
      BY <3>1 DEF AccountTypeOK, l
    <3> QED
      BY <3>3, <3>4 DEF AccountTypeOK
  <2>5. ASSUME NEW s \in SyncIds, LanguageSynced(s) \/ SyncFails(s)
        PROVE  syncs' \in [SyncIds -> Sync \cup {None}]
    BY <2>5 DEF LanguageSynced, SyncFails, AccountTypeOK
  <2>6. UNCHANGED syncs => syncs' \in [SyncIds -> Sync \cup {None}]
    BY DEF AccountTypeOK
  <2> QED
    BY <2>2, <2>3, <2>4, <2>5, <2>6 DEF Next, vars, SignOut, ChangeLanguage, DeleteAccount,
       QueryStep, CollectionRead, QueryAnswered, QueryFails, AuthStep, AuthDeleted, AuthRefused,
       QueueStep, LanguageStored, LanguageRefused, DocumentDeleted, DeletionRefused,
       UserDocumentAnswered, DocumentWritten
<1>8. synced' \in BOOLEAN
  <2>1. \A x, g, rest : Continue(x, g, rest) => synced' \in BOOLEAN
    BY DEF Continue, AccountTypeOK
  <2> QED
    BY <2>1 DEF AccountTypeOK, Next, vars, SignIn, SignOut, Relaunch, ChangeLanguage, SettingsRead,
         LanguageSynced, SyncFails, DeleteAccount, QueryStep, CollectionRead, QueryAnswered,
         QueryFails, AuthStep, AuthDeleted, AuthRefused, QueueStep, LanguageStored,
         LanguageRefused, DocumentDeleted, DeletionRefused, UserDocumentAnswered,
         DocumentWritten
<1>9. /\ choices' \in 0..MaxChoices /\ writes' \in 0..MaxWrites /\ signIns' \in 0..MaxSignIns
      /\ calls' \in 0..MaxCalls
  <2>1. /\ choices' = choices \/ (choices < MaxChoices /\ choices' = choices + 1)
        /\ writes' = writes \/ (writes < MaxWrites /\ writes' = writes + 1)
        /\ signIns' = signIns \/ (signIns < MaxSignIns /\ signIns' = signIns + 1)
        /\ calls' = calls \/ (calls < MaxCalls /\ calls' = calls + 1)
    BY DEF Next, vars, bounds, SignIn, SignOut, Relaunch,
     ChangeLanguage, SettingsRead, LanguageSynced, SyncFails, DeleteAccount, QueryStep,
     CollectionRead, QueryAnswered, QueryFails, AuthStep, AuthDeleted, AuthRefused, QueueStep,
     LanguageStored, LanguageRefused, DocumentDeleted, DeletionRefused, UserDocumentAnswered,
     DocumentWritten
  <2>2. \A n \in Nat : \A m \in 0..n : m < n => m + 1 \in 0..n
    OBVIOUS
  <2> QED
    BY <2>1, <2>2, AccountAssumption DEF AccountTypeOK
<1> QED
  BY <1>1, <1>3, <1>4, <1>5, <1>6, <1>7, <1>8, <1>9 DEF AccountTypeOK

LEMMA BaseAlways == Spec => []Base
<1>1. Base /\ [Next]_vars => Base'
  BY MatchedStep, TypeStep DEF Base
<1> QED
  BY <1>1, InitBase, PTL DEF Spec

\* Every variable of the account and the language keeps its type.
THEOREM AccountTyping == Spec => []AccountTypeOK
  BY BaseAlways, PTL DEF Base

\* A call of deleteAccount that awaits a deletion has it in the queue, through
\* refusals, other calls and restarts.
THEOREM DeletionAwaitedAlways == Spec => []DeletionAwaited
<1>1. Base => DeletionAwaited
  <2> SUFFICES ASSUME Base, NEW x \in Calls, Awaits(x)
               PROVE  \E k \in DOMAIN queue[deletions[x].user] :
                          /\ queue[deletions[x].user][k].op = "delete"
                          /\ queue[deletions[x].user][k].call = x
                          /\ queue[deletions[x].user][k].step = deletions[x].step
    BY DEF DeletionAwaited
  <2>1. Waiting(deletions[x])
    BY DEF Awaits, Waiting
  <2>2. deletions[x].user \in Users
    BY <2>1 DEF Base, CallsMatched, Matched, Waiting, Deletion
  <2>3. PICK k \in DOMAIN queue[deletions[x].user] :
            ForCall(queue[deletions[x].user][k], x)
    BY <2>1 DEF Base, CallsMatched, Matched
  <2> QED
    BY <2>2, <2>3 DEF Base, CallsMatched, Matched, ForCall
<1> QED
  BY <1>1, BaseAlways, PTL

-----------------------------------------------------------------------------
(* What a call has found is gone before the account *)

\* Of a call g and the documents of its user in collection i: what it has
\* emptied holds only later documents, what it empties also those left to do.
FoundIn(g, docs, i) ==
    /\ g.step > i => docs \subseteq g.since[i]
    /\ g.step = i /\ g.phase # "asking" => docs \subseteq g.since[i] \cup g.todo

Found ==
    \A x \in Calls : deletions[x] # None =>
        \A i \in DOMAIN Collections : FoundIn(deletions[x], documents[deletions[x].user][i], i)

\* Nothing but the calls in C changes, or the documents only shrink.
LEMMA OthersFound ==
    ASSUME Found, NEW y \in Calls, deletions[y] # None, NEW D,
           \A i \in DOMAIN Collections : D[i] \subseteq documents[deletions[y].user][i],
           NEW i \in DOMAIN Collections
    PROVE  FoundIn(deletions[y], D[i], i)
  BY DEF Found, FoundIn

\* A call has emptied a collection when nothing it found is left to do.
LEMMA ContinueFound ==
    ASSUME NEW x \in Calls, NEW g \in Deletion, g.step \in DOMAIN Collections, g.phase # "asking",
           deletions \in [Calls -> Deletion \cup {None}], NEW rest, Continue(x, g, rest),
           NEW docs, \A i \in DOMAIN Collections : FoundIn(g, docs[i], i)
    PROVE  /\ \A y \in Calls : y # x => deletions'[y] = deletions[y]
           /\ deletions'[x].user = g.user
           /\ \A i \in DOMAIN Collections : FoundIn(deletions'[x], docs[i], i)
<1>1. g.step \in 1..3 /\ DOMAIN Collections = 1..3
  BY FiveSteps
<1>2. CASE g.todo # {}
  <2> DEFINE h == [g EXCEPT !.phase = "deleting"]
  <2>1. deletions' = [deletions EXCEPT ![x] = h]
    BY <1>2 DEF Continue
  <2>2. /\ h.user = g.user /\ h.step = g.step /\ h.phase = "deleting"
        /\ h.since = g.since /\ h.todo = g.todo
    BY DEF Deletion
  <2> HIDE DEF h
  <2>3. deletions'[x] = h
    BY <2>1
  <2> QED
    BY <2>1, <2>2, <2>3 DEF FoundIn
<1>3. CASE g.todo = {}
  <2>1. deletions' = [deletions EXCEPT ![x] = NextStep(g)]
    BY <1>3 DEF Continue
  <2>2. /\ NextStep(g).user = g.user /\ NextStep(g).step = g.step + 1
        /\ NextStep(g).since = g.since
        /\ NextStep(g).phase = IF g.step < 3 THEN "asking" ELSE "deleting"
    BY NextStepType
  <2>3. deletions'[x] = NextStep(g)
    BY <2>1
  <2>4. ASSUME NEW i \in DOMAIN Collections PROVE FoundIn(NextStep(g), docs[i], i)
    BY <1>1, <1>3, <2>2, <2>4 DEF FoundIn
  <2> QED
    BY <2>1, <2>2, <2>3, <2>4
<1> QED
  BY <1>2, <1>3

\* A document is written and every call that has asked for its collection
\* notes it.
LEMMA WrittenFound ==
    ASSUME Base, Found, NEW u \in Users, NEW i \in DOMAIN Collections,
           NEW d \in Documents \cup {"default"}, WrittenSince(u, i, d),
           NEW D, D \subseteq documents[u][i] \cup {d},
           documents' = [documents EXCEPT ![u][i] = D]
    PROVE  Found'
<1>1. /\ deletions \in [Calls -> Deletion \cup {None}]
      /\ documents \in [Users -> [DOMAIN Collections -> SUBSET (Documents \cup {"default"})]]
  BY DEF Base, AccountTypeOK
<1>2. /\ documents'[u][i] = D
      /\ \A v \in Users, j \in DOMAIN Collections :
             v # u \/ j # i => documents'[v][j] = documents[v][j]
  BY <1>1
<1>3. CallsMatched
  BY DEF Base
<1> SUFFICES ASSUME NEW x \in Calls, deletions'[x] # None, NEW j \in DOMAIN Collections
             PROVE  FoundIn(deletions'[x], documents'[deletions'[x].user][j], j)
  BY DEF Found
<1> DEFINE g == deletions[x]
           h == Noted(g, i, d)
<1>4. deletions'[x] = IF g # None /\ g.user = u /\ Asked(g, i) THEN h ELSE g
  BY <1>3, WrittenSinceType
<1>5. g # None
  BY <1>4, NoneAssumption
<1>6. g \in Deletion /\ FoundIn(g, documents[g.user][j], j)
  BY <1>1, <1>5 DEF Found
<1>7. /\ h.user = g.user /\ h.step = g.step /\ h.phase = g.phase /\ h.todo = g.todo
      /\ h.since = [g.since EXCEPT ![i] = @ \cup {d}]
  BY <1>6, NotedType
<1>8. /\ g.since \in [DOMAIN Collections -> SUBSET (Documents \cup {"default"})]
      /\ g.user \in Users /\ g.step \in 1..5 /\ i \in 1..3 /\ j \in 1..3
  BY <1>6, FiveSteps DEF Deletion
<1> HIDE DEF g, h
<1>9. CASE g.user = u /\ Asked(g, i)
  <2>1. deletions'[x] = h
    BY <1>4, <1>5, <1>9
  <2>2. CASE j = i
    <3>1. h.since[j] = g.since[j] \cup {d}
      BY <1>7, <1>8, <2>2
    <3> QED
      BY <1>2, <1>6, <1>7, <1>9, <2>1, <2>2, <3>1 DEF FoundIn
  <2>3. CASE j # i
    <3>1. h.since[j] = g.since[j]
      BY <1>7, <1>8, <2>3
    <3> QED
      BY <1>2, <1>6, <1>7, <1>8, <2>1, <2>3, <3>1 DEF FoundIn
  <2> QED
    BY <2>2, <2>3
<1>10. CASE ~(g.user = u /\ Asked(g, i))
  <2>1. deletions'[x] = g
    BY <1>4, <1>10
  <2>2. CASE g.user = u /\ j = i
    <3>1. ~Asked(g, i)
      BY <1>10, <2>2
    <3> QED
      BY <1>8, <2>1, <2>2, <3>1 DEF FoundIn, Asked
  <2>3. CASE g.user # u \/ j # i
    BY <1>2, <1>6, <1>8, <2>1, <2>3
  <2> QED
    BY <2>2, <2>3
<1> QED
  BY <1>9, <1>10

LEMMA FoundStep ==
    ASSUME "cache" \notin Enabled, Base, Found, [Next]_vars
    PROVE  Found'
<1>0. /\ deletions \in [Calls -> Deletion \cup {None}]
      /\ documents \in [Users -> [DOMAIN Collections -> SUBSET (Documents \cup {"default"})]]
      /\ user # NoUser => user \in Users
      /\ AccountTypeOK /\ CallsMatched
  BY AccountAssumption DEF Base, AccountTypeOK
<1>1. ASSUME UNCHANGED <<deletions, documents>> PROVE Found'
  BY <1>1 DEF Found
<1>2. ASSUME NEW x \in Calls, deletions' = [deletions EXCEPT ![x] = None], UNCHANGED documents
      PROVE  Found'
  BY <1>0, <1>2 DEF Found
<1>3. ASSUME NEW x \in Calls, DeleteAccount(x) PROVE Found'
  <2> DEFINE g == [user |-> user, step |-> 1, phase |-> "asking", todo |-> {},
                   since |-> [i \in DOMAIN Collections |-> {}]]
  <2>1. /\ deletions' = [deletions EXCEPT ![x] = g] /\ documents' = documents
    BY <1>3 DEF DeleteAccount, firestore
  <2>2. \A docs : \A i \in DOMAIN Collections : FoundIn(g, docs, i)
    BY FiveSteps DEF FoundIn
  <2> HIDE DEF g
  <2> QED
    BY <1>0, <2>1, <2>2 DEF Found
<1>4. ASSUME NEW x \in Calls, CollectionRead(x) PROVE Found'
  <2>1. PICK i \in DOMAIN Collections :
            /\ At(x, i, "asking") /\ user = deletions[x].user
            /\ deletions' = [deletions EXCEPT ![x].phase = "answered",
                                              ![x].todo = documents[user][i]]
    BY <1>4 DEF CollectionRead
  <2> DEFINE found == documents[user][i]
             g == [deletions[x] EXCEPT !.phase = "answered", !.todo = found]
  <2>2. deletions[x] \in Deletion /\ deletions[x] # None /\ deletions[x].step = i
    BY <1>0, <2>1 DEF At
  <2>3. /\ g.user = deletions[x].user /\ g.step = i /\ g.phase = "answered"
        /\ g.todo = found /\ g.since = deletions[x].since
    BY <2>2 DEF Deletion
  <2>4. deletions' = [deletions EXCEPT ![x] = g] /\ documents' = documents
    BY <1>0, <1>4, <2>1 DEF CollectionRead, firestore
  <2> HIDE DEF g
  <2>5. ASSUME NEW j \in DOMAIN Collections PROVE FoundIn(g, documents[g.user][j], j)
    <3>1. FoundIn(deletions[x], documents[g.user][j], j)
      BY <2>2, <2>3 DEF Found
    <3> QED
      BY <2>1, <2>2, <2>3, <3>1 DEF FoundIn
  <2> QED
    BY <1>0, <2>4, <2>5 DEF Found
<1>5. ASSUME NEW x \in Calls, QueryAnswered(x) PROVE Found'
  <2> DEFINE g == deletions[x]
             docs == documents[g.user]
  <2>1. g \in Deletion /\ g # None /\ g.step \in DOMAIN Collections /\ g.phase # "asking"
    BY <1>0, <1>5 DEF QueryAnswered, At
  <2>2. Continue(x, g, queue[g.user]) /\ documents' = documents
    BY <1>5 DEF QueryAnswered
  <2>3. \A i \in DOMAIN Collections : FoundIn(g, docs[i], i)
    BY <2>1 DEF Found
  <2> HIDE DEF docs
  <2>4. /\ \A y \in Calls : y # x => deletions'[y] = deletions[y]
        /\ deletions'[x].user = g.user
        /\ \A i \in DOMAIN Collections : FoundIn(deletions'[x], docs[i], i)
    BY <1>0, <2>1, <2>2, <2>3, ContinueFound
  <2> QED
    BY <2>2, <2>4 DEF Found, docs
<1>6. ASSUME LanguageStored PROVE Found'
  <2>1. /\ user \in Users /\ 3 \in DOMAIN Collections
        /\ documents' = [documents EXCEPT ![user][3] = {"default"}]
        /\ WrittenSince(user, 3, "default")
    BY <1>0, <1>6, FiveSteps DEF LanguageStored
  <2> QED
    BY <2>1, WrittenFound
<1>7. ASSUME NEW u \in Users, NEW i \in DOMAIN Collections, NEW d \in DocumentsOf(i),
             DocumentWritten(u, i, d)
      PROVE  Found'
  <2>1. /\ documents' = [documents EXCEPT ![u][i] = documents[u][i] \cup {d}]
        /\ WrittenSince(u, i, d) /\ d \in Documents \cup {"default"}
    BY <1>7 DEF DocumentWritten, DocumentsOf
  <2> QED
    BY <2>1, WrittenFound
<1>8. ASSUME DocumentDeleted PROVE Found'
  <2> DEFINE gone == [documents[user] EXCEPT ![Oldest.step] = @ \ {Oldest.document}]
  <2>1. /\ user # NoUser /\ queue[user] # <<>> /\ Oldest.op = "delete"
        /\ Oldest.step < UserDocument
        /\ documents' = [documents EXCEPT ![user][Oldest.step] = @ \ {Oldest.document}]
    BY <1>8 DEF DocumentDeleted
  <2>2. Oldest.step \in DOMAIN Collections /\ user \in Users
    BY <2>1, <1>0, OldestWrite, FiveSteps DEF Queued, LanguageWrite, DocumentDelete
  <2>3. /\ documents'[user] = gone
        /\ \A v \in Users : v # user => documents'[v] = documents[v]
    BY <1>0, <2>1, <2>2
  <2>4. /\ gone[Oldest.step] = documents[user][Oldest.step] \ {Oldest.document}
        /\ \A i \in DOMAIN Collections : i # Oldest.step => gone[i] = documents[user][i]
    BY <1>0, <2>2
  <2> HIDE DEF gone
  <2>5. ASSUME NEW y \in Calls, deletions[y] # None, deletions'[y] = deletions[y]
        PROVE  \A i \in DOMAIN Collections :
                   FoundIn(deletions'[y], documents'[deletions'[y].user][i], i)
    <3>1. deletions[y].user \in Users
      BY <1>0, <2>5 DEF Deletion
    <3>2. \A i \in DOMAIN Collections :
              documents'[deletions[y].user][i] \subseteq documents[deletions[y].user][i]
      BY <2>3, <2>4, <3>1
    <3> QED
      BY <2>5, <3>2, OthersFound
  <2>6. CASE Awaited(Oldest)
    <3> DEFINE x == Oldest.call
               g == [deletions[x] EXCEPT !.todo = @ \ {Oldest.document}]
    <3>1. Continue(x, g, Rest)
      BY <1>8, <2>6 DEF DocumentDeleted
    <3>2. /\ x \in Calls /\ deletions[x] \in Deletion /\ deletions[x].user = user
          /\ deletions[x].step = Oldest.step /\ Waiting(deletions[x])
      BY <1>0, <2>1, <2>6, OldestWrite
    <3>3. /\ g \in Deletion /\ g.user = user /\ g.step = Oldest.step /\ g.phase = "deleting"
          /\ g.since = deletions[x].since /\ g.todo = deletions[x].todo \ {Oldest.document}
      BY <3>2 DEF Deletion, Waiting
    <3>4. ASSUME NEW i \in DOMAIN Collections PROVE FoundIn(g, gone[i], i)
      <4>1. FoundIn(deletions[x], documents[user][i], i)
        BY <3>2 DEF Found, Waiting
      <4> QED
        BY <2>2, <2>4, <3>2, <3>3, <4>1, FiveSteps DEF FoundIn, Waiting
    <3> HIDE DEF x, g
    <3>5. /\ \A y \in Calls : y # x => deletions'[y] = deletions[y]
          /\ deletions'[x].user = user
          /\ \A i \in DOMAIN Collections : FoundIn(deletions'[x], gone[i], i)
      BY <1>0, <2>2, <3>1, <3>2, <3>3, <3>4, ContinueFound
    <3>6. ASSUME NEW y \in Calls, deletions'[y] # None, NEW i \in DOMAIN Collections
          PROVE  FoundIn(deletions'[y], documents'[deletions'[y].user][i], i)
      <4>1. CASE y = x
        BY <2>3, <3>5, <4>1
      <4>2. CASE y # x
        <5>1. deletions'[y] = deletions[y]
          BY <3>5, <4>2
        <5> QED
          BY <2>5, <3>6, <5>1
      <4> QED
        BY <4>1, <4>2
    <3> QED
      BY <3>6 DEF Found
  <2>7. CASE ~Awaited(Oldest)
    <3>1. deletions' = deletions
      BY <1>8, <2>7 DEF DocumentDeleted
    <3> QED
      BY <2>5, <3>1 DEF Found
  <2> QED
    BY <2>6, <2>7
<1>9. ASSUME DeletionRefused PROVE Found'
  <2>1. CASE Awaited(Oldest)
    <3>1. Oldest.call \in Calls
      BY <1>0, <1>9, <2>1, OldestWrite DEF DeletionRefused
    <3> QED
      BY <1>2, <1>9, <2>1, <3>1 DEF DeletionRefused
  <2>2. CASE ~Awaited(Oldest)
    BY <1>1, <1>9, <2>2 DEF DeletionRefused
  <2> QED
    BY <2>1, <2>2
<1>10. ASSUME UserDocumentAnswered PROVE Found'
  <2>1. CASE Awaited(Oldest)
    <3> DEFINE x == Oldest.call
               g == [deletions[x] EXCEPT !.step = AuthAccount]
    <3>1. /\ x \in Calls /\ deletions[x] \in Deletion /\ deletions[x].step = 4
          /\ deletions[x] # None
      BY <1>0, <1>10, <2>1, OldestWrite, FiveSteps DEF UserDocumentAnswered, Waiting
    <3>2. /\ g.user = deletions[x].user /\ g.step = 5 /\ g.since = deletions[x].since
      BY <3>1, FiveSteps DEF Deletion
    <3>3. deletions' = [deletions EXCEPT ![x] = g] /\ documents' = documents
      BY <1>0, <1>10, <2>1, <3>1 DEF UserDocumentAnswered
    <3>4. ASSUME NEW i \in DOMAIN Collections PROVE FoundIn(g, documents[g.user][i], i)
      <4>1. FoundIn(deletions[x], documents[deletions[x].user][i], i)
        BY <3>1 DEF Found
      <4> QED
        BY <3>1, <3>2, <4>1, FiveSteps DEF FoundIn
    <3> HIDE DEF x, g
    <3> QED
      BY <1>0, <3>1, <3>3, <3>4 DEF Found
  <2>2. CASE ~Awaited(Oldest)
    BY <1>1, <1>10, <2>2 DEF UserDocumentAnswered
  <2> QED
    BY <2>1, <2>2
<1>11. ASSUME NEW x \in Calls, QueryFails(x) \/ AuthDeleted(x) \/ AuthRefused(x) PROVE Found'
  BY <1>2, <1>11 DEF QueryFails, AuthDeleted, AuthRefused, firestore
<1>12. CASE Relaunch
  BY <1>12 DEF Relaunch, Found
<1>13. CASE UNCHANGED vars
  BY <1>1, <1>13 DEF vars
<1>14. CASE \E u \in Users : SignIn(u)
  BY <1>1, <1>14 DEF SignIn, firestore
<1>15. CASE SignOut \/ LanguageRefused \/ \E l \in Languages : ChangeLanguage(l)
  BY <1>1, <1>15 DEF SignOut, LanguageRefused, ChangeLanguage, firestore
<1>16. CASE \E s \in SyncIds : SettingsRead(s) \/ LanguageSynced(s) \/ SyncFails(s)
  BY <1>1, <1>16 DEF SettingsRead, LanguageSynced, SyncFails, firestore
<1> QED
  BY <1>3, <1>4, <1>5, <1>6, <1>7, <1>8, <1>9, <1>10, <1>11, <1>12, <1>13, <1>14, <1>15,
     <1>16 DEF Next, QueryStep, AuthStep, QueueStep

\* An account goes only after everything its call found has gone, for any
\* number of calls, users and documents, if queries are answered by the server.
THEOREM DataGoneFirstAlways ==
    ASSUME "cache" \notin Enabled
    PROVE  Spec => DataGoneFirst
<1> DEFINE Goes == \A u \in accounts \ accounts' : \E x \in Calls :
              /\ deletions[x] # None /\ deletions[x].user = u
              /\ \A i \in DOMAIN Collections : documents[u][i] \subseteq deletions[x].since[i]
<1>1. Init => Found
  BY DEF Init, Found
<1>2. Base /\ Found /\ [Next]_vars => Found'
  BY FoundStep
<1>3. Base /\ Found /\ [Next]_vars => [Goes]_vars
  <2> SUFFICES ASSUME Base, Found, Next, NEW u \in accounts, u \notin accounts'
               PROVE  \E x \in Calls :
                          /\ deletions[x] # None /\ deletions[x].user = u
                          /\ \A i \in DOMAIN Collections :
                                 documents[u][i] \subseteq deletions[x].since[i]
    OBVIOUS
  <2>1. PICK x \in Calls : AuthDeleted(x)
    BY DEF Next, SignIn, SignOut, Relaunch, ChangeLanguage, SettingsRead,
       LanguageSynced, SyncFails, DeleteAccount, QueryStep, CollectionRead, QueryAnswered,
       QueryFails, AuthStep, AuthRefused, QueueStep, LanguageStored,
       LanguageRefused, DocumentDeleted, DeletionRefused, UserDocumentAnswered,
       DocumentWritten
  <2>2. deletions[x] # None /\ deletions[x].user = u /\ deletions[x].step = 5
    BY <2>1, FiveSteps DEF AuthDeleted, At
  <2>3. ASSUME NEW i \in DOMAIN Collections
        PROVE  documents[u][i] \subseteq deletions[x].since[i]
    BY <2>2, FiveSteps DEF Found, FoundIn
  <2> QED
    BY <2>2, <2>3
<1> QED
  BY <1>1, <1>2, <1>3, BaseAlways, PTL DEF Spec, DataGoneFirst

-----------------------------------------------------------------------------
(* The language *)

\* A call that goes on touches the settings last only with a deletion that the
\* next synchronisation has to bring.
LEMMA ContinueLanguage ==
    ASSUME NEW x \in Calls, NEW g \in Deletion, g.step \in DOMAIN Collections, NEW rest,
           rest \in Seq(Queued), HasLast(rest), Continue(x, g, rest), synced',
           queue \in [Users -> Seq(Queued)]
    PROVE  /\ synced
           /\ \A l : LanguageOf(queue'[g.user], l) = LanguageOf(rest, l)
           /\ \A u \in Users : u # g.user => queue'[u] = queue[u]
<1> DEFINE Goal == /\ \A l : LanguageOf(queue'[g.user], l) = LanguageOf(rest, l)
                   /\ \A u \in Users : u # g.user => queue'[u] = queue[u]
<1>1. g.user \in Users /\ g.step \in 1..3
  BY FiveSteps DEF Deletion
<1>2. ASSUME NEW h \in Deletion, NEW d \in Documents \cup {"default", "none"}, h.step \in {1, 2, 4},
             queue' = [queue EXCEPT ![g.user] = Append(rest, Deleting(x, h, d))]
      PROVE  Goal
  <2>1. Deleting(x, h, d) \in Queued /\ ~OfSettings(Deleting(x, h, d))
    <3>1. h.step \in 1..4 /\ h.step # 3
      BY <1>2
    <3>2. Deleting(x, h, d) \in DocumentDelete
      BY <3>1, FiveSteps DEF Deleting, DocumentDelete
    <3>3. ~OfSettings(Deleting(x, h, d))
      BY <3>1, FiveSteps DEF Deleting, OfSettings
    <3> QED
      BY <3>2, <3>3 DEF Queued
  <2>2. \A l : LanguageOf(Append(rest, Deleting(x, h, d)), l) = LanguageOf(rest, l)
    BY <2>1, OtherQueued
  <2> QED
    BY <1>1, <1>2, <2>2
<1>3. CASE g.todo # {}
  <2>1. PICK d \in g.todo : /\ queue' = [queue EXCEPT ![g.user] = Append(rest, Deleting(x, g, d))]
                            /\ synced' = (synced /\ g.step # Len(Collections))
    BY <1>3 DEF Continue
  <2>2. synced /\ g.step # Len(Collections)
    BY <2>1, Zenon
  <2>3. g.step \in {1, 2, 4} /\ d \in Documents \cup {"default", "none"}
    BY <1>1, <2>2, FiveSteps DEF Deletion
  <2> QED
    BY <1>2, <2>1, <2>2, <2>3
<1>4. CASE g.todo = {}
  <2>1. /\ synced
        /\ queue' = [queue EXCEPT ![g.user] =
               IF NextStep(g).step = UserDocument
               THEN Append(rest, Deleting(x, NextStep(g), "none")) ELSE rest]
    BY <1>4 DEF Continue
  <2>2. CASE NextStep(g).step = UserDocument
    <3>1. queue' = [queue EXCEPT ![g.user] = Append(rest, Deleting(x, NextStep(g), "none"))]
      BY <2>1, <2>2
    <3>2. NextStep(g) \in Deletion /\ NextStep(g).step \in {1, 2, 4}
      BY <2>2, NextStepType, FiveSteps
    <3> QED
      BY <1>2, <2>1, <3>1, <3>2
  <2>3. CASE NextStep(g).step # UserDocument
    BY <1>1, <2>1, <2>3
  <2> QED
    BY <2>2, <2>3
<1> QED
  BY <1>3, <1>4

\* What the server has not answered decides what the settings will hold, so a
\* step that neither user nor queue nor settings take part in changes nothing.
LEMMA LanguageStep ==
    Base /\ LanguageFollowsSettings /\ [Next]_vars => LanguageFollowsSettings'
<1> SUFFICES ASSUME Base, LanguageFollowsSettings, [Next]_vars, synced', user' # NoUser
             PROVE  language' = LanguageOf(queue'[user'], settings'[user'])
  BY DEF LanguageFollowsSettings, UserLanguage
<1>0. /\ AccountTypeOK /\ CallsMatched
      /\ queue \in [Users -> Seq(Queued)] /\ settings \in [Users -> Languages]
      /\ deletions \in [Calls -> Deletion \cup {None}]
      /\ user # NoUser => user \in Users /\ HasLast(queue[user])
  BY AccountAssumption DEF Base, AccountTypeOK, CallsMatched, Matched
<1>1. ASSUME synced, user # NoUser
      PROVE  language = LanguageOf(queue[user], settings[user])
  BY <1>1 DEF LanguageFollowsSettings, UserLanguage
<1>2. ASSUME UNCHANGED <<user, language, settings, queue, synced>>
      PROVE  language' = LanguageOf(queue'[user'], settings'[user'])
  BY <1>1, <1>2
<1>3. ASSUME NEW l \in Languages, ChangeLanguage(l)
      PROVE  language' = LanguageOf(queue'[user'], settings'[user'])
  <2> DEFINE w == [op |-> "language", language |-> l]
  <2>1. user # NoUser /\ user' = user /\ language' = l /\ settings' = settings
    BY <1>3 DEF ChangeLanguage
  <2>2. w \in Queued /\ OfSettings(w) /\ LanguageAfter(w) = l
    BY DEF Queued, LanguageWrite, OfSettings, LanguageAfter
  <2>3. queue' = [queue EXCEPT ![user] = Append(queue[user], w)]
    BY <1>3, <2>1 DEF ChangeLanguage
  <2> HIDE DEF w
  <2>4. queue'[user] = Append(queue[user], w)
    BY <1>0, <2>1, <2>3
  <2>5. LanguageOf(queue'[user], settings[user]) = l
    BY <1>0, <2>1, <2>2, <2>4, LanguageQueued
  <2> QED
    BY <2>1, <2>5
<1>4. ASSUME NEW s \in SyncIds, LanguageSynced(s)
      PROVE  language' = LanguageOf(queue'[user'], settings'[user'])
  <2>1. /\ language' = syncs[s].answer /\ user' = user /\ queue' = queue
        /\ settings' = settings
        /\ synced' = (user = syncs[s].user /\ syncs[s].answer = UserLanguage(user))
    BY <1>4 DEF LanguageSynced, firestore
  <2>2. syncs[s].answer = UserLanguage(user)
    BY <2>1, Zenon
  <2> QED
    BY <2>1, <2>2 DEF UserLanguage
<1>5. ASSUME NEW x \in Calls, QueryAnswered(x)
      PROVE  language' = LanguageOf(queue'[user'], settings'[user'])
  <2> DEFINE g == deletions[x]
  <2>1. /\ g \in Deletion /\ g.step \in DOMAIN Collections /\ g.user \in Users
        /\ Continue(x, g, queue[g.user])
        /\ user' = user /\ language' = language /\ settings' = settings
    BY <1>0, <1>5 DEF QueryAnswered, At, Deletion
  <2> HIDE DEF g
  <2>2. queue[g.user] \in Seq(Queued) /\ HasLast(queue[g.user]) /\ user \in Users
    BY <1>0, <2>1 DEF CallsMatched, Matched
  <2>3. /\ synced
        /\ \A l : LanguageOf(queue'[g.user], l) = LanguageOf(queue[g.user], l)
        /\ \A u \in Users : u # g.user => queue'[u] = queue[u]
    BY <1>0, <2>1, <2>2, ContinueLanguage
  <2>4. LanguageOf(queue'[user], settings[user]) = LanguageOf(queue[user], settings[user])
    BY <2>2, <2>3
  <2> QED
    BY <1>1, <2>1, <2>3, <2>4
<1>6. ASSUME user # NoUser, queue[user] # <<>>
      PROVE  /\ Rest \in Seq(Queued) /\ HasLast(Rest) /\ Oldest \in Queued
             /\ LanguageOf(Rest, Applied(Oldest, settings[user]))
                = LanguageOf(queue[user], settings[user])
  BY <1>0, <1>6, WithoutHead, OldestApplied DEF Oldest, Rest
<1>7. ASSUME LanguageStored
      PROVE  language' = LanguageOf(queue'[user'], settings'[user'])
  <2>1. /\ user # NoUser /\ queue[user] # <<>> /\ synced
        /\ user' = user /\ language' = language /\ Oldest.op = "language"
        /\ settings' = [settings EXCEPT ![user] = Oldest.language]
        /\ queue' = [queue EXCEPT ![user] = Rest]
    BY <1>7 DEF LanguageStored
  <2>2. settings'[user] = Applied(Oldest, settings[user]) /\ queue'[user] = Rest
    BY <1>0, <2>1 DEF Applied, OfSettings, LanguageAfter
  <2> QED
    BY <1>1, <1>6, <2>1, <2>2
<1>8. ASSUME DocumentDeleted
      PROVE  language' = LanguageOf(queue'[user'], settings'[user'])
  <2>1. /\ user # NoUser /\ queue[user] # <<>> /\ user' = user /\ language' = language
        /\ Oldest.op = "delete" /\ Oldest.step < UserDocument
        /\ settings' = IF OfSettings(Oldest) THEN [settings EXCEPT ![user] = DefaultLanguage]
                       ELSE settings
    BY <1>8 DEF DocumentDeleted
  <2>2. settings'[user] = Applied(Oldest, settings[user])
    BY <1>0, <2>1 DEF Applied, OfSettings, LanguageAfter
  <2>3. CASE Awaited(Oldest)
    <3> DEFINE x == Oldest.call
               g == [deletions[x] EXCEPT !.todo = @ \ {Oldest.document}]
    <3>1. Continue(x, g, Rest)
      BY <1>8, <2>3 DEF DocumentDeleted
    <3>2. /\ x \in Calls /\ deletions[x] \in Deletion /\ deletions[x].user = user
          /\ deletions[x].step = Oldest.step
      BY <1>0, <2>1, <2>3, OldestWrite
    <3>3. g \in Deletion /\ g.user = user /\ g.step = Oldest.step
      BY <3>2 DEF Deletion
    <3>4. g.step \in DOMAIN Collections
      BY <2>1, <3>3, FiveSteps DEF Deletion
    <3> HIDE DEF x, g
    <3>5. /\ synced
          /\ \A l : LanguageOf(queue'[g.user], l) = LanguageOf(Rest, l)
      BY <1>0, <1>6, <2>1, <3>1, <3>2, <3>3, <3>4, ContinueLanguage
    <3> QED
      BY <1>1, <1>6, <2>1, <2>2, <3>3, <3>5
  <2>4. CASE ~Awaited(Oldest)
    <3>1. queue' = [queue EXCEPT ![user] = Rest] /\ synced
      BY <1>8, <2>4 DEF DocumentDeleted
    <3>2. queue'[user] = Rest
      BY <1>0, <2>1, <3>1
    <3> QED
      BY <1>1, <1>6, <2>1, <2>2, <3>1, <3>2
  <2> QED
    BY <2>3, <2>4
<1>9. ASSUME DeletionRefused \/ UserDocumentAnswered
      PROVE  language' = LanguageOf(queue'[user'], settings'[user'])
  <2>1. /\ user # NoUser /\ queue[user] # <<>> /\ user' = user /\ language' = language
        /\ settings' = settings /\ queue' = [queue EXCEPT ![user] = Rest]
    BY <1>9 DEF DeletionRefused, UserDocumentAnswered
  <2>2. synced /\ ~OfSettings(Oldest)
    <3>1. CASE DeletionRefused
      <4>1. synced' = (synced /\ ~OfSettings(Oldest))
        BY <3>1 DEF DeletionRefused
      <4> QED
        BY <4>1, Zenon
    <3>2. CASE UserDocumentAnswered
      BY <3>2, FiveSteps DEF UserDocumentAnswered, OfSettings
    <3> QED
      BY <1>9, <3>1, <3>2
  <2>3. queue'[user] = Rest /\ settings[user] = Applied(Oldest, settings[user])
    BY <1>0, <2>1, <2>2 DEF Applied
  <2> QED
    BY <1>1, <1>6, <2>1, <2>2, <2>3
<1>10. CASE \E u \in Users : SignIn(u)
  BY <1>10 DEF SignIn
<1>11. CASE SignOut \/ Relaunch \/ LanguageRefused \/ \E x \in Calls : AuthDeleted(x)
  BY <1>11 DEF SignOut, Relaunch, LanguageRefused, AuthDeleted
<1>12. CASE \E s \in SyncIds : SettingsRead(s) \/ SyncFails(s)
  BY <1>2, <1>12 DEF SettingsRead, SyncFails, firestore
<1>13. CASE \E x \in Calls : \/ DeleteAccount(x) \/ CollectionRead(x) \/ QueryFails(x)
                            \/ AuthRefused(x)
  BY <1>2, <1>13 DEF DeleteAccount, CollectionRead, QueryFails, AuthRefused, firestore
<1>14. CASE \E u \in Users, i \in DOMAIN Collections :
                \E d \in DocumentsOf(i) : DocumentWritten(u, i, d)
  BY <1>2, <1>14 DEF DocumentWritten
<1>15. CASE UNCHANGED vars
  BY <1>2, <1>15 DEF vars
<1> QED
  BY <1>3, <1>4, <1>5, <1>7, <1>8, <1>9, <1>10, <1>11, <1>12, <1>13, <1>14, <1>15
  DEF Next, QueryStep, AuthStep, QueueStep

\* In every state, the language shown after a synchronisation is the one that
\* the settings hold or will hold once the queue has been answered.
THEOREM LanguageFollowsSettingsAlways == Spec => []LanguageFollowsSettings
<1>1. Init => LanguageFollowsSettings
  BY DEF Init, LanguageFollowsSettings
<1>2. Base /\ LanguageFollowsSettings /\ [Next]_vars => LanguageFollowsSettings'
  BY LanguageStep
<1> QED
  BY <1>1, <1>2, BaseAlways, PTL DEF Spec
=============================================================================
