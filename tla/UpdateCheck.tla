----------------------------- MODULE UpdateCheck -----------------------------
(***************************************************************************)
(* UpdateService: which update the app offers two seconds after its start, *)
(* from its own version and build and from the document app_config.        *)
(***************************************************************************)
EXTENDS Integers, TLAPS

\* The three numbers compared; a part that is missing or no number is 0.
Version == [1..3 -> Int]

\* int.compareTo
CompareTo(x, y) == IF x < y THEN -1 ELSE IF x > y THEN 1 ELSE 0

CompareVersions(a, b) ==
    IF a[1] # b[1] THEN CompareTo(a[1], b[1])
    ELSE IF a[2] # b[2] THEN CompareTo(a[2], b[2])
    ELSE CompareTo(a[3], b[3])

Config == [latest : Version, build : Int, min : Version, force : BOOLEAN]

Offer(has, forced) == [hasUpdate |-> has, forceUpdate |-> forced]

\* Below the minimum the update is forced; otherwise a later version, or a later
\* build of the same version, is offered as the document says.
CheckForUpdate(current, build, c) ==
    IF CompareVersions(current, c.min) < 0 THEN Offer(TRUE, TRUE)
    ELSE IF \/ CompareVersions(c.latest, current) > 0
            \/ CompareVersions(c.latest, current) = 0 /\ c.build > build
         THEN Offer(TRUE, c.force)
    ELSE Offer(FALSE, FALSE)

-----------------------------------------------------------------------------

\* The comparison of two versions is a strict total order of their numbers: it
\* is 0 for equal versions only, it changes its sign with its arguments, and it
\* is transitive.
THEOREM VersionsAreOrdered ==
    ASSUME NEW a \in Version, NEW b \in Version, NEW c \in Version
    PROVE  /\ CompareVersions(a, b) = 0 <=> a = b
           /\ CompareVersions(a, b) = -CompareVersions(b, a)
           /\ CompareVersions(a, b) < 0 /\ CompareVersions(b, c) < 0
                 => CompareVersions(a, c) < 0
<1>1. \A i \in {1, 2, 3} : a[i] \in Int /\ b[i] \in Int /\ c[i] \in Int
  BY DEF Version
<1>2. CompareVersions(a, b) = 0 <=> a = b
  <2>1. CompareVersions(a, b) = 0 <=> \A i \in {1, 2, 3} : a[i] = b[i]
    BY <1>1 DEF CompareVersions, CompareTo
  <2>2. (\A i \in 1..3 : a[i] = b[i]) <=> a = b
    BY DEF Version
  <2>3. 1..3 = {1, 2, 3}
    OBVIOUS
  <2> QED
    BY <2>1, <2>2, <2>3
<1>3. CompareVersions(a, b) = -CompareVersions(b, a)
  BY <1>1 DEF CompareVersions, CompareTo
<1>4. CompareVersions(a, b) < 0 /\ CompareVersions(b, c) < 0 => CompareVersions(a, c) < 0
  BY <1>1 DEF CompareVersions, CompareTo
<1> QED
  BY <1>2, <1>3, <1>4

\* Whoever installs the latest version and build is offered nothing more, unless
\* the document asks for more than it has: then the dialog nobody can close
\* comes back at every start.
THEOREM OffersEnd ==
    ASSUME NEW c \in Config
    PROVE  CheckForUpdate(c.latest, c.build, c) =
               IF CompareVersions(c.latest, c.min) < 0 THEN Offer(TRUE, TRUE)
               ELSE Offer(FALSE, FALSE)
<1>1. c.latest \in Version /\ c.build \in Int
  BY DEF Config
<1>2. CompareVersions(c.latest, c.latest) = 0
  BY <1>1, VersionsAreOrdered
<1>3. ~(CompareVersions(c.latest, c.latest) > 0) /\ ~(c.build > c.build)
  BY <1>1, <1>2
<1> QED
  BY <1>3, Zenon DEF CheckForUpdate

\* An app that is not below the minimum is never offered what it has, nor an
\* older version or build.
THEOREM OffersAreNewer ==
    ASSUME NEW c \in Config, NEW current \in Version, NEW build \in Int,
           CheckForUpdate(current, build, c).hasUpdate,
           ~(CompareVersions(current, c.min) < 0)
    PROVE  \/ CompareVersions(current, c.latest) < 0
           \/ current = c.latest /\ build < c.build
<1>1. c.latest \in Version /\ c.build \in Int
  BY DEF Config
<1>2. \/ CompareVersions(c.latest, current) > 0
      \/ CompareVersions(c.latest, current) = 0 /\ c.build > build
  <2>1. ~Offer(FALSE, FALSE).hasUpdate
    BY DEF Offer
  <2> QED
    BY <2>1, Zenon DEF CheckForUpdate
<1>3. CompareVersions(current, c.latest) = -CompareVersions(c.latest, current)
  BY <1>1, VersionsAreOrdered
<1>4. CompareVersions(c.latest, current) = 0 <=> c.latest = current
  BY <1>1, VersionsAreOrdered
<1>5. CompareVersions(c.latest, current) \in Int
  BY <1>1 DEF CompareVersions, CompareTo, Version
<1> QED
  BY <1>1, <1>2, <1>3, <1>4, <1>5
=============================================================================
