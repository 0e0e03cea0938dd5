--------------------------- MODULE PersonnelProofs ---------------------------
(***************************************************************************)
(* What holds of failed sign-ins, the request limiter, sessions, push      *)
(* devices and low-stock alerts for every number of users, requests,       *)
(* devices and ticks: for each component an inductive invariant and its    *)
(* theorems, then the properties of Personnel, in which each of them runs. *)
(***************************************************************************)
EXTENDS Personnel, FiniteSetTheorems, WellFoundedInduction, TLAPS

-----------------------------------------------------------------------------
(* Failed sign-ins.  What keeps the counts and the delays: sign-ins that share *)
(* a layer have crossed on all their layers (Apart), one request at a time *)
(* inserts a row (Inserts), a copy outlives its row only if the request knows *)
(* (CopiesStand), and a key without overlaps has a clean row (Clean).      *)

ThrottleCounters == [count : Nat, first : 0 .. gMaxNow, last : 0 .. gMaxNow,
             until : {None} \cup 0 .. (gMaxNow + gMaxDelay)]

\* A failure being recorded: layers still to do, layers read, their new columns.
ThrottleRecording(j) ==
    /\ DOMAIN j = {"phase", "user", "todo", "copy", "new", "own", "lost"}
    /\ j.phase \in {"record", "wait", "beaten"} /\ j.user \in gUsers
    /\ j.todo \subseteq Throttle!Layers(j.user) /\ (j.phase # "record" => j.todo # {})
    /\ DOMAIN j.copy \subseteq Throttle!Layers(j.user) \ j.todo /\ DOMAIN j.new = DOMAIN j.copy
    /\ j.own \subseteq DOMAIN j.copy
    /\ \A k \in DOMAIN j.copy : /\ j.copy[k] \in ThrottleCounters /\ j.new[k] \in ThrottleCounters
                                /\ j.new[k].count = j.copy[k].count + 1
                                /\ k \in j.own => j.copy[k].count = 0

ThrottleJobOK(j) == j = Throttle!Idle \/ j \in [phase : {"verify"}, user : gUsers] \/ ThrottleRecording(j)

ThrottleOpen(j) == j.phase \in {"record", "wait"}

ThrottleTInv ==
    /\ gNow \in 0 .. gMaxNow
    /\ gRow \in [Throttle!Keys -> Throttle!AttemptRows \cup {None}]
    /\ gFails \in [Throttle!Keys -> Nat]
    /\ gBroken \subseteq gUsers /\ gCrossed \subseteq Throttle!Keys
    /\ gJob = [t \in Threads |-> gJob[t]] /\ \A t \in Threads : ThrottleJobOK(gJob[t])

\* Sign-ins that share a layer have crossed on all their layers.
ThrottleApart ==
    \A s, t \in Threads :
        s # t /\ Throttle!Busy(s) /\ Throttle!Busy(t) /\ Throttle!Layers(gJob[s].user) \cap Throttle!Layers(gJob[t].user) # {}
        => Throttle!Layers(gJob[s].user) \subseteq gCrossed

\* One request at a time inserts a key's row.
ThrottleInserts ==
    /\ \A s, t \in Threads : s # t /\ ThrottleOpen(gJob[s]) /\ ThrottleOpen(gJob[t]) => gJob[s].own \cap gJob[t].own = {}
    /\ \A t \in Threads : ThrottleOpen(gJob[t]) => \A k \in gJob[t].own : gRow[k] = None

\* What a request read is still there, unless the request knows it is gone.
ThrottleCopiesStand ==
    \A t \in Threads : ThrottleOpen(gJob[t]) =>
        \A k \in DOMAIN gJob[t].copy \ gJob[t].own :
            k \notin gJob[t].lost => gRow[k] # None /\ gJob[t].copy[k].count <= gFails[k]

ThrottleNeverOver == \A k \in Throttle!Keys : gRow[k] # None => gRow[k].count <= gFails[k]

\* The row of a key on which no sign-ins overlapped.
ThrottleClean(k) ==
    /\ gRow[k] = None => gFails[k] = 0
    /\ gRow[k] # None =>
        /\ gRow[k].count = gFails[k] /\ gRow[k].last <= gNow
        /\ gRow[k].until = (IF Throttle!DurationOf(k, gRow[k].count) = 0 THEN None
                           ELSE gRow[k].last + Throttle!DurationOf(k, gRow[k].count))
        /\ gRow[k].last - gRow[k].first >= Throttle!Earned(k, gRow[k].count - 1)

\* A sign-in alone on a key has passed its lock and read its row.
ThrottleAlone(j, k) ==
    /\ ~Throttle!Locked(k, gNow)
    /\ j.phase \in {"verify", "record"}
    /\ j.phase = "record" /\ k \notin j.todo =>
        /\ k \in DOMAIN j.copy
        /\ j.new[k] = Throttle!Bumped(k, j.copy[k])
        /\ \/ k \in j.own /\ j.copy[k] = Throttle!Fresh
           \/ k \notin j.own /\ k \in j.lost
           \/ k \notin j.own /\ gRow[k] = j.copy[k]

ThrottleCleans == \A k \in Throttle!Keys \ gCrossed : ThrottleClean(k)
ThrottleLoners == \A t \in Threads : Throttle!Busy(t) => \A k \in Throttle!Layers(gJob[t].user) \ gCrossed : ThrottleAlone(gJob[t], k)

ThrottleIInv == ThrottleTInv /\ ThrottleApart /\ ThrottleInserts /\ ThrottleCopiesStand /\ ThrottleNeverOver /\ ThrottleCleans /\ ThrottleLoners

\* A set of the Throttle instance is finite, and as large, as elsewhere.
LEMMA ThrottleSizes ==
    ASSUME NEW S
    PROVE  /\ Throttle!IsFiniteSet(S) <=> IsFiniteSet(S)
           /\ Throttle!Cardinality(S) = Cardinality(S)
  BY DEF Throttle!IsFiniteSet, IsFiniteSet, Throttle!Cardinality, Cardinality

\* A doubled delay is a number of ticks.
LEMMA ThrottlePower == ASSUME NEW m \in Nat PROVE 2 ^ m \in Nat
<1>1. Throttle!IsFiniteSet(1 .. m) /\ Throttle!Cardinality(1 .. m) = m
  BY FS_Interval, ThrottleSizes
<1>2. Throttle!IsFiniteSet(SUBSET (1 .. m)) /\ Throttle!Cardinality(SUBSET (1 .. m)) = 2 ^ m
  BY <1>1, FS_SUBSET, ThrottleSizes
<1> QED
  BY <1>2, FS_CardinalityType, ThrottleSizes

\* No failure earns more than the longest delay.
LEMMA ThrottleDurationIs ==
    ASSUME ThrottleConstantsOK, NEW k, NEW n \in Int PROVE Throttle!DurationOf(k, n) \in 0 .. gMaxDelay
<1>1. ASSUME NEW m \in Int PROVE Throttle!LockDuration(m) \in 0 .. gMaxDelay
  <2>1. CASE m <= gFree
    BY <2>1 DEF Throttle!LockDuration, ThrottleConstantsOK
  <2>2. CASE m > gFree
    <3>1. m - gFree - 1 \in Nat
      BY <2>2 DEF ThrottleConstantsOK
    <3>2. PICK p \in Nat : p = 2 ^ (m - gFree - 1)
      BY <3>1, ThrottlePower
    <3>3. PICK d \in Nat : d = gBaseDelay * p
      BY <3>2 DEF ThrottleConstantsOK
    <3>4. \E x \in {d, gMaxDelay} : \A y \in {d, gMaxDelay} : x <= y
      BY DEF ThrottleConstantsOK
    <3>5. Throttle!Min({d, gMaxDelay}) \in {d, gMaxDelay} /\ Throttle!Min({d, gMaxDelay}) <= gMaxDelay
      BY <3>4 DEF Throttle!Min
    <3>6. Throttle!LockDuration(m) = Throttle!Min({d, gMaxDelay})
      BY <2>2, <3>2, <3>3 DEF Throttle!LockDuration, ThrottleConstantsOK
    <3> QED
      BY <3>5, <3>6 DEF ThrottleConstantsOK
  <2> QED
    BY <2>1, <2>2 DEF ThrottleConstantsOK
<1>2. n \in Int /\ n - (gPerIpFree - gFree) \in Int
  BY DEF ThrottleConstantsOK
<1> QED
  BY <1>1, <1>2 DEF Throttle!DurationOf

\* The first failure of a row earned nothing before it.
LEMMA ThrottleEarnedNothing == ASSUME NEW k PROVE Throttle!Earned(k, 0) = 0
<1>1. {x \in (1 .. 0) \X (1 .. gMaxDelay) : x[2] <= Throttle!DurationOf(k, x[1])} = {}
  OBVIOUS
<1> QED
  BY <1>1, FS_EmptySet, ThrottleSizes DEF Throttle!Earned

\* One more failure earns one more delay.
LEMMA ThrottleEarnedNext == ASSUME ThrottleConstantsOK, NEW k, NEW n \in Nat
                    PROVE  /\ Throttle!Earned(k, n) \in Nat
                           /\ Throttle!Earned(k, n + 1) = Throttle!Earned(k, n) + Throttle!DurationOf(k, n + 1)
<1> DEFINE S(m) == {x \in (1 .. m) \X (1 .. gMaxDelay) : x[2] <= Throttle!DurationOf(k, x[1])}
<1>1. PICK d \in 0 .. gMaxDelay : d = Throttle!DurationOf(k, n + 1)
  BY ThrottleDurationIs
<1> DEFINE T == {n + 1} \X (1 .. d)
<1>2. Throttle!IsFiniteSet({n + 1}) /\ Throttle!Cardinality({n + 1}) = 1
  BY FS_Singleton, ThrottleSizes
<1>3. Throttle!IsFiniteSet(T) /\ Throttle!Cardinality(T) = d
  <2>1. Throttle!IsFiniteSet(1 .. d) /\ Throttle!Cardinality(1 .. d) = d
    <3>1. d \in Nat /\ 1 \in Int /\ d \in Int
      BY DEF ThrottleConstantsOK
    <3>2. Throttle!Cardinality(1 .. d) = IF 1 > d THEN 0 ELSE d - 1 + 1
      BY <3>1, FS_Interval, ThrottleSizes
    <3>3. Throttle!IsFiniteSet(1 .. d)
      BY <3>1, FS_Interval, ThrottleSizes
    <3> QED
      BY <3>1, <3>2, <3>3
  <2>2. PICK A : A = {n + 1}
    OBVIOUS
  <2>3. PICK B : B = 1 .. d
    OBVIOUS
  <2>4. Throttle!IsFiniteSet(A) /\ Throttle!Cardinality(A) = 1 /\ Throttle!IsFiniteSet(B) /\ Throttle!Cardinality(B) = d
    BY <1>2, <2>1, <2>2, <2>3
  <2>5. Throttle!IsFiniteSet(A \X B) /\ Throttle!Cardinality(A \X B) = Throttle!Cardinality(A) * Throttle!Cardinality(B)
    BY <2>4, FS_Product, ThrottleSizes
  <2>6. 1 * d = d
    OBVIOUS
  <2>7. T = A \X B
    BY <2>2, <2>3
  <2> QED
    BY <2>4, <2>5, <2>6, <2>7
<1>4. Throttle!IsFiniteSet(1 .. n) /\ Throttle!IsFiniteSet(1 .. gMaxDelay)
  <2>1. 1 \in Int /\ n \in Int /\ gMaxDelay \in Int
    BY DEF ThrottleConstantsOK
  <2>2. Throttle!IsFiniteSet(1 .. n)
    BY <2>1, FS_Interval, ThrottleSizes
  <2>3. Throttle!IsFiniteSet(1 .. gMaxDelay)
    BY <2>1, FS_Interval, ThrottleSizes
  <2> QED
    BY <2>2, <2>3
<1>5. Throttle!IsFiniteSet((1 .. n) \X (1 .. gMaxDelay))
  BY <1>4, FS_Product, ThrottleSizes
<1>6. Throttle!IsFiniteSet(S(n)) /\ Throttle!Cardinality(S(n)) \in Nat
  BY <1>5, FS_Subset, FS_CardinalityType, ThrottleSizes
<1>7. S(n + 1) = S(n) \cup T
  <2>1. ASSUME NEW i \in 1 .. (n + 1), NEW e \in 1 .. gMaxDelay, e <= Throttle!DurationOf(k, i)
        PROVE  <<i, e>> \in S(n) \cup T
    BY <1>1, <2>1
  <2>2. ASSUME NEW i \in 1 .. n, NEW e \in 1 .. gMaxDelay, e <= Throttle!DurationOf(k, i)
        PROVE  <<i, e>> \in S(n + 1)
    BY <2>2
  <2>3. ASSUME NEW e \in 1 .. d PROVE <<n + 1, e>> \in S(n + 1)
    BY <1>1 DEF ThrottleConstantsOK
  <2> QED
    BY <2>1, <2>2, <2>3
<1>8. S(n) \cap T = {}
  OBVIOUS
<1> HIDE DEF S, T
<1>9. Throttle!Cardinality(S(n) \cup T) = Throttle!Cardinality(S(n)) + d
  BY <1>3, <1>6, <1>8, FS_Union, FS_EmptySet, ThrottleSizes
<1> QED
  BY <1>1, <1>6, <1>7, <1>9 DEF Throttle!Earned, S

LEMMA ThrottleBumpedIs ==
    ASSUME ThrottleConstantsOK, ThrottleTInv, NEW k, NEW r \in ThrottleCounters
    PROVE  /\ Throttle!Bumped(k, r) \in ThrottleCounters
           /\ Throttle!Bumped(k, r).count = r.count + 1 /\ Throttle!Bumped(k, r).first = r.first
           /\ Throttle!Bumped(k, r).last = gNow
           /\ Throttle!Bumped(k, r).until = (IF Throttle!DurationOf(k, r.count + 1) = 0 THEN None
                                    ELSE gNow + Throttle!DurationOf(k, r.count + 1))
<1>1. PICK d \in 0 .. gMaxDelay : d = Throttle!DurationOf(k, r.count + 1)
  BY ThrottleDurationIs DEF ThrottleCounters
<1>2. r = [count |-> r.count, first |-> r.first, last |-> r.last, until |-> r.until]
  BY DEF ThrottleCounters
<1>3. Throttle!Bumped(k, r) = [count |-> r.count + 1, first |-> r.first, last |-> gNow,
                      until |-> IF d = 0 THEN None ELSE gNow + d]
  BY <1>1, <1>2 DEF Throttle!Bumped
<1>4. r.count + 1 \in Nat /\ r.first \in 0 .. gMaxNow /\ gNow \in 0 .. gMaxNow
      /\ gNow + d \in 0 .. (gMaxNow + gMaxDelay)
  BY DEF ThrottleCounters, ThrottleTInv, ThrottleConstantsOK
<1> QED
  BY <1>1, <1>3, <1>4 DEF ThrottleCounters

LEMMA ThrottleRowsAreCounters ==
    ASSUME ThrottleConstantsOK PROVE Throttle!AttemptRows \subseteq ThrottleCounters /\ None \notin Throttle!AttemptRows
  BY DEF Throttle!AttemptRows, ThrottleCounters, ThrottleConstantsOK

LEMMA ThrottleFreshIs ==
    ASSUME ThrottleConstantsOK, ThrottleTInv PROVE Throttle!Fresh \in ThrottleCounters
  BY DEF Throttle!Fresh, ThrottleCounters, ThrottleTInv, ThrottleConstantsOK

LEMMA ThrottleInitIInv == ASSUME ThrottleConstantsOK, Throttle!Init PROVE ThrottleIInv
<1>1. ThrottleTInv
  BY DEF Throttle!Init, ThrottleTInv, ThrottleJobOK, ThrottleConstantsOK, Throttle!Keys
<1>2. ~\E t \in Threads : Throttle!Busy(t) \/ ThrottleOpen(gJob[t])
  BY DEF Throttle!Init, Throttle!Busy, ThrottleOpen, Throttle!Idle
<1>3. \A k \in Throttle!Keys : gRow[k] = None /\ gFails[k] = 0
  BY DEF Throttle!Init
<1> QED
  BY <1>1, <1>2, <1>3 DEF ThrottleIInv, ThrottleApart, ThrottleInserts, ThrottleCopiesStand,
     ThrottleNeverOver, ThrottleClean, ThrottleCleans, ThrottleLoners

LEMMA ThrottleTickStep ==
    ASSUME ThrottleConstantsOK, ThrottleIInv, Throttle!Tick PROVE ThrottleIInv'
<1>1. /\ gNow \in Int /\ gNow' = gNow + 1 /\ gNow' \in 0 .. gMaxNow
      /\ gRow' = gRow /\ gJob' = gJob /\ gBroken' = gBroken /\ gFails' = gFails
      /\ gCrossed' = gCrossed \cup UNION {Throttle!Layers(gJob[t].user) : t \in {t \in Threads : Throttle!Busy(t)}}
  BY DEF Throttle!Tick, ThrottleIInv, ThrottleTInv, ThrottleConstantsOK
<1>2. \A t \in Threads : Throttle!Busy(t) => gJob[t].user \in gUsers
  BY DEF ThrottleIInv, ThrottleTInv, ThrottleJobOK, ThrottleRecording, Throttle!Busy, Throttle!Idle
<1>3. gCrossed \subseteq gCrossed' /\ gCrossed' \subseteq Throttle!Keys
  BY <1>1, <1>2 DEF ThrottleIInv, ThrottleTInv, Throttle!Layers, Throttle!Keys
<1>4. \A t \in Threads : Throttle!Busy(t) => Throttle!Layers(gJob[t].user) \subseteq gCrossed'
  BY <1>1
<1>5. ThrottleTInv'
  BY <1>1, <1>3 DEF ThrottleIInv, ThrottleTInv
<1>6. (ThrottleApart /\ ThrottleInserts /\ ThrottleCopiesStand /\ ThrottleNeverOver)'
  BY <1>1, <1>3 DEF ThrottleIInv, ThrottleApart, ThrottleInserts, ThrottleCopiesStand,
     ThrottleNeverOver, Throttle!Busy
<1>7. ThrottleCleans'
  <2> SUFFICES ASSUME NEW k \in Throttle!Keys \ gCrossed' PROVE ThrottleClean(k)'
    BY DEF ThrottleCleans
  <2>1. ThrottleClean(k)
    BY <1>3 DEF ThrottleIInv, ThrottleCleans
  <2>2. gRow[k] \in Throttle!AttemptRows \cup {None}
    BY DEF ThrottleIInv, ThrottleTInv
  <2>3. gRow[k] # None => gRow[k].last \in Int
    BY <2>2 DEF Throttle!AttemptRows
  <2> QED
    BY <1>1, <2>1, <2>3 DEF ThrottleClean
<1>8. ThrottleLoners'
  BY <1>1, <1>4 DEF Throttle!Busy, ThrottleLoners
<1> QED
  BY <1>5, <1>6, <1>7, <1>8 DEF ThrottleIInv

LEMMA ThrottleCheckStep ==
    ASSUME ThrottleConstantsOK, ThrottleIInv, NEW t \in Threads, Throttle!Check(t) PROVE ThrottleIInv'
<1>1. PICK u \in gUsers : /\ ~Throttle!Refuses(u)
                          /\ gJob' = [gJob EXCEPT ![t] = [phase |-> "verify", user |-> u]]
                          /\ LET others == {s \in Threads \ {t} : Throttle!Busy(s)
                                            /\ Throttle!Layers(gJob[s].user) \cap Throttle!Layers(u) # {}} IN
                             gCrossed' = gCrossed \cup (IF others = {} THEN {} ELSE Throttle!Layers(u))
                                              \cup UNION {Throttle!Layers(gJob[s].user) : s \in others}
  BY DEF Throttle!Check
<1> DEFINE v == [phase |-> "verify", user |-> u]
<1>2. /\ gNow' = gNow /\ gRow' = gRow /\ gBroken' = gBroken /\ gFails' = gFails /\ ~Throttle!Busy(t)
  BY DEF Throttle!Check
<1>3. v.phase = "verify" /\ v.user = u /\ ThrottleJobOK(v) /\ ~ThrottleOpen(v)
  BY DEF ThrottleJobOK, ThrottleOpen
<1>4. gJob'[t] = v /\ \A s \in Threads \ {t} : gJob'[s] = gJob[s]
  BY <1>1 DEF ThrottleIInv, ThrottleTInv
<1>5. gJob' = [s \in Threads |-> gJob'[s]]
  BY <1>1 DEF ThrottleIInv, ThrottleTInv
<1> HIDE DEF v
<1>6. \A s \in Threads : Throttle!Busy(s) => gJob[s].user \in gUsers
  BY DEF ThrottleIInv, ThrottleTInv, ThrottleJobOK, ThrottleRecording, Throttle!Busy, Throttle!Idle
<1>7. gCrossed \subseteq gCrossed' /\ gCrossed' \subseteq Throttle!Keys
  BY <1>1, <1>6 DEF ThrottleIInv, ThrottleTInv, Throttle!Layers, Throttle!Keys
<1>8. ASSUME NEW s \in Threads \ {t}, Throttle!Busy(s), Throttle!Layers(gJob[s].user) \cap Throttle!Layers(u) # {}
      PROVE  Throttle!Layers(gJob[s].user) \subseteq gCrossed' /\ Throttle!Layers(u) \subseteq gCrossed'
  <2> DEFINE others == {x \in Threads \ {t} : Throttle!Busy(x) /\ Throttle!Layers(gJob[x].user) \cap Throttle!Layers(u) # {}}
  <2>1. s \in others
    BY <1>8
  <2> HIDE DEF others
  <2>2. gCrossed' = gCrossed \cup (IF others = {} THEN {} ELSE Throttle!Layers(u))
                           \cup UNION {Throttle!Layers(gJob[x].user) : x \in others}
    BY <1>1 DEF others
  <2> QED
    BY <2>1, <2>2
<1>9. ThrottleTInv'
  BY <1>2, <1>3, <1>4, <1>5, <1>7 DEF ThrottleIInv, ThrottleTInv
<1>10. ThrottleApart'
  <2> SUFFICES ASSUME NEW s \in Threads, NEW r \in Threads, s # r, Throttle!Busy(s)', Throttle!Busy(r)',
                      Throttle!Layers(gJob'[s].user) \cap Throttle!Layers(gJob'[r].user) # {}
               PROVE  Throttle!Layers(gJob'[s].user) \subseteq gCrossed'
    BY DEF ThrottleApart
  <2>1. CASE s # t /\ r # t
    BY <1>4, <1>7, <2>1 DEF ThrottleIInv, ThrottleApart, Throttle!Busy
  <2>2. CASE s = t
    BY <1>3, <1>4, <1>8, <2>2 DEF Throttle!Busy
  <2>3. CASE r = t
    BY <1>3, <1>4, <1>8, <2>3 DEF Throttle!Busy
  <2> QED
    BY <2>1, <2>2, <2>3
<1>11. (ThrottleInserts /\ ThrottleCopiesStand)'
  <2>1. \A s \in Threads : ThrottleOpen(gJob'[s]) => gJob'[s] = gJob[s]
    BY <1>3, <1>4
  <2> QED
    BY <1>2, <2>1 DEF ThrottleIInv, ThrottleInserts, ThrottleCopiesStand
<1>12. ThrottleNeverOver' /\ ThrottleCleans'
  BY <1>2, <1>7 DEF ThrottleIInv, ThrottleNeverOver, ThrottleCleans, ThrottleClean
<1>13. ThrottleLoners'
  <2> SUFFICES ASSUME NEW s \in Threads, Throttle!Busy(s)', NEW k \in Throttle!Layers(gJob'[s].user) \ gCrossed'
               PROVE  ThrottleAlone(gJob[s], k)'
    BY DEF ThrottleLoners
  <2>1. CASE s = t
    BY <1>1, <1>2, <1>3, <1>4, <2>1 DEF ThrottleAlone, Throttle!Refuses, Throttle!Locked
  <2>2. CASE s # t
    <3>1. ThrottleAlone(gJob[s], k)
      BY <1>4, <1>7, <2>2 DEF ThrottleIInv, ThrottleLoners, Throttle!Busy
    <3> QED
      BY <1>2, <1>4, <2>2, <3>1 DEF ThrottleAlone, Throttle!Locked, Throttle!Bumped, Throttle!Fresh
  <2> QED
    BY <2>1, <2>2
<1> QED
  BY <1>9, <1>10, <1>11, <1>12, <1>13 DEF ThrottleIInv

\* A step that only writes down what its own request knows.
LEMMA ThrottleOwnStep ==
    ASSUME ThrottleConstantsOK, ThrottleIInv, NEW t \in Threads, Throttle!Busy(t), NEW r,
           gJob' = [gJob EXCEPT ![t] = r], r.user = gJob[t].user, ThrottleRecording(r),
           gNow' = gNow, gRow' = gRow, gBroken' = gBroken, gFails' = gFails, gCrossed' = gCrossed,
           \A s \in Threads \ {t} : ThrottleOpen(r) /\ ThrottleOpen(gJob[s]) => r.own \cap gJob[s].own = {},
           ThrottleOpen(r) => \A k \in r.own : gRow[k] = None,
           ThrottleOpen(r) => \A k \in DOMAIN r.copy \ r.own :
                         k \notin r.lost => gRow[k] # None /\ r.copy[k].count <= gFails[k],
           \A k \in Throttle!Layers(r.user) \ gCrossed : ThrottleAlone(r, k)
    PROVE  ThrottleIInv'
<1>1. gJob'[t] = r /\ \A s \in Threads \ {t} : gJob'[s] = gJob[s]
  BY DEF ThrottleIInv, ThrottleTInv
<1>2. gJob' = [s \in Threads |-> gJob'[s]]
  BY DEF ThrottleIInv, ThrottleTInv
<1>3. ThrottleTInv'
  BY <1>1, <1>2 DEF ThrottleIInv, ThrottleTInv, ThrottleJobOK
<1>4. ThrottleApart'
  BY <1>1 DEF ThrottleIInv, ThrottleApart, Throttle!Busy
<1>5. ThrottleInserts'
  <2>1. \A x, y \in Threads : x # y /\ ThrottleOpen(gJob'[x]) /\ ThrottleOpen(gJob'[y]) => gJob'[x].own \cap gJob'[y].own = {}
    <3>1. \A y \in Threads \ {t} : ThrottleOpen(gJob'[t]) /\ ThrottleOpen(gJob'[y]) => gJob'[t].own \cap gJob'[y].own = {}
      BY <1>1
    <3>2. \A x, y \in Threads \ {t} : x # y /\ ThrottleOpen(gJob'[x]) /\ ThrottleOpen(gJob'[y]) => gJob'[x].own \cap gJob'[y].own = {}
      BY <1>1 DEF ThrottleIInv, ThrottleInserts
    <3> QED
      BY <3>1, <3>2
  <2>2. \A x \in Threads : ThrottleOpen(gJob'[x]) => \A k \in gJob'[x].own : gRow'[k] = None
    BY <1>1 DEF ThrottleIInv, ThrottleInserts
  <2> QED
    BY <2>1, <2>2 DEF ThrottleInserts
<1>6. ThrottleCopiesStand'
  BY <1>1 DEF ThrottleIInv, ThrottleCopiesStand
<1>7. ThrottleNeverOver' /\ ThrottleCleans'
  BY DEF ThrottleIInv, ThrottleNeverOver, ThrottleCleans, ThrottleClean
<1>8. ThrottleLoners'
  <2> SUFFICES ASSUME NEW s \in Threads, Throttle!Busy(s)', NEW k \in Throttle!Layers(gJob'[s].user) \ gCrossed'
               PROVE  ThrottleAlone(gJob[s], k)'
    BY DEF ThrottleLoners
  <2>1. ThrottleAlone(gJob'[s], k)
    BY <1>1 DEF ThrottleIInv, ThrottleLoners, Throttle!Busy
  <2> QED
    BY <2>1 DEF ThrottleAlone, Throttle!Locked, Throttle!Bumped, Throttle!Fresh
<1> QED
  BY <1>3, <1>4, <1>5, <1>6, <1>7, <1>8 DEF ThrottleIInv

LEMMA ThrottleWrongStep ==
    ASSUME ThrottleConstantsOK, ThrottleIInv, NEW t \in Threads, Throttle!Wrong(t) PROVE ThrottleIInv'
<1> DEFINE r == [phase |-> "record", user |-> gJob[t].user, todo |-> Throttle!Layers(gJob[t].user),
                 copy |-> [k \in {} |-> None], new |-> [k \in {} |-> None], own |-> {}, lost |-> {}]
<1>1. /\ gJob' = [gJob EXCEPT ![t] = r] /\ gJob[t].phase = "verify"
      /\ gNow' = gNow /\ gRow' = gRow /\ gBroken' = gBroken /\ gFails' = gFails /\ gCrossed' = gCrossed
  BY DEF Throttle!Wrong, ThrottleIInv, ThrottleTInv
<1>2. gJob[t].user \in gUsers /\ Throttle!Busy(t)
  BY <1>1 DEF ThrottleIInv, ThrottleTInv, ThrottleJobOK, ThrottleRecording, Throttle!Idle,
     Throttle!Busy
<1>3. DOMAIN r = {"phase", "user", "todo", "copy", "new", "own", "lost"}
  OBVIOUS
<1>4. /\ r.phase = "record" /\ r.user = gJob[t].user /\ r.todo = Throttle!Layers(gJob[t].user) /\ r.own = {}
      /\ r.lost = {} /\ DOMAIN r.copy = {} /\ DOMAIN r.new = {}
  OBVIOUS
<1> HIDE DEF r
<1>5. ThrottleRecording(r)
  BY <1>2, <1>3, <1>4 DEF ThrottleRecording
<1>6. \A k \in Throttle!Layers(r.user) \ gCrossed : ThrottleAlone(r, k)
  BY <1>2, <1>4 DEF ThrottleIInv, ThrottleLoners, ThrottleAlone
<1> QED
  BY <1>1, <1>2, <1>4, <1>5, <1>6, ThrottleOwnStep

\* The layer a sign-in turns to is one of its own still to do.
LEMMA ThrottleNextIs == ASSUME NEW t, ThrottleRecording(gJob[t]), gJob[t].todo # {}
                PROVE  Throttle!NextLayer(gJob[t]) \in gJob[t].todo /\ Throttle!NextLayer(gJob[t]) \in Throttle!Layers(gJob[t].user)
  BY DEF ThrottleRecording, Throttle!NextLayer, Throttle!Layers

LEMMA ThrottleBumpStep ==
    ASSUME ThrottleConstantsOK, ThrottleIInv, NEW t \in Threads, Throttle!Bump(t) PROVE ThrottleIInv'
<1> DEFINE j == gJob[t]
           k == Throttle!NextLayer(j)
           seen == gRow[k]
           base == IF seen = None THEN Throttle!Fresh ELSE seen
           with(f, v) == [x \in DOMAIN f \cup {k} |-> IF x = k THEN v ELSE f[x]]
           r == [j EXCEPT !.todo = @ \ {k}, !.copy = with(@, base), !.new = with(@, Throttle!Bumped(k, base)),
                          !.own = IF seen = None THEN @ \cup {k} ELSE @]
           q == [j EXCEPT !.phase = "wait"]
<1>1. /\ j.phase = "record" /\ j.todo # {}
      /\ \/ (seen = None => ~Throttle!Holding(k, t)) /\ gJob' = [gJob EXCEPT ![t] = r]
         \/ seen = None /\ Throttle!Holding(k, t) /\ gJob' = [gJob EXCEPT ![t] = q]
      /\ gNow' = gNow /\ gRow' = gRow /\ gBroken' = gBroken /\ gFails' = gFails /\ gCrossed' = gCrossed
  BY DEF Throttle!Bump
<1>2. ThrottleRecording(j) /\ Throttle!Busy(t)
  BY <1>1 DEF ThrottleIInv, ThrottleTInv, ThrottleJobOK, Throttle!Idle, Throttle!Busy
<1>3. PICK c \in ThrottleCounters : c = base /\ (seen # None => c = seen /\ c.count <= gFails[k]) /\ (seen = None => c = Throttle!Fresh /\ c.count = 0)
  <2>1. k \in Throttle!Keys
    BY <1>1, <1>2, ThrottleNextIs DEF ThrottleRecording, Throttle!Layers, Throttle!Keys
  <2>2. seen # None => seen \in Throttle!AttemptRows /\ seen.count <= gFails[k]
    BY <2>1 DEF ThrottleIInv, ThrottleTInv, ThrottleNeverOver
  <2>3. Throttle!Fresh \in ThrottleCounters /\ Throttle!Fresh.count = 0
    BY ThrottleFreshIs DEF ThrottleIInv, Throttle!Fresh
  <2> QED
    BY <2>2, <2>3, ThrottleRowsAreCounters
<1>4. PICK n \in ThrottleCounters : n = Throttle!Bumped(k, base) /\ n.count = c.count + 1
  BY <1>3, ThrottleBumpedIs DEF ThrottleIInv
<1>5. PICK K : K = k /\ K \in j.todo /\ K \in Throttle!Layers(j.user)
  BY <1>1, <1>2, ThrottleNextIs
<1>6. CASE (seen = None => ~Throttle!Holding(k, t)) /\ gJob' = [gJob EXCEPT ![t] = r]
  <2>1. /\ DOMAIN r = {"phase", "user", "todo", "copy", "new", "own", "lost"}
        /\ r.phase = "record" /\ r.user = j.user /\ r.todo = j.todo \ {K} /\ r.lost = j.lost
        /\ r.own = (IF gRow[K] = None THEN j.own \cup {K} ELSE j.own)
        /\ r.copy = [x \in DOMAIN j.copy \cup {K} |-> IF x = K THEN c ELSE j.copy[x]]
        /\ r.new = [x \in DOMAIN j.new \cup {K} |-> IF x = K THEN n ELSE j.new[x]]
    BY <1>1, <1>2, <1>3, <1>4, <1>5 DEF ThrottleRecording
  <2>2. (gRow[K] # None => c = gRow[K] /\ c.count <= gFails[K]) /\ (gRow[K] = None => c = Throttle!Fresh /\ c.count = 0)
        /\ n = Throttle!Bumped(K, c)
    BY <1>3, <1>4, <1>5
  <2>3. gRow[K] = None => ~Throttle!Holding(K, t)
    BY <1>5, <1>6
  <2>4. gJob' = [gJob EXCEPT ![t] = r]
    BY <1>6
  <2>5. ThrottleRecording(j) /\ j = gJob[t]
    BY <1>2
  <2> HIDE DEF r, q, j, k, seen, base, with
  <2>6. ThrottleRecording(r)
    <3>1. /\ r.phase \in {"record", "wait", "beaten"} /\ r.user \in gUsers
          /\ r.todo \subseteq Throttle!Layers(r.user) /\ (r.phase # "record" => r.todo # {})
          /\ r.own \subseteq DOMAIN r.copy /\ DOMAIN r.new = DOMAIN r.copy
          /\ DOMAIN r.copy \subseteq Throttle!Layers(r.user) \ r.todo
      BY <1>5, <2>1, <2>5 DEF ThrottleRecording
    <3>2. ASSUME NEW x \in DOMAIN r.copy
          PROVE  /\ r.copy[x] \in ThrottleCounters /\ r.new[x] \in ThrottleCounters
                 /\ r.new[x].count = r.copy[x].count + 1
                 /\ x \in r.own => r.copy[x].count = 0
      <4>1. CASE x = K
        <5>1. K \notin j.own
          BY <1>5, <2>5 DEF ThrottleRecording
        <5> QED
          BY <1>4, <2>1, <2>2, <2>5, <4>1, <5>1 DEF ThrottleRecording
      <4>2. CASE x # K
        BY <2>1, <2>5, <4>2 DEF ThrottleRecording
      <4> QED
        BY <4>1, <4>2
    <3> QED
      BY <2>1, <3>1, <3>2 DEF ThrottleRecording
  <2>7. ThrottleOpen(j) /\ ThrottleOpen(r)
    BY <1>1, <2>1 DEF ThrottleOpen
  <2>8. ASSUME NEW s \in Threads \ {t}, ThrottleOpen(r), ThrottleOpen(gJob[s]) PROVE r.own \cap gJob[s].own = {}
    <3>1. j.own \cap gJob[s].own = {}
      BY <2>5, <2>7, <2>8 DEF ThrottleIInv, ThrottleInserts
    <3>2. gRow[K] = None => K \notin gJob[s].own
      BY <2>3, <2>8 DEF Throttle!Holding, ThrottleOpen
    <3> QED
      BY <2>1, <3>1, <3>2
  <2>9. \A x \in r.own : gRow[x] = None
    BY <2>1, <2>5, <2>7 DEF ThrottleIInv, ThrottleInserts
  <2>10. ASSUME NEW x \in DOMAIN r.copy \ r.own, x \notin r.lost PROVE gRow[x] # None /\ r.copy[x].count <= gFails[x]
    <3>1. CASE x = K
      BY <2>1, <2>2, <2>10, <3>1
    <3>2. CASE x # K
      BY <2>1, <2>5, <2>7, <2>10, <3>2 DEF ThrottleIInv, ThrottleCopiesStand
    <3> QED
      BY <3>1, <3>2
  <2>11. ASSUME NEW x \in Throttle!Layers(r.user) \ gCrossed PROVE ThrottleAlone(r, x)
    <3>1. ThrottleAlone(j, x)
      BY <1>2, <2>1, <2>5, <2>11 DEF ThrottleIInv, ThrottleLoners
    <3>2. CASE x = K
      <4>1. K \notin j.own /\ K \in DOMAIN r.copy
        BY <1>5, <2>1, <2>5 DEF ThrottleRecording
      <4>2. r.new[K] = Throttle!Bumped(K, r.copy[K])
        BY <2>1, <2>2, <2>5 DEF ThrottleRecording
      <4>3. (K \in r.own /\ r.copy[K] = Throttle!Fresh) \/ (K \notin r.own /\ gRow[K] = r.copy[K])
        BY <2>1, <2>2, <4>1
      <4> QED
        BY <2>1, <3>1, <3>2, <4>1, <4>2, <4>3 DEF ThrottleAlone
    <3>3. CASE x # K
      <4>1. x \notin r.todo => x \in DOMAIN j.copy
        BY <1>1, <2>1, <3>1, <3>3 DEF ThrottleAlone
      <4>2. x \in DOMAIN j.copy => x \in DOMAIN r.copy /\ r.copy[x] = j.copy[x] /\ r.new[x] = j.new[x]
        BY <2>1, <2>5, <3>3 DEF ThrottleRecording
      <4>3. x \in r.own <=> x \in j.own
        BY <2>1, <3>3
      <4> QED
        BY <1>1, <2>1, <3>1, <3>3, <4>1, <4>2, <4>3 DEF ThrottleAlone
    <3> QED
      BY <3>2, <3>3
  <2>12. /\ \A s \in Threads \ {t} : ThrottleOpen(r) /\ ThrottleOpen(gJob[s]) => r.own \cap gJob[s].own = {}
         /\ \A x \in DOMAIN r.copy \ r.own : x \notin r.lost => gRow[x] # None /\ r.copy[x].count <= gFails[x]
         /\ \A x \in Throttle!Layers(r.user) \ gCrossed : ThrottleAlone(r, x)
    BY <2>8, <2>10, <2>11
  <2>13. r.user = gJob[t].user
    BY <2>1, <2>5
  <2> QED
    BY <1>1, <1>2, <2>4, <2>6, <2>9, <2>12, <2>13, ThrottleOwnStep
<1>7. CASE seen = None /\ Throttle!Holding(k, t) /\ gJob' = [gJob EXCEPT ![t] = q]
  <2>1. /\ DOMAIN q = {"phase", "user", "todo", "copy", "new", "own", "lost"}
        /\ q.phase = "wait" /\ q.user = j.user /\ q.todo = j.todo /\ q.lost = j.lost /\ q.own = j.own
        /\ q.copy = j.copy /\ q.new = j.new
    BY <1>2 DEF ThrottleRecording
  <2>2. Throttle!Holding(K, t) /\ gJob' = [gJob EXCEPT ![t] = q] /\ ThrottleRecording(j) /\ j = gJob[t]
    BY <1>2, <1>5, <1>7
  <2> HIDE DEF r, q, j, k, seen, base, with
  <2>3. ThrottleRecording(q) /\ ThrottleOpen(j) /\ ThrottleOpen(q)
    BY <1>1, <2>1, <2>2 DEF ThrottleRecording, ThrottleOpen
  <2>4. Throttle!Layers(j.user) \subseteq gCrossed
    <3>1. PICK s \in Threads \ {t} : gJob[s].phase \in {"record", "wait"} /\ K \in gJob[s].own
      BY <2>2 DEF Throttle!Holding
    <3>2. ThrottleRecording(gJob[s]) /\ Throttle!Busy(s)
      BY <3>1 DEF ThrottleIInv, ThrottleTInv, ThrottleJobOK, Throttle!Idle, Throttle!Busy
    <3>3. K \in Throttle!Layers(gJob[s].user)
      BY <3>1, <3>2 DEF ThrottleRecording
    <3> QED
      BY <1>2, <1>5, <2>2, <3>2, <3>3 DEF ThrottleIInv, ThrottleApart
  <2>5. \A s \in Threads \ {t} : ThrottleOpen(q) /\ ThrottleOpen(gJob[s]) => q.own \cap gJob[s].own = {}
    BY <2>1, <2>2, <2>3 DEF ThrottleIInv, ThrottleInserts
  <2>6. \A x \in q.own : gRow[x] = None
    BY <2>1, <2>2, <2>3 DEF ThrottleIInv, ThrottleInserts
  <2>7. \A x \in DOMAIN q.copy \ q.own : x \notin q.lost => gRow[x] # None /\ q.copy[x].count <= gFails[x]
    BY <2>1, <2>2, <2>3 DEF ThrottleIInv, ThrottleCopiesStand
  <2> QED
    BY <1>1, <1>2, <2>1, <2>2, <2>3, <2>4, <2>5, <2>6, <2>7, ThrottleOwnStep
<1> QED
  BY <1>1, <1>6, <1>7

LEMMA ThrottleConflictStep ==
    ASSUME ThrottleConstantsOK, ThrottleIInv, NEW t \in Threads, Throttle!Conflict(t) PROVE ThrottleIInv'
<1> DEFINE k == Throttle!NextLayer(gJob[t])
           j == [gJob[t] EXCEPT !.phase = "record", !.todo = @ \ {k}, !.own = {}, !.lost = {}]
           found == {x \in {k} : gRow[x] # None}
           r == [j EXCEPT !.copy = [x \in found |-> gRow[x]], !.new = [x \in found |-> Throttle!Bumped(x, gRow[x])]]
<1>1. /\ gJob' = [gJob EXCEPT ![t] = r] /\ gJob[t].phase = "beaten"
      /\ gNow' = gNow /\ gRow' = gRow /\ gBroken' = gBroken /\ gFails' = gFails /\ gCrossed' = gCrossed
  BY DEF Throttle!Conflict
<1>2. ThrottleRecording(gJob[t]) /\ Throttle!Busy(t)
  BY <1>1 DEF ThrottleIInv, ThrottleTInv, ThrottleJobOK, Throttle!Idle, Throttle!Busy
<1>3. gJob[t].todo # {}
  BY <1>1, <1>2 DEF ThrottleRecording
<1>4. k \in gJob[t].todo /\ k \in Throttle!Layers(gJob[t].user)
  BY <1>2, <1>3, ThrottleNextIs
<1>5. /\ DOMAIN r = {"phase", "user", "todo", "copy", "new", "own", "lost"}
      /\ r.phase = "record" /\ r.user = gJob[t].user /\ r.todo = gJob[t].todo \ {k} /\ r.lost = {}
      /\ r.own = {} /\ r.copy = [x \in found |-> gRow[x]] /\ r.new = [x \in found |-> Throttle!Bumped(x, gRow[x])]
  <2>1. /\ DOMAIN j = {"phase", "user", "todo", "copy", "new", "own", "lost"}
        /\ j.phase = "record" /\ j.user = gJob[t].user /\ j.todo = gJob[t].todo \ {k} /\ j.lost = {} /\ j.own = {}
    BY <1>2 DEF ThrottleRecording
  <2> HIDE DEF j
  <2> QED
    BY <2>1
<1>6. \A x \in found : x = k /\ gRow[x] # None
  OBVIOUS
<1>7. \A x \in found : gRow[x] \in ThrottleCounters /\ Throttle!Bumped(x, gRow[x]) \in ThrottleCounters
                       /\ Throttle!Bumped(x, gRow[x]).count = gRow[x].count + 1 /\ gRow[x].count <= gFails[x]
  <2> SUFFICES ASSUME NEW x \in found
               PROVE  gRow[x] \in ThrottleCounters /\ Throttle!Bumped(x, gRow[x]) \in ThrottleCounters
                       /\ Throttle!Bumped(x, gRow[x]).count = gRow[x].count + 1 /\ gRow[x].count <= gFails[x]
    OBVIOUS
  <2>1. x \in Throttle!Keys
    BY <1>2, <1>4, <1>6 DEF ThrottleRecording, Throttle!Layers, Throttle!Keys
  <2>2. gRow[x] \in Throttle!AttemptRows /\ gRow[x].count <= gFails[x]
    BY <1>6, <2>1 DEF ThrottleIInv, ThrottleTInv, ThrottleNeverOver
  <2>3. gRow[x] \in ThrottleCounters
    BY <2>2, ThrottleRowsAreCounters
  <2> QED
    BY <2>2, <2>3, ThrottleBumpedIs DEF ThrottleIInv
<1> HIDE DEF r, j, found, k
<1>8. ThrottleRecording(r)
  BY <1>2, <1>4, <1>5, <1>6, <1>7 DEF ThrottleRecording
<1>9. Throttle!Layers(r.user) \subseteq gCrossed
  BY <1>1, <1>2, <1>5 DEF ThrottleIInv, ThrottleLoners, ThrottleAlone
<1>10. \A x \in DOMAIN r.copy \ r.own : x \notin r.lost => gRow[x] # None /\ r.copy[x].count <= gFails[x]
  BY <1>5, <1>6, <1>7
<1> QED
  BY <1>1, <1>2, <1>5, <1>8, <1>9, <1>10, ThrottleOwnStep

\* What another request's commit does to one under way: it may lose rows, and a
\* wait for an insert may end.
ThrottleMoved(i, j, L) ==
    /\ ~ThrottleOpen(i) => j = i
    /\ ThrottleOpen(i) => /\ ThrottleRecording(j)
                          /\ j.user = i.user /\ j.todo = i.todo /\ j.copy = i.copy /\ j.new = i.new
                          /\ j.own = i.own /\ j.lost = i.lost \cup (L \cap (DOMAIN i.copy \ i.own))
                          /\ j.phase = i.phase \/ (i.phase = "wait" /\ j.phase \in {"record", "beaten"})

LEMMA ThrottleLosingMoves ==
    ASSUME NEW jobs, NEW s \in Threads, ThrottleJobOK(jobs[s]), NEW L
    PROVE  ThrottleMoved(jobs[s], Throttle!Losing(L, jobs)[s], L) /\ Throttle!Losing(L, jobs)[s].phase = jobs[s].phase
<1> DEFINE i == jobs[s]
           j == Throttle!Losing(L, jobs)[s]
           r == [i EXCEPT !.lost = @ \cup (L \cap (DOMAIN i.copy \ i.own))]
<1>1. CASE ThrottleOpen(i)
  <2>1. j = r
    BY <1>1 DEF Throttle!Losing, ThrottleOpen
  <2>2. ThrottleRecording(i)
    BY <1>1 DEF ThrottleJobOK, ThrottleOpen, Throttle!Idle
  <2>3. /\ DOMAIN r = {"phase", "user", "todo", "copy", "new", "own", "lost"}
        /\ r.phase = i.phase /\ r.user = i.user /\ r.todo = i.todo /\ r.copy = i.copy /\ r.new = i.new
        /\ r.own = i.own /\ r.lost = i.lost \cup (L \cap (DOMAIN i.copy \ i.own))
    BY <2>2 DEF ThrottleRecording
  <2> HIDE DEF i, j, r
  <2>4. ThrottleRecording(r)
    BY <2>2, <2>3 DEF ThrottleRecording
  <2>5. ThrottleMoved(i, j, L) /\ j.phase = i.phase
    BY <1>1, <2>1, <2>3, <2>4 DEF ThrottleMoved
  <2> QED
    BY <2>5 DEF i, j
<1>2. CASE ~ThrottleOpen(i)
  <2>1. j = i
    BY <1>2 DEF Throttle!Losing, ThrottleOpen
  <2> QED
    BY <1>2, <2>1 DEF ThrottleMoved
<1> QED
  BY <1>1, <1>2

LEMMA ThrottleWokenMoves ==
    ASSUME NEW jobs, NEW s \in Threads, NEW i, NEW L, ThrottleJobOK(i), ThrottleMoved(i, jobs[s], L),
           jobs[s].phase = i.phase, NEW K, NEW p \in {"record", "beaten"}
    PROVE  ThrottleMoved(i, Throttle!Woken(K, p, jobs)[s], L)
<1> DEFINE j == jobs[s]
           w == Throttle!Woken(K, p, jobs)[s]
           r == [j EXCEPT !.phase = p]
<1>1. CASE j.phase = "wait" /\ Throttle!NextLayer(j) \in K
  <2>1. w = r
    BY <1>1 DEF Throttle!Woken
  <2>2. ThrottleOpen(i) /\ i.phase = "wait"
    BY <1>1 DEF ThrottleOpen
  <2>3. ThrottleRecording(j)
    BY <2>2 DEF ThrottleMoved
  <2>4. /\ DOMAIN r = {"phase", "user", "todo", "copy", "new", "own", "lost"}
        /\ r.phase = p /\ r.user = j.user /\ r.todo = j.todo /\ r.copy = j.copy /\ r.new = j.new
        /\ r.own = j.own /\ r.lost = j.lost
    BY <2>3 DEF ThrottleRecording
  <2>5. ThrottleMoved(i, j, L) /\ j.phase = "wait"
    BY <1>1
  <2> HIDE DEF j, w, r
  <2>6. ThrottleRecording(r)
    BY <2>3, <2>4, <2>5 DEF ThrottleRecording
  <2>7. ThrottleMoved(i, w, L)
    BY <2>1, <2>2, <2>4, <2>5, <2>6 DEF ThrottleMoved
  <2> QED
    BY <2>7 DEF w
<1>2. CASE ~(j.phase = "wait" /\ Throttle!NextLayer(j) \in K)
  <2>1. w = j
    BY <1>2 DEF Throttle!Woken
  <2> QED
    BY <2>1
<1> QED
  BY <1>1, <1>2

\* A request ends: it changes rows of its own layers, and others' rows only by
\* deleting them, which those who read them will notice.
LEMMA ThrottleEndStep ==
    ASSUME ThrottleConstantsOK, ThrottleIInv, NEW t \in Threads, Throttle!Busy(t), NEW L,
           gJob' = [s \in Threads |-> gJob'[s]], gJob'[t] = Throttle!Idle,
           \A s \in Threads \ {t} : ThrottleMoved(gJob[s], gJob'[s], L),
           gNow' = gNow, gBroken' \subseteq gUsers, gCrossed' \subseteq gCrossed,
           \A s \in Threads \ {t} : Throttle!Busy(s) => Throttle!Layers(gJob[s].user) \cap gCrossed \subseteq gCrossed',
           gRow' \in [Throttle!Keys -> Throttle!AttemptRows \cup {None}], gFails' \in [Throttle!Keys -> Nat],
           \A k \in Throttle!Keys : gRow[k] = None => gRow'[k] = None \/ (ThrottleOpen(gJob[t]) /\ k \in gJob[t].own),
           \A k \in Throttle!Keys : k \notin L /\ gRow[k] # None => gRow'[k] # None /\ gFails'[k] >= gFails[k],
           \A k \in Throttle!Keys \ Throttle!Layers(gJob[t].user) : gRow'[k] = gRow[k] \/ (gRow'[k] = None /\ k \in L),
           ThrottleNeverOver', ThrottleCleans'
    PROVE  ThrottleIInv'
<1>1. Throttle!Idle.phase = "idle" /\ ~Throttle!Busy(t)' /\ ~ThrottleOpen(gJob'[t]) /\ ThrottleJobOK(gJob'[t])
  BY DEF Throttle!Idle, Throttle!Busy, ThrottleOpen, ThrottleJobOK
<1>2. \A s \in Threads : ThrottleJobOK(gJob[s])
  BY DEF ThrottleIInv, ThrottleTInv
<1>3. \A s \in Threads \ {t} : /\ ThrottleJobOK(gJob'[s])
                               /\ Throttle!Busy(s)' <=> Throttle!Busy(s)
                               /\ Throttle!Busy(s) => gJob'[s].user = gJob[s].user /\ gJob[s].user \in gUsers
  <2> SUFFICES ASSUME NEW s \in Threads \ {t}
               PROVE  /\ ThrottleJobOK(gJob'[s])
                      /\ Throttle!Busy(s)' <=> Throttle!Busy(s)
                      /\ Throttle!Busy(s) => gJob'[s].user = gJob[s].user /\ gJob[s].user \in gUsers
    OBVIOUS
  <2>1. ThrottleMoved(gJob[s], gJob'[s], L) /\ ThrottleJobOK(gJob[s])
    BY <1>2
  <2>2. CASE ThrottleOpen(gJob[s])
    BY <2>1, <2>2 DEF ThrottleMoved, ThrottleJobOK, ThrottleRecording, Throttle!Busy, ThrottleOpen
  <2>3. CASE ~ThrottleOpen(gJob[s])
    BY <2>1, <2>3 DEF ThrottleMoved, ThrottleJobOK, ThrottleRecording, Throttle!Busy, Throttle!Idle
  <2> QED
    BY <2>2, <2>3
<1>4. ThrottleTInv'
  BY <1>1, <1>3 DEF ThrottleIInv, ThrottleTInv
<1>5. ThrottleApart'
  <2> SUFFICES ASSUME NEW s \in Threads, NEW r \in Threads, s # r, Throttle!Busy(s)', Throttle!Busy(r)',
                      Throttle!Layers(gJob'[s].user) \cap Throttle!Layers(gJob'[r].user) # {}
               PROVE  Throttle!Layers(gJob'[s].user) \subseteq gCrossed'
    BY DEF ThrottleApart
  <2>1. s # t /\ r # t
    BY <1>1
  <2>2. Throttle!Layers(gJob[s].user) \subseteq gCrossed
    BY <1>3, <2>1 DEF ThrottleIInv, ThrottleApart
  <2> QED
    BY <1>3, <2>1, <2>2
<1>6. ASSUME NEW s \in Threads, ThrottleOpen(gJob'[s])
      PROVE  /\ s # t /\ ThrottleOpen(gJob[s]) /\ ThrottleRecording(gJob[s])
             /\ gJob'[s].own = gJob[s].own /\ gJob'[s].copy = gJob[s].copy
             /\ gJob'[s].lost = gJob[s].lost \cup (L \cap (DOMAIN gJob[s].copy \ gJob[s].own))
  BY <1>1, <1>2, <1>6 DEF ThrottleMoved, ThrottleJobOK, ThrottleOpen, Throttle!Idle
<1>7. ThrottleInserts'
  <2>1. ASSUME NEW s \in Threads, NEW r \in Threads, s # r, ThrottleOpen(gJob'[s]), ThrottleOpen(gJob'[r])
        PROVE  gJob'[s].own \cap gJob'[r].own = {}
    BY <1>6, <2>1 DEF ThrottleIInv, ThrottleInserts
  <2>2. ASSUME NEW s \in Threads, ThrottleOpen(gJob'[s]), NEW k \in gJob'[s].own PROVE gRow'[k] = None
    <3>1. s # t /\ ThrottleOpen(gJob[s]) /\ ThrottleRecording(gJob[s]) /\ k \in gJob[s].own
      BY <1>6, <2>2
    <3>2. k \in Throttle!Keys /\ gRow[k] = None
      BY <3>1 DEF ThrottleIInv, ThrottleInserts, ThrottleRecording, Throttle!Layers, Throttle!Keys
    <3>3. ThrottleOpen(gJob[t]) => k \notin gJob[t].own
      BY <3>1 DEF ThrottleIInv, ThrottleInserts
    <3> QED
      BY <3>1, <3>2, <3>3
  <2> QED
    BY <2>1, <2>2 DEF ThrottleInserts
<1>8. ThrottleCopiesStand'
  <2> SUFFICES ASSUME NEW s \in Threads, ThrottleOpen(gJob'[s]), NEW k \in DOMAIN gJob'[s].copy \ gJob'[s].own,
                      k \notin gJob'[s].lost
               PROVE  gRow'[k] # None /\ gJob'[s].copy[k].count <= gFails'[k]
    BY DEF ThrottleCopiesStand
  <2>1. /\ s # t /\ ThrottleOpen(gJob[s]) /\ ThrottleRecording(gJob[s]) /\ gJob'[s].copy = gJob[s].copy
        /\ k \in DOMAIN gJob[s].copy \ gJob[s].own /\ k \notin gJob[s].lost /\ k \notin L
    BY <1>6
  <2>2. gRow[k] # None /\ gJob[s].copy[k].count <= gFails[k]
    BY <2>1 DEF ThrottleIInv, ThrottleCopiesStand
  <2>3. k \in Throttle!Keys /\ gJob[s].copy[k].count \in Nat
    BY <2>1 DEF ThrottleRecording, Throttle!Layers, Throttle!Keys, ThrottleCounters
  <2>4. gFails[k] \in Nat /\ gFails'[k] \in Nat
    BY <2>3 DEF ThrottleIInv, ThrottleTInv
  <2> QED
    BY <2>1, <2>2, <2>3, <2>4
<1>9. ThrottleLoners'
  <2> SUFFICES ASSUME NEW s \in Threads, Throttle!Busy(s)', NEW k \in Throttle!Layers(gJob'[s].user) \ gCrossed'
               PROVE  ThrottleAlone(gJob[s], k)'
    BY DEF ThrottleLoners
  <2>1. s # t /\ Throttle!Busy(s) /\ gJob'[s].user = gJob[s].user /\ k \in Throttle!Layers(gJob[s].user) /\ k \in Throttle!Keys /\ k \notin gCrossed
    <3>1. s # t
      BY <1>1
    <3> QED
      BY <1>3, <3>1 DEF Throttle!Layers, Throttle!Keys
  <2>2. ThrottleAlone(gJob[s], k)
    BY <2>1 DEF ThrottleIInv, ThrottleLoners
  <2>3. k \notin Throttle!Layers(gJob[t].user)
    BY <2>1 DEF ThrottleIInv, ThrottleApart
  <2>4. gRow'[k] = gRow[k] \/ (gRow'[k] = None /\ k \in L)
    BY <2>1, <2>3
  <2>5. (~Throttle!Locked(k, gNow))'
    BY <2>2, <2>4 DEF ThrottleAlone, Throttle!Locked
  <2>6. CASE gJob[s].phase = "verify"
    <3>1. gJob'[s] = gJob[s]
      BY <2>1, <2>6 DEF ThrottleMoved, ThrottleOpen
    <3> QED
      BY <2>5, <2>6, <3>1 DEF ThrottleAlone
  <2>7. CASE gJob[s].phase = "record"
    <3>1. /\ gJob'[s].phase = "record" /\ gJob'[s].todo = gJob[s].todo /\ gJob'[s].copy = gJob[s].copy
          /\ gJob'[s].new = gJob[s].new /\ gJob'[s].own = gJob[s].own
          /\ gJob'[s].lost = gJob[s].lost \cup (L \cap (DOMAIN gJob[s].copy \ gJob[s].own))
      BY <2>1, <2>7 DEF ThrottleMoved, ThrottleOpen
    <3>2. ASSUME k \notin gJob[s].todo
          PROVE  /\ k \in DOMAIN gJob[s].copy
                 /\ gJob[s].new[k] = Throttle!Bumped(k, gJob[s].copy[k])'
                 /\ \/ k \in gJob[s].own /\ gJob[s].copy[k] = Throttle!Fresh'
                    \/ k \notin gJob[s].own /\ k \in gJob'[s].lost
                    \/ k \notin gJob[s].own /\ gRow'[k] = gJob[s].copy[k]
      BY <2>2, <2>4, <2>7, <3>1, <3>2 DEF ThrottleAlone, Throttle!Bumped, Throttle!Fresh
    <3> QED
      BY <2>5, <3>1, <3>2 DEF ThrottleAlone
  <2> QED
    BY <2>2, <2>6, <2>7 DEF ThrottleAlone
<1> QED
  BY <1>4, <1>5, <1>7, <1>8, <1>9 DEF ThrottleIInv

LEMMA ThrottleRightStep ==
    ASSUME ThrottleConstantsOK, ThrottleIInv, NEW t \in Threads, Throttle!Right(t) PROVE ThrottleIInv'
<1> DEFINE u == gJob[t].user
           jobs == [gJob EXCEPT ![t] = Throttle!Idle]
<1>1. /\ gJob[t].phase = "verify" /\ gRow' = [gRow EXCEPT ![u] = None] /\ gFails' = [gFails EXCEPT ![u] = 0]
      /\ gJob' = Throttle!Losing({u}, jobs) /\ gNow' = gNow /\ gBroken' = gBroken
      /\ gCrossed' = IF \E s \in Threads \ {t} : Throttle!Busy(s) /\ gJob[s].user = u THEN gCrossed ELSE gCrossed \ {u}
  BY DEF Throttle!Right
<1>2. u \in gUsers /\ u # gAddress /\ u \in Throttle!Keys /\ u \in Throttle!Layers(u) /\ Throttle!Busy(t) /\ ~ThrottleOpen(gJob[t])
  BY <1>1 DEF ThrottleIInv, ThrottleTInv, ThrottleJobOK, ThrottleRecording, Throttle!Idle,
     Throttle!Busy, ThrottleOpen, Throttle!Keys, Throttle!Layers, ThrottleConstantsOK
<1>3. jobs[t] = Throttle!Idle /\ \A s \in Threads \ {t} : jobs[s] = gJob[s]
  BY DEF ThrottleIInv, ThrottleTInv
<1>4. \A s \in Threads : ThrottleJobOK(gJob[s])
  BY DEF ThrottleIInv, ThrottleTInv
<1> HIDE DEF jobs
<1>5. \A s \in Threads \ {t} : ThrottleMoved(gJob[s], gJob'[s], {u})
  BY <1>1, <1>3, <1>4, ThrottleLosingMoves
<1>6. gJob'[t] = Throttle!Idle /\ gJob' = [s \in Threads |-> gJob'[s]]
  BY <1>1, <1>3 DEF Throttle!Losing, Throttle!Idle
<1>7. gCrossed' \subseteq gCrossed
  BY <1>1
<1>8. ASSUME NEW s \in Threads \ {t}, Throttle!Busy(s) PROVE Throttle!Layers(gJob[s].user) \cap gCrossed \subseteq gCrossed'
  <2>1. CASE gJob[s].user = u
    BY <1>1, <1>8, <2>1
  <2>2. CASE gJob[s].user # u
    BY <1>1, <1>2, <2>2 DEF Throttle!Layers
  <2> QED
    BY <2>1, <2>2
<1>9. gRow' \in [Throttle!Keys -> Throttle!AttemptRows \cup {None}] /\ gFails' \in [Throttle!Keys -> Nat]
  BY <1>1 DEF ThrottleIInv, ThrottleTInv
<1>10. /\ gRow'[u] = None /\ gFails'[u] = 0
       /\ \A k \in Throttle!Keys \ {u} : gRow'[k] = gRow[k] /\ gFails'[k] = gFails[k]
  BY <1>1, <1>2 DEF ThrottleIInv, ThrottleTInv
<1>11. ThrottleNeverOver'
  BY <1>10 DEF ThrottleIInv, ThrottleNeverOver
<1>12. ThrottleCleans'
  <2> SUFFICES ASSUME NEW k \in Throttle!Keys \ gCrossed' PROVE ThrottleClean(k)'
    BY DEF ThrottleCleans
  <2>1. CASE k = u
    BY <1>10, <2>1 DEF ThrottleClean
  <2>2. CASE k # u
    <3>1. k \notin gCrossed
      BY <1>1, <2>2
    <3>2. ThrottleClean(k)
      BY <3>1 DEF ThrottleIInv, ThrottleCleans
    <3> QED
      BY <1>1, <1>10, <2>2, <3>2 DEF ThrottleClean
  <2> QED
    BY <2>1, <2>2
<1>13. \A k \in Throttle!Keys : gRow[k] = None => gRow'[k] = None
  BY <1>10
<1>14. \A k \in Throttle!Keys : k \notin {u} /\ gRow[k] # None => gRow'[k] # None /\ gFails'[k] >= gFails[k]
  BY <1>10 DEF ThrottleIInv, ThrottleTInv
<1>15. \A k \in Throttle!Keys \ Throttle!Layers(gJob[t].user) : gRow'[k] = gRow[k]
  BY <1>2, <1>10
<1>16. gBroken' \subseteq gUsers /\ gNow' = gNow
  BY <1>1 DEF ThrottleIInv, ThrottleTInv
<1> HIDE DEF u
<1> QED
  BY <1>2, <1>5, <1>6, <1>7, <1>8, <1>9, <1>11, <1>12, <1>13, <1>14, <1>15, <1>16, ThrottleEndStep

\* A recorded failure deletes only what is stale.
LEMMA ThrottleRecordStep ==
    ASSUME ThrottleConstantsOK, ThrottleIInv, NEW t \in Threads, Throttle!Record(t)
    PROVE  ThrottleIInv' /\ \A k \in Throttle!Keys : gRow[k] # None /\ ~Throttle!Stale(gRow[k]) => gRow'[k] # None
<1> DEFINE j == gJob[t]
           swept == {k \in Throttle!Keys : gRow[k] # None /\ Throttle!Stale(gRow[k])}
           missing == (DOMAIN j.new \ j.own) \cap (j.lost \cup swept)
           jobs == [gJob EXCEPT ![t] = Throttle!Idle]
<1>1. /\ j.phase = "record" /\ j.todo = {} /\ \A k \in Throttle!Layers(j.user) : gFails[k] < gMaxCount
      /\ gNow' = gNow /\ gCrossed' = gCrossed
  BY DEF Throttle!Record
<1>2. ThrottleRecording(j) /\ Throttle!Busy(t) /\ ThrottleOpen(j)
  BY <1>1 DEF ThrottleIInv, ThrottleTInv, ThrottleJobOK, Throttle!Idle, Throttle!Busy, ThrottleOpen
<1>3. jobs[t] = Throttle!Idle /\ \A s \in Threads \ {t} : jobs[s] = gJob[s] /\ ThrottleJobOK(gJob[s])
  BY DEF ThrottleIInv, ThrottleTInv
<1>4. Throttle!Idle.phase = "idle"
  BY DEF Throttle!Idle
<1>5. j.user \in gUsers /\ Throttle!Layers(j.user) \subseteq Throttle!Keys /\ DOMAIN j.new \subseteq Throttle!Layers(j.user)
      /\ DOMAIN j.new = DOMAIN j.copy /\ j.own \subseteq DOMAIN j.new
  BY <1>2 DEF ThrottleRecording, Throttle!Layers, Throttle!Keys
<1>6. CASE missing # {}
  <2>1. /\ gJob' = Throttle!Woken(j.own, "record", jobs) /\ gBroken' = gBroken \cup {j.user} /\ gRow' = gRow /\ gFails' = gFails
    BY <1>6 DEF Throttle!Record
  <2>2. gJob'[t] = Throttle!Idle /\ gJob' = [s \in Threads |-> gJob'[s]]
    BY <1>3, <1>4, <2>1 DEF Throttle!Woken
  <2>3. \A s \in Threads \ {t} : ThrottleMoved(gJob[s], jobs[s], {})
    BY <1>3 DEF ThrottleMoved, ThrottleJobOK, ThrottleOpen, Throttle!Idle
  <2> HIDE DEF jobs, j, missing, swept
  <2>4. \A s \in Threads \ {t} : ThrottleMoved(gJob[s], gJob'[s], {})
    BY <1>3, <2>1, <2>3, ThrottleWokenMoves
  <2>5. gRow' \in [Throttle!Keys -> Throttle!AttemptRows \cup {None}] /\ gFails' \in [Throttle!Keys -> Nat] /\ gBroken' \subseteq gUsers
    BY <1>5, <2>1 DEF ThrottleIInv, ThrottleTInv
  <2>6. ThrottleNeverOver' /\ ThrottleCleans'
    BY <1>1, <2>1 DEF ThrottleIInv, ThrottleNeverOver, ThrottleCleans, ThrottleClean
  <2>7. \A k \in Throttle!Keys : gFails[k] \in Nat
    BY DEF ThrottleIInv, ThrottleTInv
  <2>8. \A k \in Throttle!Keys : gRow[k] # None => gRow'[k] # None /\ gFails'[k] >= gFails[k]
    BY <2>1, <2>7
  <2>9. ThrottleIInv'
    BY <1>1, <1>2, <2>1, <2>2, <2>4, <2>5, <2>6, <2>8, ThrottleEndStep
  <2> QED
    BY <2>8, <2>9
<1>7. CASE missing = {}
  <2>1. /\ gRow' = [k \in Throttle!Keys |-> IF k \in j.own THEN j.new[k]
                   ELSE IF k \in DOMAIN j.new THEN Throttle!Merged(gRow[k], j.copy[k], j.new[k])
                   ELSE IF k \in swept THEN None ELSE gRow[k]]
        /\ gFails' = [k \in Throttle!Keys |->
                 (IF k \in swept THEN 0 ELSE gFails[k]) + (IF k \in Throttle!Layers(j.user) THEN 1 ELSE 0)]
        /\ gJob' = Throttle!Woken(j.own, "beaten", Throttle!Losing(swept, jobs)) /\ gBroken' = gBroken
    BY <1>7 DEF Throttle!Record
  <2>2. \A k \in DOMAIN j.new \ j.own : k \notin j.lost /\ k \notin swept
    BY <1>7
  <2>3. gJob'[t] = Throttle!Idle /\ gJob' = [s \in Threads |-> gJob'[s]]
    BY <1>3, <1>4, <2>1 DEF Throttle!Woken, Throttle!Losing
  <2>4. \A k \in Throttle!Keys : k \in swept <=> gRow[k] # None /\ Throttle!Stale(gRow[k])
    OBVIOUS
  <2>5. j = gJob[t]
    OBVIOUS
  <2> HIDE DEF jobs, j, missing, swept
  <2>6. \A s \in Threads \ {t} : ThrottleMoved(gJob[s], Throttle!Losing(swept, jobs)[s], swept)
                                 /\ Throttle!Losing(swept, jobs)[s].phase = gJob[s].phase
    BY <1>3, ThrottleLosingMoves
  <2>7. \A s \in Threads \ {t} : ThrottleMoved(gJob[s], gJob'[s], swept)
    BY <1>3, <2>1, <2>6, ThrottleWokenMoves
  <2>8. ASSUME NEW k \in Throttle!Keys
        PROVE  /\ k \in j.own => gRow'[k] = j.new[k] /\ gRow[k] = None /\ j.copy[k].count = 0
               /\ k \in DOMAIN j.new \ j.own =>
                    gRow'[k] = Throttle!Merged(gRow[k], j.copy[k], j.new[k]) /\ gRow[k] # None
                    /\ j.copy[k].count <= gFails[k]
               /\ k \in DOMAIN j.new =>
                    /\ j.copy[k] \in ThrottleCounters /\ j.new[k] \in ThrottleCounters
                    /\ j.new[k].count = j.copy[k].count + 1
                    /\ k \notin swept /\ k \in Throttle!Layers(j.user) /\ gFails'[k] = gFails[k] + 1
               /\ k \notin DOMAIN j.new =>
                    gRow'[k] = IF k \in swept THEN None ELSE gRow[k]
               /\ gFails'[k] = (IF k \in swept THEN 0 ELSE gFails[k]) + (IF k \in Throttle!Layers(j.user) THEN 1 ELSE 0)
    <3>1. k \in j.own => gRow[k] = None
      BY <1>2, <2>5 DEF ThrottleIInv, ThrottleInserts
    <3>2. k \in DOMAIN j.new \ j.own => gRow[k] # None /\ j.copy[k].count <= gFails[k]
      BY <1>2, <1>5, <2>2, <2>5 DEF ThrottleIInv, ThrottleCopiesStand
    <3>3. k \in DOMAIN j.new => j.copy[k] \in ThrottleCounters /\ j.new[k] \in ThrottleCounters
                                /\ j.new[k].count = j.copy[k].count + 1
                                /\ (k \in j.own => j.copy[k].count = 0)
      BY <1>2, <1>5 DEF ThrottleRecording
    <3>4. k \in DOMAIN j.new => k \notin swept
      BY <2>2, <2>4, <3>1
    <3>5. gFails'[k] = (IF k \in swept THEN 0 ELSE gFails[k]) + (IF k \in Throttle!Layers(j.user) THEN 1 ELSE 0)
      BY <2>1
    <3>6. gRow'[k] = IF k \in j.own THEN j.new[k]
                    ELSE IF k \in DOMAIN j.new THEN Throttle!Merged(gRow[k], j.copy[k], j.new[k])
                    ELSE IF k \in swept THEN None ELSE gRow[k]
      BY <2>1
    <3> QED
      BY <1>5, <3>1, <3>2, <3>3, <3>4, <3>5, <3>6
  <2>9. \A k \in Throttle!Keys : /\ gRow[k] \in Throttle!AttemptRows \cup {None} /\ gFails[k] \in Nat
                                 /\ gRow[k] # None => gRow[k].count <= gFails[k]
    BY DEF ThrottleIInv, ThrottleTInv, ThrottleNeverOver
  <2>10. ASSUME NEW k \in Throttle!Keys PROVE gFails'[k] \in Nat
    BY <2>8, <2>9
  <2>11. ASSUME NEW k \in DOMAIN j.new
         PROVE  gRow'[k] \in Throttle!AttemptRows /\ gRow'[k].count = j.copy[k].count + 1 /\ gRow'[k].count <= gFails'[k]
    <3>1. k \in Throttle!Keys /\ k \in Throttle!Layers(j.user) /\ gFails[k] < gMaxCount /\ gMaxCount \in Nat /\ gFails[k] \in Nat
      BY <1>1, <1>5, <2>9 DEF ThrottleConstantsOK
    <3>2. j.new[k].count \in 1 .. gMaxCount /\ j.new[k].count = j.copy[k].count + 1
          /\ j.new[k].count <= gFails'[k]
      <4>1. j.copy[k].count \in Nat /\ j.new[k].count = j.copy[k].count + 1 /\ gFails'[k] = gFails[k] + 1
        BY <2>8, <3>1 DEF ThrottleCounters
      <4>2. j.copy[k].count <= gFails[k]
        BY <2>8, <3>1
      <4> QED
        BY <3>1, <4>1, <4>2
    <3>3. CASE k \in j.own
      BY <2>8, <3>1, <3>2, <3>3 DEF ThrottleCounters, Throttle!AttemptRows
    <3>4. CASE k \notin j.own
      <4>1. gRow[k] \in Throttle!AttemptRows /\ gRow'[k] = Throttle!Merged(gRow[k], j.copy[k], j.new[k])
            /\ j.new[k] \in ThrottleCounters
        BY <2>8, <2>9, <3>1, <3>4
      <4>2. gRow'[k] = [count |-> j.new[k].count, first |-> gRow[k].first,
                       last |-> gRow'[k].last, until |-> gRow'[k].until]
            /\ gRow'[k].last \in {gRow[k].last, j.new[k].last}
            /\ gRow'[k].until \in {gRow[k].until, j.new[k].until}
        BY <4>1 DEF Throttle!Merged
      <4>3. gRow'[k].last \in 0 .. gMaxNow /\ gRow'[k].until \in {None} \cup 0 .. (gMaxNow + gMaxDelay)
            /\ gRow[k].first \in 0 .. gMaxNow
        BY <4>1, <4>2 DEF Throttle!AttemptRows, ThrottleCounters
      <4>4. gRow'[k] \in Throttle!AttemptRows /\ gRow'[k].count = j.new[k].count
        BY <3>2, <4>2, <4>3 DEF Throttle!AttemptRows
      <4> QED
        BY <3>2, <4>4
    <3> QED
      BY <3>3, <3>4
  <2>12. ASSUME NEW k \in Throttle!Keys PROVE gRow'[k] \in Throttle!AttemptRows \cup {None}
    BY <2>8, <2>9, <2>11
  <2>13. gRow' \in [Throttle!Keys -> Throttle!AttemptRows \cup {None}] /\ gFails' \in [Throttle!Keys -> Nat]
    BY <2>1, <2>10, <2>12
  <2>14. ThrottleNeverOver'
    <3> SUFFICES ASSUME NEW k \in Throttle!Keys, gRow'[k] # None PROVE gRow'[k].count <= gFails'[k]
      BY DEF ThrottleNeverOver
    <3>1. CASE k \in DOMAIN j.new
      BY <2>11, <3>1
    <3>2. CASE k \notin DOMAIN j.new
      <4>1. gRow'[k] = gRow[k] /\ k \notin swept /\ gRow[k] # None /\ gRow[k].count <= gFails[k] /\ gRow[k].count \in Nat
        BY <2>8, <2>9, <3>2 DEF Throttle!AttemptRows
      <4> QED
        BY <2>8, <2>9, <4>1
    <3> QED
      BY <3>1, <3>2
  <2>15. ThrottleCleans'
    <3> SUFFICES ASSUME NEW k \in Throttle!Keys \ gCrossed PROVE ThrottleClean(k)'
      BY <1>1 DEF ThrottleCleans
    <3>1. ThrottleClean(k)
      BY DEF ThrottleIInv, ThrottleCleans
    <3>2. CASE k \in Throttle!Layers(j.user)
      <4>1. ThrottleAlone(j, k)
        BY <1>2, <2>5, <3>2 DEF ThrottleIInv, ThrottleLoners
      <4>2. k \in DOMAIN j.new /\ j.new[k] = Throttle!Bumped(k, j.copy[k])
        BY <1>1, <1>5, <4>1 DEF ThrottleAlone
      <4>3. PICK c \in ThrottleCounters : c = j.copy[k]
        BY <2>8, <4>2
      <4>4. PICK d \in 0 .. gMaxDelay : d = Throttle!DurationOf(k, c.count + 1)
        BY ThrottleDurationIs DEF ThrottleCounters
      <4>5. PICK m \in Nat : m = c.count
        BY DEF ThrottleCounters
      <4>6. /\ j.new[k].count = m + 1 /\ j.new[k].first = c.first /\ j.new[k].last = gNow
            /\ j.new[k].until = (IF d = 0 THEN None ELSE gNow + d)
        BY <4>2, <4>3, <4>4, <4>5 DEF Throttle!Bumped
      <4>7. Throttle!Earned(k, m) \in Nat /\ m + 1 - 1 = m /\ gNow \in Nat
        BY ThrottleEarnedNext, <4>5 DEF ThrottleIInv, ThrottleTInv
      <4>8. CASE k \in j.own
        <5>1. gRow'[k] = j.new[k] /\ gRow[k] = None /\ m = 0 /\ gFails'[k] = gFails[k] + 1
          BY <2>8, <4>2, <4>3, <4>5, <4>8
        <5>2. c = Throttle!Fresh
          BY <4>1, <4>2, <4>3, <4>8, <1>1 DEF ThrottleAlone
        <5>3. c.first = gNow
          BY <5>2 DEF Throttle!Fresh
        <5>4. gFails[k] = 0
          BY <3>1, <5>1 DEF ThrottleClean
        <5>5. Throttle!Earned(k, 0) = 0
          BY ThrottleEarnedNothing
        <5>6. gRow'[k] # None
          BY <2>11, <4>2 DEF ThrottleConstantsOK
        <5>7. gRow'[k].count = 1 /\ gFails'[k] = 1 /\ gRow'[k].last = gNow /\ gRow'[k].first = gNow
              /\ gRow'[k].until = (IF Throttle!DurationOf(k, 1) = 0 THEN None ELSE gNow + Throttle!DurationOf(k, 1))
          BY <4>4, <4>5, <4>6, <5>1, <5>3, <5>4
        <5>8. gRow'[k].last - gRow'[k].first >= Throttle!Earned(k, gRow'[k].count - 1)
          BY <4>7, <5>1, <5>5, <5>7
        <5> QED
          BY <1>1, <4>7, <5>6, <5>7, <5>8 DEF ThrottleClean
      <4>9. CASE k \notin j.own
        <5>1. gRow'[k] = Throttle!Merged(gRow[k], j.copy[k], j.new[k]) /\ gRow[k] # None /\ gFails'[k] = gFails[k] + 1
          BY <2>8, <4>2, <4>9
        <5>2. gRow[k] = c
          BY <1>1, <1>5, <2>2, <4>1, <4>2, <4>3, <4>9 DEF ThrottleAlone
        <5>3. /\ c.count = gFails[k] /\ c.last <= gNow
              /\ c.until = (IF Throttle!DurationOf(k, c.count) = 0 THEN None ELSE c.last + Throttle!DurationOf(k, c.count))
              /\ c.last - c.first >= Throttle!Earned(k, c.count - 1)
          BY <3>1, <5>1, <5>2 DEF ThrottleClean
        <5>4. c.count \in 1 .. gMaxCount /\ c.first \in Int /\ c.last \in Int /\ c \in Throttle!AttemptRows /\ None # c
          BY <2>9, <5>1, <5>2 DEF Throttle!AttemptRows
        <5>5. PICK e \in 0 .. gMaxDelay : e = Throttle!DurationOf(k, m)
          BY ThrottleDurationIs, <4>5
        <5>6. m - 1 \in Nat /\ m - 1 + 1 = m
          BY <4>5, <5>4
        <5>7. Throttle!Earned(k, m) = Throttle!Earned(k, m - 1) + e /\ Throttle!Earned(k, m - 1) \in Nat
          BY ThrottleEarnedNext, <5>5, <5>6
        <5>8. c.last + e <= gNow
          <6>1. CASE e = 0
            BY <5>3, <5>4, <6>1, <4>7
          <6>2. CASE e # 0
            <7>1. c.until = c.last + e /\ c.last + e \in Int
              BY <4>5, <5>3, <5>4, <5>5, <6>2
            <7>2. ~(c.until > gNow)
              <8>1. ~Throttle!Locked(k, gNow)
                BY <4>1 DEF ThrottleAlone
              <8>2. c.until # None
                <9>1. c.last \in 0 .. gMaxNow /\ e \in 0 .. gMaxDelay
                  BY <5>4 DEF Throttle!AttemptRows
                <9>2. c.last + e \in 0 .. (gMaxNow + gMaxDelay)
                  BY <9>1 DEF ThrottleConstantsOK
                <9> QED
                  BY <7>1, <9>2 DEF ThrottleConstantsOK
              <8> QED
                BY <5>1, <5>2, <8>1, <8>2 DEF Throttle!Locked
            <7> QED
              BY <7>1, <7>2, <4>7
          <6> QED
            BY <6>1, <6>2
        <5>9. /\ gRow'[k].count = m + 1 /\ gRow'[k].first = c.first
              /\ gRow'[k].last = gNow /\ gRow'[k].until = (IF d = 0 THEN None ELSE gNow + d)
          BY <4>3, <4>6, <5>1, <5>2 DEF Throttle!Merged
        <5>10. gRow'[k].last - gRow'[k].first >= Throttle!Earned(k, gRow'[k].count - 1)
          <6>1. gNow - c.first >= Throttle!Earned(k, m)
            BY <4>5, <4>7, <5>3, <5>4, <5>5, <5>7, <5>8
          <6> QED
            BY <4>7, <5>9, <6>1
        <5>11. gFails'[k] = m + 1 /\ gRow'[k] # None
          BY <2>11, <4>2, <4>5, <5>1, <5>3 DEF ThrottleConstantsOK
        <5> QED
          BY <1>1, <4>4, <4>5, <4>7, <5>9, <5>10, <5>11 DEF ThrottleClean
      <4> QED
        BY <4>8, <4>9
    <3>3. CASE k \notin Throttle!Layers(j.user)
      <4>1. /\ gRow'[k] = IF k \in swept THEN None ELSE gRow[k]
            /\ gFails'[k] = (IF k \in swept THEN 0 ELSE gFails[k]) + 0
        BY <1>5, <2>8, <3>3
      <4>2. gFails[k] \in Nat
        BY <2>9
      <4>3. CASE k \in swept
        BY <4>1, <4>3 DEF ThrottleClean
      <4>4. CASE k \notin swept
        <5>1. gRow'[k] = gRow[k] /\ gFails'[k] = gFails[k]
          BY <4>1, <4>2, <4>4
        <5> QED
          BY <1>1, <3>1, <5>1 DEF ThrottleClean
      <4> QED
        BY <4>3, <4>4
    <3> QED
      BY <3>2, <3>3
  <2>16. \A k \in Throttle!Keys : gRow[k] = None => gRow'[k] = None \/ (ThrottleOpen(gJob[t]) /\ k \in gJob[t].own)
    BY <1>2, <2>4, <2>5, <2>8
  <2>17. ASSUME NEW k \in Throttle!Keys, k \notin swept, gRow[k] # None PROVE gRow'[k] # None /\ gFails'[k] >= gFails[k]
    <3>1. gFails'[k] >= gFails[k]
      BY <2>8, <2>9, <2>17
    <3>2. CASE k \in DOMAIN j.new
      BY <2>11, <3>1, <3>2 DEF ThrottleConstantsOK
    <3>3. CASE k \notin DOMAIN j.new
      BY <2>8, <2>17, <3>1, <3>3
    <3> QED
      BY <3>2, <3>3
  <2>18. \A k \in Throttle!Keys \ Throttle!Layers(gJob[t].user) : gRow'[k] = gRow[k] \/ (gRow'[k] = None /\ k \in swept)
    BY <1>5, <2>5, <2>8
  <2>19. gBroken' \subseteq gUsers
    BY <2>1 DEF ThrottleIInv, ThrottleTInv
  <2>20. ThrottleIInv'
    BY <1>1, <1>2, <2>3, <2>7, <2>13, <2>14, <2>15, <2>16, <2>17, <2>18, <2>19, ThrottleEndStep
  <2> QED
    BY <2>4, <2>17, <2>20
<1> QED
  BY <1>6, <1>7

LEMMA ThrottleNextStep ==
    ASSUME ThrottleConstantsOK, ThrottleIInv, [Throttle!Next]_Throttle!vars PROVE ThrottleIInv'
<1>1. CASE Throttle!Tick
  BY <1>1, ThrottleTickStep
<1>2. CASE \E t \in Threads : Throttle!Check(t) \/ Throttle!Right(t) \/ Throttle!Wrong(t) \/ Throttle!Bump(t) \/ Throttle!Conflict(t) \/ Throttle!Record(t)
  BY <1>2, ThrottleCheckStep, ThrottleRightStep, ThrottleWrongStep, ThrottleBumpStep,
     ThrottleConflictStep, ThrottleRecordStep
<1>3. CASE UNCHANGED Throttle!vars
  <2>1. ThrottleTInv' /\ ThrottleApart' /\ ThrottleInserts' /\ ThrottleCopiesStand'
    BY <1>3 DEF Throttle!vars, ThrottleIInv, ThrottleTInv, ThrottleApart, ThrottleInserts,
       ThrottleCopiesStand, Throttle!Busy
  <2>2. ThrottleNeverOver' /\ ThrottleCleans' /\ ThrottleLoners'
    BY <1>3 DEF Throttle!vars, ThrottleIInv, ThrottleNeverOver, ThrottleCleans, ThrottleLoners,
       ThrottleClean, ThrottleAlone, Throttle!Locked, Throttle!Bumped, Throttle!Fresh, Throttle!Busy
  <2> QED
    BY <2>1, <2>2 DEF ThrottleIInv
<1> QED
  BY <1>1, <1>2, <1>3 DEF Throttle!Next

LEMMA ThrottleInvariant == ThrottleConstantsOK => (Throttle!Spec => []ThrottleIInv)
<1> SUFFICES ASSUME ThrottleConstantsOK PROVE Throttle!Spec => []ThrottleIInv
  OBVIOUS
<1>1. Throttle!Init => ThrottleIInv
  BY ThrottleInitIInv
<1>2. ThrottleIInv /\ [Throttle!Next]_Throttle!vars => ThrottleIInv'
  BY ThrottleNextStep
<1> QED
  BY <1>1, <1>2, PTL DEF Throttle!Spec

\* Every handler of the sign-in route leaves counters and clocks in their types: TypeOK.
THEOREM ThrottleTypeCorrect == ThrottleConstantsOK => (Throttle!Spec => []Throttle!TypeOK)
<1>1. ThrottleIInv => Throttle!TypeOK
  BY DEF ThrottleIInv, ThrottleTInv, Throttle!TypeOK
<1> QED
  BY <1>1, ThrottleInvariant, PTL

\* A failure is counted once, whatever sign-ins overlap, and every failure of a
\* key without overlaps is counted (record_failure, _bump, sweep).
THEOREM ThrottleFailuresAreCounted == ThrottleConstantsOK => (Throttle!Spec => []Throttle!CountsFailures)
<1>1. ThrottleIInv => Throttle!CountsFailures
  BY DEF ThrottleIInv, ThrottleNeverOver, ThrottleCleans, ThrottleClean, Throttle!CountsFailures
<1> QED
  BY <1>1, ThrottleInvariant, PTL

\* n failures in a row take at least the delays that the first n - 1 earned (lock_duration).
THEOREM ThrottleDelaysAreServed == ThrottleConstantsOK => (Throttle!Spec => []Throttle!BackoffHolds)
<1>1. ThrottleIInv => Throttle!BackoffHolds
  BY DEF ThrottleIInv, ThrottleCleans, ThrottleClean, Throttle!BackoffHolds
<1> QED
  BY <1>1, ThrottleInvariant, PTL

\* The sweep that runs in record_failure lifts no lock that still runs.
THEOREM ThrottleLocksOutliveSweeps == ThrottleConstantsOK => (Throttle!Spec => Throttle!SweepKeepsLocks)
<1> SUFFICES ASSUME ThrottleConstantsOK PROVE Throttle!Spec => Throttle!SweepKeepsLocks
  OBVIOUS
<1> DEFINE A == \A t \in Threads : Throttle!Record(t) =>
                   \A k \in Throttle!Keys \ gCrossed : Throttle!Locked(k, gNow) => gRow'[k] # None
<1>1. ASSUME ThrottleIInv, [Throttle!Next]_Throttle!vars PROVE A
  <2> SUFFICES ASSUME NEW t \in Threads, Throttle!Record(t), NEW k \in Throttle!Keys \ gCrossed, Throttle!Locked(k, gNow)
               PROVE  gRow'[k] # None
    OBVIOUS
  <2>1. gRow[k] # None /\ gRow[k].until # None /\ gRow[k].until > gNow /\ gRow[k] \in Throttle!AttemptRows
    BY <1>1 DEF Throttle!Locked, ThrottleIInv, ThrottleTInv
  <2>2. ~Throttle!Stale(gRow[k])
    <3>1. ThrottleClean(k)
      BY <1>1 DEF ThrottleIInv, ThrottleCleans
    <3>2. gRow[k].count \in Int /\ gRow[k].last \in Int /\ gNow \in Int
      BY <1>1, <2>1 DEF Throttle!AttemptRows, ThrottleIInv, ThrottleTInv
    <3>3. PICK d \in 0 .. gMaxDelay : d = Throttle!DurationOf(k, gRow[k].count)
      BY <3>2, ThrottleDurationIs
    <3>4. gRow[k].until = gRow[k].last + d
      BY <2>1, <3>1, <3>3 DEF ThrottleClean
    <3> QED
      BY <2>1, <3>2, <3>3, <3>4 DEF Throttle!Stale, ThrottleConstantsOK
  <2> QED
    BY <1>1, <2>1, <2>2, ThrottleRecordStep
<1>2. ThrottleIInv /\ [Throttle!Next]_Throttle!vars => [A]_Throttle!vars
  BY <1>1
<1> QED
  BY <1>2, ThrottleInvariant, PTL DEF Throttle!Spec, Throttle!SweepKeepsLocks

-----------------------------------------------------------------------------
(* The request limiter.  Its bucket forgets only what no window can count  *)
(* again (Remembers), so the window is never over its cap, and whoever waits *)
(* finds his oldest request out of the window (Waits).                     *)

LimiterTInv ==
    /\ wNow \in 0 .. wMaxNow /\ wLastSweep \in 0 .. wMaxNow
    /\ wBucket \in [wCallers -> SUBSET Limiter!Grants]
    /\ wGranted \in [wCallers -> SUBSET Limiter!Grants]
    /\ wPromise \in [wCallers -> 0 .. (wMaxNow + wWindow + wSecond)]
    /\ \A c \in wCallers : Limiter!IsFiniteSet(wGranted[c]) /\ wBucket[c] \subseteq wGranted[c]
    /\ \A c \in wCallers : \A x \in wGranted[c] : x.at <= wNow /\ x.n < Limiter!Cardinality(wGranted[c])
    /\ \A c \in wCallers : Limiter!Cardinality(wBucket[c]) <= wMaxRequests

\* What was granted and is still in the window is in the bucket.
LimiterRemembers == \A c \in wCallers : Limiter!InWindow(wGranted[c], wNow) \subseteq wBucket[c]

\* Somebody told to come back waits for a request of his to leave a full window.
LimiterWaits ==
    \A c \in wCallers : wPromise[c] # 0 =>
        \E x \in wGranted[c] : /\ x.at + wWindow <= wPromise[c]
                               /\ Limiter!Cardinality(Limiter!InWindow(wGranted[c], wNow) \ {x}) < wMaxRequests

LimiterIInv == LimiterTInv /\ LimiterRemembers /\ Limiter!CapHolds /\ LimiterWaits

\* A set of the Limiter instance is finite, and as large, as elsewhere.
LEMMA LimiterSizes ==
    ASSUME NEW S
    PROVE  /\ Limiter!IsFiniteSet(S) <=> IsFiniteSet(S)
           /\ Limiter!Cardinality(S) = Cardinality(S)
  BY DEF Limiter!IsFiniteSet, IsFiniteSet, Limiter!Cardinality, Cardinality

-----------------------------------------------------------------------------
LEMMA LimiterLeastIsOne == ASSUME NEW S \in SUBSET Nat, S # {} PROVE Limiter!Min(S) \in S
<1>1. PICK R : R = OpToRel(<, Nat) /\ IsWellFoundedOn(R, Nat)
  BY NatLessThanWellFounded, Zenon
<1>2. ASSUME NEW y \in Nat, NEW x \in Nat, <<y, x>> \notin R PROVE x <= y
  <2>1. <<y, x>> \in Nat \X Nat
    OBVIOUS
  <2>2. ~(y < x)
    BY <1>1, <1>2, <2>1, Zenon DEF OpToRel
  <2> QED
    BY <2>2
<1>3. PICK x \in S : \A y \in S : ~(<<y, x>> \in R)
  <2>1. S \subseteq Nat
    OBVIOUS
  <2> QED
    BY <1>1, <2>1, WFMin, Zenon
<1>4. \A y \in S : x <= y
  BY <1>2, <1>3
<1> QED
  BY <1>4 DEF Limiter!Min

\* The cardinality of a subset, and of a set with one element more.
LEMMA LimiterFewerCount ==
    ASSUME NEW S, Limiter!IsFiniteSet(S), NEW T, T \subseteq S
    PROVE  /\ Limiter!IsFiniteSet(T) /\ Limiter!Cardinality(T) <= Limiter!Cardinality(S)
           /\ Limiter!Cardinality(T) \in Nat /\ Limiter!Cardinality(S) \in Nat
<1>1. Limiter!IsFiniteSet(T) /\ Limiter!Cardinality(T) <= Limiter!Cardinality(S)
  BY FS_Subset, LimiterSizes
<1> QED
  BY <1>1, FS_CardinalityType, LimiterSizes

LEMMA LimiterOneMore ==
    ASSUME NEW S, Limiter!IsFiniteSet(S), NEW x
    PROVE  /\ Limiter!IsFiniteSet(S \cup {x}) /\ Limiter!Cardinality(S \cup {x}) \in Nat
           /\ Limiter!Cardinality(S \cup {x}) <= Limiter!Cardinality(S) + 1
           /\ x \notin S => Limiter!Cardinality(S \cup {x}) = Limiter!Cardinality(S) + 1
<1>1. /\ Limiter!IsFiniteSet(S \cup {x})
      /\ Limiter!Cardinality(S \cup {x}) = IF x \in S THEN Limiter!Cardinality(S) ELSE Limiter!Cardinality(S) + 1
  BY FS_AddElement, LimiterSizes
<1>2. Limiter!Cardinality(S) \in Nat /\ Limiter!Cardinality(S \cup {x}) \in Nat
  BY <1>1, FS_CardinalityType, LimiterSizes
<1> QED
  BY <1>1, <1>2

\* Retry-After rounds up: it is as long as the wait, and less than a second longer.
LEMMA LimiterRoundsUp ==
    ASSUME LimiterConstantsOK, NEW oldest \in 0 .. wNow, wNow \in 0 .. wMaxNow, oldest > wNow - wWindow
    PROVE  /\ Limiter!RetryAfter(oldest) \in Nat \ {0}
           /\ wSecond * Limiter!RetryAfter(oldest) >= oldest + wWindow - wNow
           /\ wSecond * Limiter!RetryAfter(oldest) <= wWindow + wSecond
           /\ wSecond * Limiter!RetryAfter(oldest) \in Nat
<1> DEFINE a == oldest + wWindow - wNow
           wait == (a + wSecond - 1) \div wSecond
<1>1. a \in Nat \ {0} /\ a <= wWindow /\ wSecond \in Nat \ {0} /\ a + wSecond - 1 \in Nat
  BY DEF LimiterConstantsOK
<1>2. \A n \in Nat : \A s \in Nat \ {0} :
         /\ n \div s \in Nat /\ s * (n \div s) \in Nat
         /\ s * (n \div s) <= n /\ n < s * (n \div s) + s
  OBVIOUS
<1>3. /\ wait \in Nat /\ wSecond * wait \in Nat
      /\ wSecond * wait <= a + wSecond - 1 /\ a + wSecond - 1 < wSecond * wait + wSecond
  BY <1>1, <1>2
<1>4. wait >= 1
  <2>1. CASE wait = 0
    <3>1. wSecond * wait = 0
      BY <1>1, <2>1
    <3> QED
      BY <1>1, <1>3, <3>1
  <2> QED
    BY <1>3, <2>1
<1>5. Limiter!RetryAfter(oldest) = wait
  BY <1>3, <1>4 DEF Limiter!RetryAfter
<1> HIDE DEF wait
<1>6. PICK p : p = wSecond * wait
  OBVIOUS
<1>7. p \in Nat /\ p >= a /\ p <= wWindow + wSecond
  <2>1. p \in Nat /\ p <= a + wSecond - 1 /\ a + wSecond - 1 < p + wSecond
    BY <1>3, <1>6, Zenon
  <2> HIDE DEF a
  <2> QED
    BY <1>1, <2>1 DEF LimiterConstantsOK
<1> QED
  BY <1>3, <1>4, <1>5, <1>6, <1>7

-----------------------------------------------------------------------------
LEMMA LimiterInitIInv == ASSUME LimiterConstantsOK, Limiter!Init PROVE LimiterIInv
<1>1. \A c \in wCallers : wGranted[c] = {} /\ wBucket[c] = {} /\ wPromise[c] = 0
  BY DEF Limiter!Init
<1>2. Limiter!Cardinality({}) = 0 /\ Limiter!IsFiniteSet({})
  BY FS_EmptySet, LimiterSizes
<1>3. LimiterTInv
  BY <1>1, <1>2 DEF LimiterConstantsOK, Limiter!Init, LimiterTInv
<1>4. LimiterRemembers /\ LimiterWaits
  BY <1>1 DEF LimiterRemembers, LimiterWaits, Limiter!InWindow
<1>5. Limiter!CapHolds
  <2> SUFFICES ASSUME NEW c \in wCallers, NEW end \in 0 .. wNow
               PROVE  Limiter!Cardinality({x \in wGranted[c] : end - wWindow < x.at /\ x.at <= end})
                        <= wMaxRequests
    BY DEF Limiter!CapHolds
  <2>1. {x \in wGranted[c] : end - wWindow < x.at /\ x.at <= end} = {}
    BY <1>1
  <2>2. 0 <= wMaxRequests
    BY DEF LimiterConstantsOK
  <2>3. Limiter!Cardinality({x \in wGranted[c] : end - wWindow < x.at /\ x.at <= end}) = 0
    BY <1>2, <2>1
  <2> QED
    BY <2>2, <2>3
<1> QED
  BY <1>3, <1>4, <1>5 DEF LimiterIInv

LEMMA LimiterTickStep == ASSUME LimiterConstantsOK, LimiterIInv, Limiter!Tick PROVE LimiterIInv'
<1>1. wNow' = wNow + 1 /\ wNow < wMaxNow /\ UNCHANGED <<wBucket, wLastSweep, wGranted, wPromise>>
  BY DEF Limiter!Tick
<1>2. LimiterTInv'
  BY <1>1 DEF LimiterConstantsOK, LimiterIInv, LimiterTInv, Limiter!Grants
<1>3. \A c \in wCallers : Limiter!InWindow(wGranted[c], wNow') \subseteq Limiter!InWindow(wGranted[c], wNow)
  BY <1>1 DEF LimiterConstantsOK, LimiterIInv, LimiterTInv, Limiter!InWindow, Limiter!Grants
<1>4. LimiterRemembers'
  BY <1>1, <1>3 DEF LimiterIInv, LimiterRemembers, Limiter!InWindow
<1>5. Limiter!CapHolds'
  <2> SUFFICES ASSUME NEW c \in wCallers, NEW end \in 0 .. wNow'
               PROVE  Limiter!Cardinality({x \in wGranted[c] : end - wWindow < x.at /\ x.at <= end})
                        <= wMaxRequests
    BY <1>1 DEF Limiter!CapHolds
  <2> DEFINE W(e) == {x \in wGranted[c] : e - wWindow < x.at /\ x.at <= e}
  <2>1. CASE end \in 0 .. wNow
    BY <2>1 DEF LimiterIInv, Limiter!CapHolds
  <2>2. CASE end = wNow + 1
    <3>1. W(end) \subseteq W(wNow)
      BY <2>2 DEF LimiterConstantsOK, LimiterIInv, LimiterTInv, Limiter!Grants
    <3>2. W(wNow) \subseteq wGranted[c]
      OBVIOUS
    <3>3. Limiter!IsFiniteSet(W(wNow)) /\ Limiter!Cardinality(W(wNow)) <= wMaxRequests
      BY <3>2, LimiterFewerCount DEF LimiterIInv, LimiterTInv, Limiter!CapHolds, LimiterConstantsOK
    <3>4. /\ Limiter!Cardinality(W(end)) <= Limiter!Cardinality(W(wNow))
          /\ Limiter!Cardinality(W(wNow)) \in Nat /\ Limiter!Cardinality(W(end)) \in Nat
      BY <3>1, <3>3, LimiterFewerCount
    <3> QED
      BY <3>3, <3>4 DEF LimiterConstantsOK
  <2> QED
    BY <1>1, <2>1, <2>2 DEF LimiterIInv, LimiterTInv
<1>6. LimiterWaits'
  <2> SUFFICES ASSUME NEW c \in wCallers, wPromise[c] # 0
               PROVE  \E x \in wGranted[c] :
                        /\ x.at + wWindow <= wPromise[c]
                        /\ Limiter!Cardinality(Limiter!InWindow(wGranted[c], wNow') \ {x}) < wMaxRequests
    BY <1>1 DEF LimiterWaits, Limiter!InWindow
  <2>1. PICK x \in wGranted[c] :
          /\ x.at + wWindow <= wPromise[c]
          /\ Limiter!Cardinality(Limiter!InWindow(wGranted[c], wNow) \ {x}) < wMaxRequests
    BY DEF LimiterIInv, LimiterWaits
  <2>2. Limiter!InWindow(wGranted[c], wNow) \ {x} \subseteq wGranted[c] /\ Limiter!IsFiniteSet(wGranted[c])
    BY DEF Limiter!InWindow, LimiterIInv, LimiterTInv
  <2>3. Limiter!IsFiniteSet(Limiter!InWindow(wGranted[c], wNow) \ {x})
    BY <2>2, LimiterFewerCount
  <2>4. Limiter!InWindow(wGranted[c], wNow') \ {x} \subseteq Limiter!InWindow(wGranted[c], wNow) \ {x}
    BY <1>3
  <2>5. /\ Limiter!Cardinality(Limiter!InWindow(wGranted[c], wNow') \ {x})
             <= Limiter!Cardinality(Limiter!InWindow(wGranted[c], wNow) \ {x})
        /\ Limiter!Cardinality(Limiter!InWindow(wGranted[c], wNow') \ {x}) \in Nat
        /\ Limiter!Cardinality(Limiter!InWindow(wGranted[c], wNow) \ {x}) \in Nat
    BY <2>3, <2>4, LimiterFewerCount
  <2>6. Limiter!Cardinality(Limiter!InWindow(wGranted[c], wNow') \ {x}) < wMaxRequests
    BY <2>1, <2>5 DEF LimiterConstantsOK
  <2> QED
    BY <2>1, <2>6
<1> QED
  BY <1>2, <1>4, <1>5, <1>6 DEF LimiterIInv

\* The pruned bucket of a caller is what the window lets it count.
LEMMA LimiterKeptIs ==
    ASSUME LimiterConstantsOK, LimiterIInv, NEW c \in wCallers
    PROVE  /\ Limiter!Kept(c) \subseteq wBucket[c]
           /\ Limiter!InWindow(Limiter!Kept(c), wNow) = Limiter!InWindow(wGranted[c], wNow)
<1>1. Limiter!InWindow(wGranted[c], wNow) \subseteq wBucket[c] /\ wBucket[c] \subseteq wGranted[c]
  BY DEF LimiterIInv, LimiterRemembers, LimiterTInv
<1>2. CASE Limiter!Sweeps /\ Limiter!InWindow(wBucket[c], wNow) = {}
  BY <1>1, <1>2 DEF Limiter!Kept, Limiter!InWindow
<1>3. CASE ~(Limiter!Sweeps /\ Limiter!InWindow(wBucket[c], wNow) = {})
  BY <1>1, <1>3 DEF Limiter!Kept, Limiter!InWindow
<1> QED
  BY <1>2, <1>3

\* The window that ends now.
LEMMA LimiterThisWindow ==
    ASSUME LimiterConstantsOK, LimiterIInv, NEW c \in wCallers
    PROVE  /\ Limiter!InWindow(wGranted[c], wNow)
                = {x \in wGranted[c] : wNow - wWindow < x.at /\ x.at <= wNow}
           /\ Limiter!IsFiniteSet(Limiter!InWindow(wGranted[c], wNow))
           /\ Limiter!Cardinality(Limiter!InWindow(wGranted[c], wNow)) \in Nat
           /\ Limiter!Cardinality(Limiter!InWindow(wGranted[c], wNow)) <= wMaxRequests
<1>1. Limiter!InWindow(wGranted[c], wNow) = {x \in wGranted[c] : wNow - wWindow < x.at /\ x.at <= wNow}
  BY DEF Limiter!InWindow, LimiterIInv, LimiterTInv, Limiter!Grants, LimiterConstantsOK
<1>2. wNow \in 0 .. wNow
  BY DEF LimiterIInv, LimiterTInv, LimiterConstantsOK
<1>3. Limiter!Cardinality(Limiter!InWindow(wGranted[c], wNow)) <= wMaxRequests
  BY <1>1, <1>2 DEF LimiterIInv, Limiter!CapHolds
<1>4. Limiter!InWindow(wGranted[c], wNow) \subseteq wGranted[c] /\ Limiter!IsFiniteSet(wGranted[c])
  BY DEF Limiter!InWindow, LimiterIInv, LimiterTInv
<1> QED
  BY <1>1, <1>3, <1>4, LimiterFewerCount

LEMMA LimiterRefuseStep ==
    ASSUME LimiterConstantsOK, LimiterIInv, NEW c \in wCallers, Limiter!Request(c),
           Limiter!OverLimit(Limiter!Cardinality(Limiter!InWindow(Limiter!Kept(c), wNow)))
    PROVE  LimiterIInv'
<1> DEFINE seen == Limiter!InWindow(wGranted[c], wNow)
           back == IF seen # {} THEN wNow + wSecond * Limiter!RetryAfter(Limiter!Min({x.at : x \in seen})) ELSE 0
<1>1. /\ wBucket' = [x \in wCallers |-> IF x # c THEN Limiter!Kept(x) ELSE seen]
      /\ wPromise' = [wPromise EXCEPT ![c] = back]
      /\ wLastSweep' \in {wNow, wLastSweep}
      /\ UNCHANGED <<wNow, wGranted>>
  BY LimiterKeptIs DEF Limiter!Request
<1>2. Limiter!IsFiniteSet(seen) /\ Limiter!Cardinality(seen) \in Nat /\ Limiter!Cardinality(seen) = wMaxRequests
  BY LimiterKeptIs, LimiterThisWindow DEF Limiter!OverLimit, LimiterConstantsOK
<1>3. \A x \in wCallers : wBucket'[x] \subseteq wBucket[x] /\ Limiter!InWindow(wGranted[x], wNow) \subseteq wBucket'[x]
  BY <1>1, LimiterKeptIs DEF Limiter!InWindow, LimiterIInv, LimiterRemembers
<1>4. ASSUME seen # {}
      PROVE  \E x \in seen : /\ back >= x.at + wWindow /\ back # 0
                             /\ back \in 0 .. (wMaxNow + wWindow + wSecond)
  <2> DEFINE ats == {x.at : x \in seen}
  <2>1. ats \subseteq Nat /\ ats # {}
    BY <1>4 DEF Limiter!InWindow, LimiterIInv, LimiterTInv, Limiter!Grants
  <2>2. Limiter!Min(ats) \in ats
    BY <2>1, LimiterLeastIsOne
  <2>3. PICK x \in seen : x.at = Limiter!Min(ats)
    BY <2>2
  <2>4. x.at \in 0 .. wNow /\ wNow \in 0 .. wMaxNow /\ x.at > wNow - wWindow
    BY DEF Limiter!InWindow, LimiterIInv, LimiterTInv, Limiter!Grants, LimiterConstantsOK
  <2>5. /\ Limiter!RetryAfter(x.at) \in Nat \ {0}
        /\ wSecond * Limiter!RetryAfter(x.at) >= x.at + wWindow - wNow
        /\ wSecond * Limiter!RetryAfter(x.at) <= wWindow + wSecond
        /\ wSecond * Limiter!RetryAfter(x.at) \in Nat
    BY <2>4, LimiterRoundsUp
  <2>6. back = wNow + wSecond * Limiter!RetryAfter(x.at)
    BY <1>4, <2>3
  <2>7. PICK s : s = wSecond * Limiter!RetryAfter(x.at)
    OBVIOUS
  <2>8. /\ s \in Nat /\ s >= x.at + wWindow - wNow /\ s <= wWindow + wSecond
        /\ back = wNow + s /\ x.at + wWindow > wNow /\ wNow >= 0
    BY <2>4, <2>5, <2>6, <2>7 DEF LimiterConstantsOK
  <2> HIDE DEF back
  <2>9. back >= x.at + wWindow /\ back # 0 /\ back \in 0 .. (wMaxNow + wWindow + wSecond)
    BY <2>4, <2>8 DEF LimiterConstantsOK
  <2> QED
    BY <2>9
<1>5. back \in 0 .. (wMaxNow + wWindow + wSecond)
  BY <1>4 DEF LimiterConstantsOK
<1> HIDE DEF back
<1>6. LimiterTInv'
  <2>1. ASSUME NEW x \in wCallers PROVE Limiter!Cardinality(wBucket'[x]) <= wMaxRequests
    <3>1. Limiter!IsFiniteSet(wBucket[x]) /\ Limiter!Cardinality(wBucket[x]) <= wMaxRequests
      BY LimiterFewerCount DEF LimiterIInv, LimiterTInv
    <3>2. Limiter!Cardinality(wBucket'[x]) <= Limiter!Cardinality(wBucket[x]) /\ Limiter!Cardinality(wBucket'[x]) \in Nat
          /\ Limiter!Cardinality(wBucket[x]) \in Nat
      BY <1>3, <3>1, LimiterFewerCount
    <3> QED
      BY <3>1, <3>2 DEF LimiterConstantsOK
  <2> QED
    BY <1>1, <1>3, <1>5, <2>1 DEF LimiterIInv, LimiterTInv
<1>7. LimiterRemembers'
  BY <1>1, <1>3 DEF LimiterRemembers, Limiter!InWindow
<1>8. Limiter!CapHolds'
  BY <1>1 DEF LimiterIInv, Limiter!CapHolds
<1>9. LimiterWaits'
  <2> SUFFICES ASSUME NEW x \in wCallers, wPromise'[x] # 0
               PROVE  \E y \in wGranted[x] :
                        /\ y.at + wWindow <= wPromise'[x]
                        /\ Limiter!Cardinality(Limiter!InWindow(wGranted[x], wNow) \ {y}) < wMaxRequests
    BY <1>1 DEF LimiterWaits, Limiter!InWindow
  <2>1. CASE x # c
    BY <1>1, <2>1 DEF LimiterIInv, LimiterTInv, LimiterWaits
  <2>2. CASE x = c
    <3>1. wPromise'[c] = back /\ back # 0
      BY <1>1, <2>2 DEF LimiterIInv, LimiterTInv
    <3>2. seen # {}
      BY <3>1 DEF back
    <3>3. PICK y \in seen : back >= y.at + wWindow
      BY <1>4, <3>2
    <3>4. Limiter!Cardinality(seen \ {y}) = Limiter!Cardinality(seen) - 1
      BY <1>2, <3>3, FS_RemoveElement, LimiterSizes
    <3>5. y \in wGranted[c] /\ y.at \in Nat
      BY <3>3 DEF Limiter!InWindow, LimiterIInv, LimiterTInv, Limiter!Grants
    <3>6. y.at + wWindow <= wPromise'[c]
      BY <1>5, <3>1, <3>3, <3>5 DEF LimiterConstantsOK
    <3>7. Limiter!Cardinality(seen \ {y}) < wMaxRequests
      BY <1>2, <3>4 DEF LimiterConstantsOK
    <3> QED
      BY <2>2, <3>5, <3>6, <3>7
  <2> QED
    BY <2>1, <2>2
<1> QED
  BY <1>6, <1>7, <1>8, <1>9 DEF LimiterIInv

LEMMA LimiterGrantStep ==
    ASSUME LimiterConstantsOK, LimiterIInv, NEW c \in wCallers, Limiter!Request(c),
           ~Limiter!OverLimit(Limiter!Cardinality(Limiter!InWindow(Limiter!Kept(c), wNow)))
    PROVE  LimiterIInv'
<1> DEFINE seen == Limiter!InWindow(wGranted[c], wNow)
           this == [at |-> wNow, n |-> Limiter!Cardinality(wGranted[c])]
<1>1. /\ wBucket' = [x \in wCallers |-> IF x # c THEN Limiter!Kept(x) ELSE seen \cup {this}]
      /\ wGranted' = [wGranted EXCEPT ![c] = @ \cup {this}]
      /\ wPromise' = [wPromise EXCEPT ![c] = 0]
      /\ wLastSweep' \in {wNow, wLastSweep}
      /\ wNow' = wNow /\ Limiter!Cardinality(wGranted[c]) < wMaxGrants
  BY LimiterKeptIs DEF Limiter!Request
<1>2. /\ Limiter!IsFiniteSet(seen) /\ Limiter!Cardinality(seen) \in Nat /\ Limiter!Cardinality(seen) < wMaxRequests
      /\ Limiter!IsFiniteSet(wGranted[c]) /\ Limiter!Cardinality(wGranted[c]) \in Nat
  BY LimiterKeptIs, LimiterThisWindow, LimiterFewerCount DEF Limiter!OverLimit,
     LimiterConstantsOK, LimiterIInv, LimiterTInv
<1>3. /\ this \in Limiter!Grants /\ this.at = wNow /\ this.n = Limiter!Cardinality(wGranted[c])
      /\ this \notin wGranted[c]
  BY <1>1, <1>2 DEF Limiter!Grants, LimiterConstantsOK, LimiterIInv, LimiterTInv
<1> HIDE DEF this
<1>4. /\ wGranted'[c] = wGranted[c] \cup {this} /\ wBucket'[c] = seen \cup {this} /\ wPromise'[c] = 0
      /\ \A x \in wCallers \ {c} : wGranted'[x] = wGranted[x] /\ wPromise'[x] = wPromise[x]
                                  /\ wBucket'[x] = Limiter!Kept(x)
  BY <1>1 DEF LimiterIInv, LimiterTInv
<1>5. /\ Limiter!IsFiniteSet(wGranted[c] \cup {this})
      /\ Limiter!Cardinality(wGranted[c] \cup {this}) = Limiter!Cardinality(wGranted[c]) + 1
      /\ Limiter!Cardinality(seen \cup {this}) <= wMaxRequests
  <2>1. Limiter!Cardinality(seen \cup {this}) <= Limiter!Cardinality(seen) + 1
        /\ Limiter!Cardinality(seen \cup {this}) \in Nat
    BY <1>2, LimiterOneMore
  <2>2. Limiter!Cardinality(seen \cup {this}) <= wMaxRequests
    BY <1>2, <2>1 DEF LimiterConstantsOK
  <2>3. /\ Limiter!IsFiniteSet(wGranted[c] \cup {this})
        /\ Limiter!Cardinality(wGranted[c] \cup {this}) = Limiter!Cardinality(wGranted[c]) + 1
    BY <1>2, <1>3, LimiterOneMore
  <2> QED
    BY <2>2, <2>3
<1>6. LimiterTInv'
  <2>1. ASSUME NEW x \in wCallers
        PROVE  /\ wGranted'[x] \subseteq Limiter!Grants /\ Limiter!IsFiniteSet(wGranted'[x])
               /\ wBucket'[x] \subseteq wGranted'[x] /\ Limiter!Cardinality(wBucket'[x]) <= wMaxRequests
               /\ \A y \in wGranted'[x] : y.at <= wNow' /\ y.n < Limiter!Cardinality(wGranted'[x])
    <3>1. CASE x = c
      <4>1. \A y \in wGranted[c] : y.at <= wNow /\ y.n < Limiter!Cardinality(wGranted[c]) /\ y.n \in Nat
                                  /\ y \in Limiter!Grants
        BY DEF LimiterIInv, LimiterTInv, Limiter!Grants
      <4>2. seen \subseteq wGranted[c]
        BY DEF Limiter!InWindow
      <4>3. this.at <= wNow /\ this.n < Limiter!Cardinality(wGranted[c]) + 1
        BY <1>2, <1>3 DEF LimiterIInv, LimiterTInv
      <4>4. \A y \in wGranted'[x] : y.at <= wNow' /\ y.n < Limiter!Cardinality(wGranted'[x])
        <5>1. PICK k : k = Limiter!Cardinality(wGranted[c])
          OBVIOUS
        <5>2. k \in Nat /\ Limiter!Cardinality(wGranted'[x]) = k + 1 /\ wGranted'[x] = wGranted[c] \cup {this}
          BY <1>2, <1>4, <1>5, <3>1, <5>1
        <5>3. \A y \in wGranted[c] : y.at <= wNow /\ y.n < k /\ y.n \in Nat
          BY <4>1, <5>1
        <5>4. this.at <= wNow /\ this.n < k + 1
          BY <4>3, <5>1
        <5>5. \A y \in wGranted[c] : y.n < k + 1
          BY <5>2, <5>3
        <5> QED
          BY <1>1, <5>2, <5>3, <5>4, <5>5
      <4>5. wGranted'[x] \subseteq Limiter!Grants /\ wBucket'[x] \subseteq wGranted'[x]
        BY <1>3, <1>4, <3>1, <4>1, <4>2
      <4> QED
        BY <1>4, <1>5, <3>1, <4>4, <4>5
    <3>2. CASE x # c
      <4>1. Limiter!Kept(x) \subseteq wBucket[x] /\ Limiter!IsFiniteSet(wBucket[x])
        BY LimiterKeptIs, LimiterFewerCount DEF LimiterIInv, LimiterTInv
      <4>2. Limiter!Cardinality(Limiter!Kept(x)) <= Limiter!Cardinality(wBucket[x]) /\ Limiter!Cardinality(Limiter!Kept(x)) \in Nat
            /\ Limiter!Cardinality(wBucket[x]) \in Nat
        BY <4>1, LimiterFewerCount
      <4> QED
        BY <1>1, <1>4, <3>2, <4>1, <4>2 DEF LimiterIInv, LimiterTInv, LimiterConstantsOK
    <3> QED
      BY <3>1, <3>2
  <2>2. wBucket' \in [wCallers -> SUBSET Limiter!Grants] /\ wGranted' \in [wCallers -> SUBSET Limiter!Grants]
    BY <1>1, <2>1 DEF LimiterIInv, LimiterTInv
  <2>3. wPromise' \in [wCallers -> 0 .. (wMaxNow + wWindow + wSecond)]
    BY <1>1 DEF LimiterIInv, LimiterTInv, LimiterConstantsOK
  <2> QED
    BY <1>1, <2>1, <2>2, <2>3 DEF LimiterIInv, LimiterTInv
<1>7. LimiterRemembers'
  <2> SUFFICES ASSUME NEW x \in wCallers PROVE Limiter!InWindow(wGranted'[x], wNow) \subseteq wBucket'[x]
    BY <1>1 DEF LimiterRemembers, Limiter!InWindow
  <2>1. CASE x = c
    BY <1>4, <2>1 DEF Limiter!InWindow
  <2>2. CASE x # c
    BY <1>4, <2>2, LimiterKeptIs DEF Limiter!InWindow
  <2> QED
    BY <2>1, <2>2
<1>8. Limiter!CapHolds'
  <2> SUFFICES ASSUME NEW x \in wCallers, NEW end \in 0 .. wNow
               PROVE  Limiter!Cardinality({y \in wGranted'[x] : end - wWindow < y.at /\ y.at <= end})
                        <= wMaxRequests
    BY <1>1 DEF Limiter!CapHolds
  <2>1. CASE x # c
    BY <1>4, <2>1 DEF LimiterIInv, Limiter!CapHolds
  <2>2. CASE x = c /\ end # wNow
    <3>1. ~(this.at <= end)
      BY <1>3, <2>2 DEF LimiterIInv, LimiterTInv, LimiterConstantsOK
    <3>2. {y \in wGranted'[x] : end - wWindow < y.at /\ y.at <= end}
            = {y \in wGranted[x] : end - wWindow < y.at /\ y.at <= end}
      BY <1>4, <2>2, <3>1
    <3> QED
      BY <3>2 DEF LimiterIInv, Limiter!CapHolds
  <2>3. CASE x = c /\ end = wNow
    <3>1. {y \in wGranted'[x] : end - wWindow < y.at /\ y.at <= end} \subseteq seen \cup {this}
      BY <1>4, <2>3, LimiterThisWindow
    <3>2. Limiter!IsFiniteSet(seen \cup {this})
      BY <1>2, LimiterOneMore
    <3>3. /\ Limiter!Cardinality({y \in wGranted'[x] : end - wWindow < y.at /\ y.at <= end})
               <= Limiter!Cardinality(seen \cup {this})
          /\ Limiter!Cardinality({y \in wGranted'[x] : end - wWindow < y.at /\ y.at <= end}) \in Nat
          /\ Limiter!Cardinality(seen \cup {this}) \in Nat
      BY <3>1, <3>2, LimiterFewerCount
    <3> QED
      BY <1>5, <3>3 DEF LimiterConstantsOK
  <2> QED
    BY <2>1, <2>2, <2>3
<1>9. LimiterWaits'
  BY <1>1, <1>4 DEF LimiterIInv, LimiterWaits, Limiter!InWindow
<1> QED
  BY <1>6, <1>7, <1>8, <1>9 DEF LimiterIInv

LEMMA LimiterInvariant == LimiterConstantsOK => (Limiter!Spec => []LimiterIInv)
<1> SUFFICES ASSUME LimiterConstantsOK PROVE Limiter!Spec => []LimiterIInv
  OBVIOUS
<1>1. LimiterIInv /\ UNCHANGED Limiter!vars => LimiterIInv'
  BY DEF Limiter!vars, LimiterIInv, LimiterTInv, LimiterRemembers, Limiter!CapHolds, LimiterWaits,
     Limiter!InWindow
<1>2. LimiterIInv /\ [Limiter!Next]_Limiter!vars => LimiterIInv'
  BY <1>1, LimiterTickStep, LimiterRefuseStep, LimiterGrantStep DEF Limiter!Next
<1> QED
  BY <1>2, LimiterInitIInv, PTL DEF Limiter!Spec

\* Every request leaves buckets, times and promises in their types: TypeOK.
THEOREM LimiterTypeCorrect == LimiterConstantsOK => (Limiter!Spec => []Limiter!TypeOK)
<1>1. LimiterIInv => Limiter!TypeOK
  BY DEF LimiterIInv, LimiterTInv, Limiter!TypeOK
<1> QED
  BY <1>1, LimiterInvariant, PTL

\* No window of any length of history lets more than the cap through
\* (check_and_record records only what is_over_limit lets pass).
THEOREM LimiterWindowIsCapped == LimiterConstantsOK => (Limiter!Spec => []Limiter!CapHolds)
<1>1. LimiterIInv => Limiter!CapHolds
  BY DEF LimiterIInv
<1> QED
  BY <1>1, LimiterInvariant, PTL

\* Who waits the Retry-After seconds he was told finds room (retry_after_seconds
\* rounds up, and nothing else of his was let through meanwhile).
THEOREM LimiterRetryIsHonest == LimiterConstantsOK => (Limiter!Spec => []Limiter!RetryWorks)
<1> SUFFICES ASSUME LimiterConstantsOK PROVE Limiter!Spec => []Limiter!RetryWorks
  OBVIOUS
<1>1. ASSUME LimiterIInv PROVE Limiter!RetryWorks
  <2> SUFFICES ASSUME NEW c \in wCallers, wPromise[c] # 0, wNow >= wPromise[c]
               PROVE  ~Limiter!OverLimit(Limiter!Cardinality(Limiter!InWindow(wGranted[c], wNow)))
    BY DEF Limiter!RetryWorks
  <2>1. PICK x \in wGranted[c] :
          /\ x.at + wWindow <= wPromise[c]
          /\ Limiter!Cardinality(Limiter!InWindow(wGranted[c], wNow) \ {x}) < wMaxRequests
    BY <1>1 DEF LimiterIInv, LimiterWaits
  <2>2. Limiter!InWindow(wGranted[c], wNow) \ {x} = Limiter!InWindow(wGranted[c], wNow)
    BY <1>1, <2>1 DEF Limiter!InWindow, LimiterIInv, LimiterTInv, Limiter!Grants, LimiterConstantsOK
  <2>3. Limiter!Cardinality(Limiter!InWindow(wGranted[c], wNow)) < wMaxRequests
    BY <2>1, <2>2
  <2>4. Limiter!Cardinality(Limiter!InWindow(wGranted[c], wNow)) \in Nat
    BY <1>1, LimiterThisWindow
  <2> QED
    BY <2>3, <2>4 DEF Limiter!OverLimit, LimiterConstantsOK
<1> QED
  BY <1>1, LimiterInvariant, PTL

\* A refusal means a full window: no sweep and no eviction ever inflates a bucket.
THEOREM LimiterRefusalsAreDue == LimiterConstantsOK => (Limiter!Spec => Limiter!RefusedOnlyAtCap)
<1> SUFFICES ASSUME LimiterConstantsOK PROVE Limiter!Spec => Limiter!RefusedOnlyAtCap
  OBVIOUS
<1> DEFINE A == \A c \in wCallers : wPromise'[c] # wPromise[c] /\ wPromise'[c] # 0
                  => Limiter!Cardinality(Limiter!InWindow(wGranted[c], wNow)) = wMaxRequests
<1>1. ASSUME LimiterIInv, [Limiter!Next]_Limiter!vars PROVE A
  <2> SUFFICES ASSUME NEW c \in wCallers, wPromise'[c] # wPromise[c], wPromise'[c] # 0
               PROVE  Limiter!Cardinality(Limiter!InWindow(wGranted[c], wNow)) = wMaxRequests
    OBVIOUS
  <2>1. PICK x \in wCallers : Limiter!Request(x)
    BY <1>1 DEF Limiter!Next, Limiter!Tick, Limiter!vars
  <2>2. x = c /\ Limiter!OverLimit(Limiter!Cardinality(Limiter!InWindow(Limiter!Kept(c), wNow)))
    BY <1>1, <2>1 DEF Limiter!Request, LimiterIInv, LimiterTInv
  <2> QED
    BY <1>1, <2>2, LimiterKeptIs, LimiterThisWindow DEF Limiter!OverLimit, LimiterConstantsOK
<1>2. LimiterIInv /\ [Limiter!Next]_Limiter!vars => [A]_Limiter!vars
  BY <1>1
<1> QED
  BY <1>2, LimiterInvariant, PTL DEF Limiter!Spec, Limiter!RefusedOnlyAtCap

-----------------------------------------------------------------------------
(* Sessions.  Every session of a person without crossing changes was opened *)
(* under the account as it is (Current).                                   *)

AccessEpochs == 0 .. sMaxEpoch
AccessSignIns == [phase : {"sweep", "open"}, op : {"signIn"}, user : sUsers, epoch : AccessEpochs]
AccessAnswers == [phase : {"respond"}, op : {"signIn"}, user : sUsers, id : Access!Ids]
AccessAsks == [phase : {"revoke"}, op : Access!Changes, user : sUsers, rank : Access!Ranks]
AccessEdits == [phase : {"commit"}, op : Access!Changes, user : sUsers, rank : Access!Ranks, ends : SUBSET Access!Ids]
AccessJob == {Access!Idle} \cup AccessSignIns \cup AccessAnswers \cup AccessAsks \cup AccessEdits

AccessTInv ==
    /\ sNow \in 0 .. sMaxNow
    /\ sAccount \in [sUsers -> Access!AccountRows]
    /\ sSession \in [Access!Ids -> Access!SessionRows \cup {None}]
    /\ sJob \in [Threads -> AccessJob]
    /\ sCrossed \subseteq sUsers

AccessBusy(t) == sJob[t].phase # "idle"

\* Whom no two requests crossed has no sign-in under way beside a change.
AccessApart ==
    \A t, v \in Threads :
        AccessBusy(t) /\ AccessBusy(v) /\ sJob[t].user = sJob[v].user /\ sJob[t].user \notin sCrossed
        => (sJob[t].op = "signIn" <=> sJob[v].op = "signIn")

\* His sessions, and a sign-in about to open one, are of his account as it is now,
\* and a change about to commit ends all he has.
AccessCurrent(u) ==
    /\ \A i \in Access!SessionsOf(u) : /\ sSession[i].epoch = sAccount[u].epoch
                                       /\ sSession[i].shown \in {None, sAccount[u].rank}
    /\ \A t \in Threads : sJob[t].phase \in {"sweep", "open"} /\ sJob[t].user = u
                          => sJob[t].epoch = sAccount[u].epoch
    /\ \A t \in Threads : sJob[t].phase = "commit" /\ sJob[t].user = u
                          => Access!SessionsOf(u) \subseteq sJob[t].ends

\* A change under way is of somebody who is no Owner, and makes nobody one.
AccessRanked ==
    /\ \A u \in sUsers : sAccount[u].rank = sOwner => ~sAccount[u].archived /\ ~sAccount[u].deleted
    /\ \A t \in Threads : sJob[t].phase \in {"revoke", "commit"} =>
          sAccount[sJob[t].user].rank # sOwner /\ sJob[t].rank # sOwner

AccessIInv == AccessTInv /\ AccessApart /\ AccessRanked /\ \A u \in sUsers \ sCrossed : AccessCurrent(u)

-----------------------------------------------------------------------------
LEMMA AccessJobKinds ==
    ASSUME AccessTInv, NEW t \in Threads
    PROVE  /\ sJob[t].phase \in {"idle", "sweep", "open", "respond", "revoke", "commit"}
           /\ sJob[t].phase \in {"sweep", "open"} => sJob[t] \in AccessSignIns
           /\ sJob[t].phase = "respond" => sJob[t] \in AccessAnswers
           /\ sJob[t].phase = "revoke" => sJob[t] \in AccessAsks
           /\ sJob[t].phase = "commit" => sJob[t] \in AccessEdits
           /\ sJob[t].phase = "idle" => sJob[t] = Access!Idle
           /\ AccessBusy(t) => sJob[t].user \in sUsers
           /\ AccessBusy(t) /\ sJob[t].op # "signIn" => sJob[t].phase \in {"revoke", "commit"}
  BY DEF AccessTInv, AccessJob, Access!Idle, AccessSignIns, AccessAnswers, AccessAsks,
     AccessEdits, Access!Changes, AccessBusy

LEMMA AccessInitIInv == ASSUME AccessConstantsOK, Access!Init PROVE AccessIInv
<1>1. sAccount \in [sUsers -> Access!AccountRows]
  BY DEF AccessConstantsOK, Access!Init, Access!AccountRows
<1>2. AccessTInv
  BY <1>1 DEF AccessConstantsOK, Access!Init, AccessTInv, AccessJob
<1> QED
  BY <1>2 DEF Access!Init, AccessIInv, AccessApart, AccessBusy, Access!Idle, AccessRanked,
     AccessCurrent, Access!SessionsOf, Access!Rows

\* A thread's next phase for the same person, who was noted if he is crossed: the
\* accounts, and whatever sessions there are, are still apart from one another.
LEMMA AccessApartKept ==
    ASSUME AccessTInv, AccessApart, NEW t \in Threads, NEW j, sJob' = [sJob EXCEPT ![t] = j],
           sCrossed \subseteq sCrossed',
           j.phase # "idle" => \/ AccessBusy(t) /\ j.user = sJob[t].user /\ j.op = sJob[t].op
                               \/ j.user \in sCrossed'
                               \/ ~Access!Meets(j.user, j.op)
    PROVE  AccessApart'
<1>1. sJob'[t] = j /\ \A v \in Threads \ {t} : sJob'[v] = sJob[v]
  BY DEF AccessTInv
<1>2. ASSUME NEW v \in Threads \ {t}, j.phase # "idle", AccessBusy(v), j.user = sJob[v].user,
             j.user \notin sCrossed'
      PROVE  j.op = "signIn" <=> sJob[v].op = "signIn"
  BY <1>2 DEF AccessApart, AccessBusy, Access!Meets
<1> QED
  BY <1>1, <1>2 DEF AccessApart, AccessBusy

\* The least number of a set of them is one of them.
LEMMA AccessLeastIsOne == ASSUME NEW S \in SUBSET Nat, S # {} PROVE Access!Min(S) \in S
<1>1. PICK R : R = OpToRel(<, Nat) /\ IsWellFoundedOn(R, Nat)
  BY NatLessThanWellFounded, Zenon
<1>2. ASSUME NEW y \in Nat, NEW x \in Nat, <<y, x>> \notin R PROVE x <= y
  <2>1. <<y, x>> \in Nat \X Nat
    OBVIOUS
  <2>2. ~(y < x)
    BY <1>1, <1>2, <2>1, Zenon DEF OpToRel
  <2> QED
    BY <2>2
<1>3. PICK x \in S : \A y \in S : ~(<<y, x>> \in R)
  <2>1. S \subseteq Nat
    OBVIOUS
  <2> QED
    BY <1>1, <2>1, WFMin, Zenon
<1>4. \A y \in S : x <= y
  BY <1>2, <1>3
<1> QED
  BY <1>4 DEF Access!Min

-----------------------------------------------------------------------------
(* The sessions: fewer of them, or one more.                               *)

\* What happens when sessions only end, and jobs of sign-ins and changes stay theirs.
LEMMA AccessFewerSessions ==
    ASSUME AccessTInv, AccessTInv', NEW u \in sUsers, AccessCurrent(u), sAccount'[u].epoch = sAccount[u].epoch,
           sAccount'[u].rank = sAccount[u].rank,
           \A i \in Access!Rows' : i \in Access!Rows /\ sSession'[i] = sSession[i],
           \A v \in Threads :
             /\ sJob'[v].phase \in {"sweep", "open"} /\ sJob'[v].user = u
                => \/ sJob'[v].epoch = sAccount[u].epoch
                   \/ sJob[v].phase \in {"sweep", "open"} /\ sJob[v].user = u
                      /\ sJob'[v].epoch = sJob[v].epoch
             /\ sJob'[v].phase = "commit" /\ sJob'[v].user = u
                => \/ Access!SessionsOf(u) \subseteq sJob'[v].ends
                   \/ sJob[v] = sJob'[v]
    PROVE  AccessCurrent(u)'
<1>1. Access!SessionsOf(u)' \subseteq Access!SessionsOf(u)
  BY DEF Access!SessionsOf
<1>2. \A i \in Access!SessionsOf(u)' : sSession'[i] = sSession[i]
  BY DEF Access!SessionsOf
<1> QED
  BY <1>1, <1>2 DEF AccessCurrent

-----------------------------------------------------------------------------
(* Signing in.                                                             *)

LEMMA AccessAuthenticateStep ==
    ASSUME AccessConstantsOK, AccessIInv, NEW t \in Threads, Access!Authenticate(t)
    PROVE  AccessIInv'
<1>1. PICK u \in sUsers :
        /\ sJob' = [sJob EXCEPT ![t] = [phase |-> "sweep", op |-> "signIn", user |-> u,
                                      epoch |-> sAccount[u].epoch]]
        /\ sCrossed' = IF Access!Meets(u, "signIn") THEN sCrossed \cup {u} ELSE sCrossed
  BY DEF Access!Authenticate
<1>2. UNCHANGED <<sNow, sAccount, sSession>>
  BY DEF Access!Authenticate
<1> DEFINE j == [phase |-> "sweep", op |-> "signIn", user |-> u, epoch |-> sAccount[u].epoch]
<1>3. j \in AccessSignIns /\ j.phase = "sweep" /\ j.op = "signIn" /\ j.user = u
      /\ j.epoch = sAccount[u].epoch
  BY DEF AccessIInv, AccessTInv, Access!AccountRows, AccessSignIns, AccessEpochs
<1>4. sJob' = [sJob EXCEPT ![t] = j]
  BY <1>1
<1> HIDE DEF j
<1>5. AccessTInv'
  BY <1>1, <1>2, <1>3, <1>4 DEF AccessIInv, AccessTInv, AccessJob
<1>6. AccessApart'
  BY <1>1, <1>3, <1>4, AccessApartKept DEF AccessIInv
<1>7. sJob'[t] = j /\ \A v \in Threads \ {t} : sJob'[v] = sJob[v]
  BY <1>4 DEF AccessIInv, AccessTInv
<1>8. AccessRanked'
  BY <1>2, <1>3, <1>7 DEF AccessIInv, AccessRanked
<1>9. ASSUME NEW w \in sUsers \ sCrossed' PROVE AccessCurrent(w)'
  <2>1. AccessCurrent(w) /\ w \in sUsers
    BY <1>1 DEF AccessIInv
  <2>2. Access!Rows' = Access!Rows
    BY <1>2 DEF Access!Rows
  <2> QED
    BY <1>2, <1>3, <1>5, <1>7, <2>1, <2>2, AccessFewerSessions DEF AccessIInv
<1> QED
  BY <1>5, <1>6, <1>8, <1>9 DEF AccessIInv

LEMMA AccessSweepStep ==
    ASSUME AccessConstantsOK, AccessIInv, NEW t \in Threads, Access!Sweep(t)
    PROVE  AccessIInv'
<1>1. PICK j : j = [sJob[t] EXCEPT !.phase = "open"]
  OBVIOUS
<1>2. sJob[t] \in AccessSignIns
  BY AccessJobKinds DEF AccessIInv, Access!Sweep
<1>3. /\ j \in AccessSignIns /\ j.phase = "open" /\ j.op = sJob[t].op /\ j.user = sJob[t].user
      /\ j.epoch = sJob[t].epoch
  BY <1>1, <1>2 DEF AccessSignIns
<1>4. sJob' = [sJob EXCEPT ![t] = j] /\ UNCHANGED <<sNow, sAccount, sCrossed>>
  BY <1>1 DEF Access!Sweep
<1>5. \A i \in Access!Ids : sSession'[i] \in {sSession[i], None}
  BY DEF Access!Sweep
<1>6. AccessTInv'
  <2>1. sSession' \in [Access!Ids -> Access!SessionRows \cup {None}]
    BY <1>5 DEF Access!Sweep, AccessIInv, AccessTInv
  <2> QED
    BY <1>3, <1>4, <2>1 DEF AccessIInv, AccessTInv, AccessJob
<1>7. AccessApart'
  BY <1>2, <1>3, <1>4, AccessApartKept DEF AccessIInv, AccessBusy, Access!Sweep
<1>8. sJob'[t] = j /\ \A v \in Threads \ {t} : sJob'[v] = sJob[v]
  BY <1>4 DEF AccessIInv, AccessTInv
<1>9. AccessRanked'
  BY <1>3, <1>4, <1>8 DEF AccessIInv, AccessRanked
<1>10. ASSUME NEW w \in sUsers \ sCrossed' PROVE AccessCurrent(w)'
  <2>1. AccessCurrent(w) /\ w \in sUsers
    BY <1>4 DEF AccessIInv
  <2>2. \A i \in Access!Rows' : i \in Access!Rows /\ sSession'[i] = sSession[i]
    BY <1>5 DEF Access!Rows
  <2> QED
    BY <1>3, <1>4, <1>6, <1>8, <2>1, <2>2, AccessFewerSessions DEF AccessIInv, Access!Sweep
<1> QED
  BY <1>6, <1>7, <1>9, <1>10 DEF AccessIInv

LEMMA AccessOpenStep ==
    ASSUME AccessConstantsOK, AccessIInv, NEW t \in Threads, Access!Open(t)
    PROVE  AccessIInv'
<1> DEFINE u == sJob[t].user
<1>1. sJob[t] \in AccessSignIns /\ sJob[t].phase = "open" /\ u \in sUsers /\ sJob[t].op = "signIn"
      /\ UNCHANGED <<sNow, sAccount, sCrossed>>
  BY AccessJobKinds DEF AccessIInv, Access!Open, AccessSignIns
<1>2. CASE Access!Present(u)
  <2>1. PICK i : i = Access!Min(Access!Ids \ Access!Rows)
    OBVIOUS
  <2>2. i \in Access!Ids \ Access!Rows
    <3>1. Access!Ids \ Access!Rows # {} /\ Access!Ids \ Access!Rows \in SUBSET Nat
      BY <1>2 DEF Access!Open, Access!Rows, Access!Ids
    <3> QED
      BY <2>1, <3>1, AccessLeastIsOne, Zenon
  <2>3. PICK r : r = [user |-> u, expires |-> sNow + sLifetime, epoch |-> sJob[t].epoch,
                      shown |-> None]
    OBVIOUS
  <2>4. PICK j : j = [phase |-> "respond", op |-> "signIn", user |-> u, id |-> i]
    OBVIOUS
  <2>5. sSession' = [sSession EXCEPT ![i] = r] /\ sJob' = [sJob EXCEPT ![t] = j]
    BY <1>2, <2>1, <2>3, <2>4 DEF Access!Open
  <2>6. r \in Access!SessionRows /\ r.user = u /\ r.epoch = sJob[t].epoch /\ r.shown = None
    BY <1>1, <2>3 DEF Access!SessionRows, AccessSignIns, AccessEpochs, AccessIInv, AccessTInv,
       AccessConstantsOK
  <2>7. j \in AccessAnswers /\ j.phase = "respond" /\ j.op = "signIn" /\ j.user = u
    BY <1>1, <2>2, <2>4 DEF AccessAnswers
  <2>8. AccessTInv'
    BY <1>1, <2>5, <2>6, <2>7 DEF AccessIInv, AccessTInv, AccessJob
  <2>9. AccessApart'
    BY <1>1, <2>5, <2>7, AccessApartKept DEF AccessIInv, AccessBusy
  <2>10. sJob'[t] = j /\ \A v \in Threads \ {t} : sJob'[v] = sJob[v]
    BY <2>5 DEF AccessIInv, AccessTInv
  <2>11. AccessRanked'
    BY <1>1, <2>7, <2>10 DEF AccessIInv, AccessRanked
  <2>12. ASSUME NEW w \in sUsers \ sCrossed' PROVE AccessCurrent(w)'
    <3>1. AccessCurrent(w)
      BY <1>1 DEF AccessIInv
    <3>2. sSession'[i] = r /\ \A k \in Access!Ids \ {i} : sSession'[k] = sSession[k]
      BY <2>2, <2>5 DEF AccessIInv, AccessTInv
    <3>3. Access!SessionsOf(w)' \subseteq Access!SessionsOf(w) \cup (IF w = u THEN {i} ELSE {})
      BY <2>6, <3>2 DEF Access!SessionsOf, Access!Rows
    <3>4. i \notin Access!SessionsOf(w)
      BY <2>2 DEF Access!SessionsOf
    <3>5. \A k \in Access!SessionsOf(w)' : /\ sSession'[k].epoch = sAccount'[w].epoch
                                           /\ sSession'[k].shown \in {None, sAccount'[w].rank}
      BY <1>1, <2>2, <2>6, <3>1, <3>2, <3>3 DEF AccessCurrent, Access!SessionsOf, Access!Rows
    <3>6. \A v \in Threads : sJob'[v].phase \in {"sweep", "open"} /\ sJob'[v].user = w
                             => sJob'[v].epoch = sAccount'[w].epoch
      BY <1>1, <2>7, <2>10, <3>1 DEF AccessCurrent
    <3>7. ASSUME NEW v \in Threads, sJob'[v].phase = "commit", sJob'[v].user = w
          PROVE  Access!SessionsOf(w)' \subseteq sJob'[v].ends
      <4>1. v # t /\ sJob'[v] = sJob[v]
        BY <2>7, <2>10, <3>7
      <4>2. sJob[v].op # "signIn"
        BY <3>7, <4>1, AccessJobKinds DEF AccessIInv, AccessEdits, Access!Changes
      <4>3. w # u
        BY <1>1, <3>7, <4>1, <4>2 DEF AccessIInv, AccessApart, AccessBusy
      <4> QED
        BY <3>1, <3>3, <3>7, <4>1, <4>3 DEF AccessCurrent
    <3> QED
      BY <3>5, <3>6, <3>7 DEF AccessCurrent
  <2> QED
    BY <2>8, <2>9, <2>11, <2>12 DEF AccessIInv
<1>3. CASE ~Access!Present(u)
  <2>1. sJob' = [sJob EXCEPT ![t] = Access!Idle] /\ sSession' = sSession
    BY <1>3 DEF Access!Open
  <2>2. AccessTInv'
    BY <1>1, <2>1 DEF AccessIInv, AccessTInv, AccessJob
  <2>3. Access!Idle.phase = "idle"
    BY DEF Access!Idle
  <2>4. AccessApart'
    BY <1>1, <2>1, <2>3, AccessApartKept DEF AccessIInv
  <2>5. sJob'[t] = Access!Idle /\ \A v \in Threads \ {t} : sJob'[v] = sJob[v]
    BY <2>1 DEF AccessIInv, AccessTInv
  <2>6. AccessRanked'
    BY <1>1, <2>3, <2>5 DEF AccessIInv, AccessRanked
  <2>7. Access!Rows' = Access!Rows
    BY <2>1 DEF Access!Rows
  <2>8. ASSUME NEW w \in sUsers \ sCrossed' PROVE AccessCurrent(w)'
    BY <1>1, <2>1, <2>2, <2>3, <2>5, <2>7, AccessFewerSessions DEF AccessIInv
  <2> QED
    BY <2>2, <2>4, <2>6, <2>8 DEF AccessIInv
<1> QED
  BY <1>2, <1>3

LEMMA AccessRespondStep ==
    ASSUME AccessConstantsOK, AccessIInv, NEW t \in Threads, Access!Respond(t)
    PROVE  AccessIInv'
<1>1. PICK u : u = sJob[t].user
  OBVIOUS
<1>2. /\ u \in sUsers /\ sAccount[u].rank \in Access!Ranks /\ Access!Shown(t) = sAccount[u].rank
      /\ sJob' = [sJob EXCEPT ![t] = Access!Idle] /\ UNCHANGED <<sNow, sAccount, sCrossed>>
  BY <1>1, AccessJobKinds DEF Access!Respond, AccessAnswers, AccessIInv, AccessTInv,
     Access!AccountRows, Access!Shown
<1>3. ASSUME NEW i \in Access!Ids
      PROVE  \/ sSession'[i] = sSession[i]
             \/ /\ sSession[i] \in Access!SessionRows /\ sSession[i].user = u
                /\ sSession'[i] \in Access!SessionRows /\ sSession'[i].user = u
                /\ sSession'[i].epoch = sSession[i].epoch /\ sSession'[i].shown = sAccount[u].rank
  <2>1. PICK r : r = [sSession[i] EXCEPT !.shown = sAccount[u].rank]
    OBVIOUS
  <2>2. sSession'[i] = IF i \in Access!Rows /\ i = sJob[t].id /\ sSession[i].shown = None
                         /\ sSession[i].user = u
                      THEN r ELSE sSession[i]
    BY <1>1, <1>2, <2>1 DEF Access!Respond
  <2>3. ASSUME i \in Access!Rows
        PROVE  /\ sSession[i] \in Access!SessionRows /\ r \in Access!SessionRows
               /\ r.user = sSession[i].user /\ r.epoch = sSession[i].epoch
               /\ r.shown = sAccount[u].rank
    <3>1. sSession[i] \in Access!SessionRows
      BY <2>3 DEF Access!Rows, AccessIInv, AccessTInv
    <3> QED
      BY <1>2, <2>1, <3>1 DEF Access!SessionRows
  <2> QED
    BY <2>2, <2>3
<1>4. AccessTInv'
  <2>1. sSession' = [i \in Access!Ids |-> sSession'[i]]
    BY DEF Access!Respond
  <2>2. \A i \in Access!Ids : sSession'[i] \in Access!SessionRows \cup {None}
    BY <1>3 DEF AccessIInv, AccessTInv
  <2>3. sSession' \in [Access!Ids -> Access!SessionRows \cup {None}]
    BY <2>1, <2>2
  <2> QED
    BY <1>2, <2>3 DEF AccessIInv, AccessTInv, AccessJob
<1>5. Access!Idle.phase = "idle"
  BY DEF Access!Idle
<1>6. AccessApart'
  BY <1>2, <1>5, AccessApartKept DEF AccessIInv
<1>7. sJob'[t] = Access!Idle /\ \A v \in Threads \ {t} : sJob'[v] = sJob[v]
  BY <1>2 DEF AccessIInv, AccessTInv
<1>8. AccessRanked'
  BY <1>2, <1>5, <1>7 DEF AccessIInv, AccessRanked
<1>9. ASSUME NEW w \in sUsers \ sCrossed' PROVE AccessCurrent(w)'
  <2>1. AccessCurrent(w)
    BY <1>2 DEF AccessIInv
  <2>2. \A i \in Access!SessionsOf(w)' : i \in Access!Ids /\ i \in Access!Rows' /\ sSession'[i].user = w
    BY DEF Access!SessionsOf, Access!Rows
  <2>3. ASSUME NEW i \in Access!SessionsOf(w)', sSession'[i] = sSession[i]
        PROVE  /\ i \in Access!SessionsOf(w) /\ sSession'[i].epoch = sAccount'[w].epoch
               /\ sSession'[i].shown \in {None, sAccount'[w].rank}
    BY <1>2, <2>1, <2>3 DEF AccessCurrent, Access!SessionsOf, Access!Rows
  <2>4. ASSUME NEW i \in Access!SessionsOf(w)', sSession'[i] # sSession[i]
        PROVE  /\ i \in Access!SessionsOf(w) /\ sSession'[i].epoch = sAccount'[w].epoch
               /\ sSession'[i].shown \in {None, sAccount'[w].rank}
    <3>1. w = u /\ sSession[i].user = u /\ i \in Access!Rows /\ sSession'[i].epoch = sSession[i].epoch
          /\ sSession'[i].shown = sAccount[u].rank
      BY <1>3, <2>2, <2>4 DEF Access!Respond, Access!Rows
    <3> QED
      BY <1>2, <2>1, <3>1 DEF AccessCurrent, Access!SessionsOf
  <2>5. Access!SessionsOf(w)' \subseteq Access!SessionsOf(w)
    BY <2>3, <2>4
  <2> QED
    BY <1>2, <1>5, <1>7, <2>1, <2>3, <2>4, <2>5 DEF AccessCurrent
<1> QED
  BY <1>4, <1>6, <1>8, <1>9 DEF AccessIInv

LEMMA AccessEndSessionStep ==
    ASSUME AccessConstantsOK, AccessIInv, NEW x \in Access!Rows, Access!EndSession(x)
    PROVE  AccessIInv'
<1>1. sSession' = [sSession EXCEPT ![x] = None] /\ UNCHANGED <<sNow, sAccount, sJob, sCrossed>>
  BY DEF Access!EndSession
<1>2. AccessTInv'
  BY <1>1 DEF AccessIInv, AccessTInv
<1>3. \A i \in Access!Rows' : i \in Access!Rows /\ sSession'[i] = sSession[i]
  BY <1>1 DEF Access!Rows, AccessIInv, AccessTInv
<1>4. ASSUME NEW w \in sUsers \ sCrossed' PROVE AccessCurrent(w)'
  BY <1>1, <1>2, <1>3, AccessFewerSessions DEF AccessIInv
<1>5. AccessApart' /\ AccessRanked'
  BY <1>1 DEF AccessIInv, AccessApart, AccessBusy, AccessRanked
<1> QED
  BY <1>2, <1>4, <1>5 DEF AccessIInv

-----------------------------------------------------------------------------
(* Managing a subordinate.                                                 *)

LEMMA AccessManageStep ==
    ASSUME AccessConstantsOK, AccessIInv, NEW t \in Threads, Access!Manage(t)
    PROVE  AccessIInv'
<1>1. PICK o \in sSends[t] \cap Access!Changes, a \in Access!Acting, u \in sUsers, k \in Access!Ranks :
        /\ Access!CanManage(sAccount[a].rank, sAccount[u].rank)
        /\ IF o = "role" THEN Access!CanManage(sAccount[a].rank, k) ELSE k = 0
        /\ sJob' = [sJob EXCEPT ![t] = [phase |-> "revoke", op |-> o, user |-> u, rank |-> k]]
        /\ sCrossed' = IF Access!Meets(u, o) THEN sCrossed \cup {u} ELSE sCrossed
  BY DEF Access!Manage
<1>2. PICK j : j = [phase |-> "revoke", op |-> o, user |-> u, rank |-> k]
  OBVIOUS
<1>3. j \in AccessAsks /\ j.phase = "revoke" /\ j.op = o /\ j.user = u /\ j.rank = k
  BY <1>2 DEF AccessAsks
<1>4. sJob' = [sJob EXCEPT ![t] = j] /\ UNCHANGED <<sNow, sAccount, sSession>>
  BY <1>1, <1>2 DEF Access!Manage
<1>5. sAccount[u].rank # sOwner /\ k # sOwner
  <2>1. a \in sUsers
    BY DEF Access!Acting, Access!Rows, AccessIInv, AccessTInv, Access!SessionRows
  <2>2. sAccount[a].rank \in Access!Ranks /\ sAccount[u].rank \in Access!Ranks
    BY <2>1 DEF AccessIInv, AccessTInv, Access!AccountRows
  <2> QED
    BY <1>1, <2>2 DEF Access!CanManage, Access!Ranks, AccessConstantsOK
<1>6. AccessTInv'
  BY <1>1, <1>3, <1>4 DEF AccessIInv, AccessTInv, AccessJob
<1>7. AccessApart'
  BY <1>1, <1>3, <1>4, AccessApartKept DEF AccessIInv
<1>8. sJob'[t] = j /\ \A v \in Threads \ {t} : sJob'[v] = sJob[v]
  BY <1>4 DEF AccessIInv, AccessTInv
<1>9. AccessRanked'
  BY <1>3, <1>4, <1>5, <1>8 DEF AccessIInv, AccessRanked
<1>10. Access!Rows' = Access!Rows
  BY <1>4 DEF Access!Rows
<1>11. ASSUME NEW w \in sUsers \ sCrossed' PROVE AccessCurrent(w)'
  <2>1. AccessCurrent(w)
    BY <1>1 DEF AccessIInv
  <2> QED
    BY <1>3, <1>4, <1>6, <1>8, <1>10, <2>1, AccessFewerSessions DEF AccessIInv
<1> QED
  BY <1>6, <1>7, <1>9, <1>11 DEF AccessIInv

LEMMA AccessRevokeStep ==
    ASSUME AccessConstantsOK, AccessIInv, NEW t \in Threads, Access!Revoke(t)
    PROVE  AccessIInv'
<1>1. PICK j : j = [phase |-> "commit", op |-> sJob[t].op, user |-> sJob[t].user,
                    rank |-> sJob[t].rank, ends |-> Access!Revoked(t)]
  OBVIOUS
<1>2. sJob' = [sJob EXCEPT ![t] = j] /\ UNCHANGED <<sNow, sAccount, sSession, sCrossed>>
  BY <1>1 DEF Access!Revoke
<1>3. /\ j \in AccessEdits /\ j.phase = "commit" /\ j.op = sJob[t].op /\ j.user = sJob[t].user
      /\ j.rank = sJob[t].rank /\ j.ends = Access!SessionsOf(j.user)
  <2>1. sJob[t] \in AccessAsks
    BY AccessJobKinds DEF AccessIInv, Access!Revoke
  <2>2. Access!SessionsOf(sJob[t].user) \in SUBSET Access!Ids
    BY DEF Access!SessionsOf, Access!Rows
  <2> QED
    BY <1>1, <2>1, <2>2 DEF AccessAsks, AccessEdits, Access!Revoked
<1>4. AccessTInv'
  BY <1>2, <1>3 DEF AccessIInv, AccessTInv, AccessJob
<1>5. AccessApart'
  BY <1>2, <1>3, AccessApartKept DEF AccessIInv, AccessBusy, Access!Revoke
<1>6. sJob'[t] = j /\ \A v \in Threads \ {t} : sJob'[v] = sJob[v]
  BY <1>2 DEF AccessIInv, AccessTInv
<1>7. AccessRanked'
  BY <1>2, <1>3, <1>6 DEF AccessIInv, AccessRanked, Access!Revoke
<1>8. Access!Rows' = Access!Rows
  BY <1>2 DEF Access!Rows
<1>9. ASSUME NEW w \in sUsers \ sCrossed' PROVE AccessCurrent(w)'
  <2>1. AccessCurrent(w)
    BY <1>2 DEF AccessIInv
  <2> QED
    BY <1>2, <1>3, <1>4, <1>6, <1>8, <2>1, AccessFewerSessions DEF AccessIInv
<1> QED
  BY <1>4, <1>5, <1>7, <1>9 DEF AccessIInv

\* Nobody becomes an Owner, and no Owner is changed, by one step.
AccessOwnersStay ==
    \A u \in sUsers :
        /\ sAccount[u].rank = sOwner => sAccount'[u].rank = sOwner /\ sAccount'[u].archived = FALSE
                                      /\ ~sAccount'[u].deleted
        /\ sAccount'[u].rank = sOwner => sAccount[u].rank = sOwner

LEMMA AccessCommitStep ==
    ASSUME AccessConstantsOK, AccessIInv, NEW t \in Threads, Access!Commit(t)
    PROVE  AccessIInv' /\ AccessOwnersStay
<1>1. PICK j : j = sJob[t]
  OBVIOUS
<1>2. PICK u : u = j.user
  OBVIOUS
<1>3. PICK ends : ends = IF j.op = "delete" THEN Access!SessionsOf(u) ELSE j.ends
  OBVIOUS
<1>4. j \in AccessEdits /\ j.phase = "commit" /\ u \in sUsers /\ j.op # "signIn" /\ AccessBusy(t)
  BY <1>1, <1>2, AccessJobKinds DEF AccessIInv, Access!Commit, AccessEdits, Access!Changes,
     AccessBusy
<1>5. sJob' = [sJob EXCEPT ![t] = Access!Idle] /\ UNCHANGED <<sNow, sCrossed>>
  BY DEF Access!Commit
<1>6. Access!Idle.phase = "idle"
  BY DEF Access!Idle
<1>7. sJob'[t] = Access!Idle /\ \A v \in Threads \ {t} : sJob'[v] = sJob[v]
  BY <1>5 DEF AccessIInv, AccessTInv
<1>8. sJob' \in [Threads -> AccessJob]
  BY <1>5 DEF AccessIInv, AccessTInv, AccessJob
<1>9. CASE UNCHANGED <<sAccount, sSession>>
  <2>1. AccessTInv'
    BY <1>5, <1>8, <1>9 DEF AccessIInv, AccessTInv
  <2>2. AccessApart'
    BY <1>5, <1>6, AccessApartKept DEF AccessIInv
  <2>3. AccessRanked'
    BY <1>6, <1>7, <1>9 DEF AccessIInv, AccessRanked
  <2>4. Access!Rows' = Access!Rows
    BY <1>9 DEF Access!Rows
  <2>5. ASSUME NEW w \in sUsers \ sCrossed' PROVE AccessCurrent(w)'
    BY <1>5, <1>6, <1>7, <1>9, <2>1, <2>4, AccessFewerSessions DEF AccessIInv
  <2>6. AccessOwnersStay
    BY <1>9 DEF AccessIInv, AccessRanked, AccessOwnersStay, AccessTInv, Access!AccountRows
  <2> QED
    BY <2>1, <2>2, <2>3, <2>5, <2>6 DEF AccessIInv
<1>10. CASE ~UNCHANGED <<sAccount, sSession>>
  <2>1. PICK r : r = [sAccount[u] EXCEPT
                 !.rank = IF j.op = "role" THEN j.rank ELSE @,
                 !.archived = @ \/ j.op = "archive",
                 !.deleted = j.op = "delete",
                 !.epoch = @ + 1]
    OBVIOUS
  <2>2. /\ sAccount[u].epoch < sMaxEpoch
        /\ sAccount' = [sAccount EXCEPT
             ![u].rank = IF j.op = "role" THEN j.rank ELSE @,
             ![u].archived = @ \/ j.op = "archive",
             ![u].deleted = j.op = "delete",
             ![u].epoch = @ + 1]
        /\ sSession' = [i \in Access!Ids |-> IF i \in ends \cap Access!SessionsOf(u) THEN None
                                      ELSE sSession[i]]
    BY <1>1, <1>2, <1>3, <1>10 DEF Access!Commit
  <2>3. sAccount' = [sAccount EXCEPT ![u] = r]
    BY <1>4, <2>1, <2>2 DEF AccessIInv, AccessTInv, Access!AccountRows
  <2>4. r \in Access!AccountRows /\ r.rank # sOwner
    <3>1. /\ sAccount[u] \in Access!AccountRows /\ sAccount[u].rank # sOwner
          /\ j.rank \in Access!Ranks /\ j.rank # sOwner
      BY <1>1, <1>2, <1>4 DEF AccessIInv, AccessTInv, AccessRanked, AccessEdits
    <3>2. (sAccount[u].archived \/ j.op = "archive") \in BOOLEAN
          /\ (j.op = "delete") \in BOOLEAN
      BY Zenon
    <3>3. sAccount[u].epoch + 1 \in 0 .. sMaxEpoch
      BY <2>2, <3>1 DEF Access!AccountRows, AccessConstantsOK
    <3> QED
      BY <2>1, <3>1, <3>2, <3>3 DEF Access!AccountRows
  <2>5. sAccount'[u] = r /\ \A w \in sUsers \ {u} : sAccount'[w] = sAccount[w]
    BY <1>4, <2>3 DEF AccessIInv, AccessTInv
  <2>6. AccessTInv'
    <3>1. sAccount' \in [sUsers -> Access!AccountRows]
      BY <2>3, <2>4 DEF AccessIInv, AccessTInv
    <3>2. sSession' \in [Access!Ids -> Access!SessionRows \cup {None}]
      BY <2>2 DEF AccessIInv, AccessTInv
    <3> QED
      BY <1>5, <1>8, <3>1, <3>2 DEF AccessIInv, AccessTInv
  <2>7. AccessApart'
    BY <1>5, <1>6, AccessApartKept DEF AccessIInv
  <2>8. AccessRanked'
    BY <1>1, <1>2, <1>4, <1>6, <1>7, <2>4, <2>5, AccessJobKinds DEF AccessIInv, AccessRanked,
       AccessBusy
  <2>9. ASSUME NEW i \in Access!Rows'
        PROVE  i \in Access!Rows /\ sSession'[i] = sSession[i] /\ i \notin ends \cap Access!SessionsOf(u)
    BY <2>2, <2>9 DEF Access!Rows
  <2>10. ASSUME NEW w \in sUsers \ sCrossed', w # u PROVE AccessCurrent(w)'
    <3>1. AccessCurrent(w) /\ sAccount'[w] = sAccount[w]
      BY <1>5, <2>5, <2>10 DEF AccessIInv
    <3> QED
      BY <1>6, <1>7, <2>6, <2>9, <3>1, AccessFewerSessions DEF AccessIInv
  <2>11. ASSUME u \notin sCrossed' PROVE AccessCurrent(u)'
    <3>1. Access!SessionsOf(u) \subseteq ends
      BY <1>1, <1>2, <1>3, <1>4, <1>5, <2>11 DEF AccessIInv, AccessCurrent
    <3>2. Access!SessionsOf(u)' = {}
      BY <2>9, <3>1 DEF Access!SessionsOf
    <3>3. ASSUME NEW v \in Threads, sJob'[v].phase \in {"sweep", "open"}, sJob'[v].user = u
          PROVE  FALSE
      <4>1. v # t /\ sJob'[v] = sJob[v]
        BY <1>6, <1>7, <3>3
      <4>2. sJob[v].op = "signIn" /\ AccessBusy(v)
        BY <3>3, <4>1, AccessJobKinds DEF AccessIInv, AccessSignIns, AccessBusy
      <4> QED
        BY <1>1, <1>2, <1>4, <1>5, <2>11, <3>3, <4>1, <4>2 DEF AccessIInv, AccessApart
    <3> QED
      BY <3>2, <3>3 DEF AccessCurrent
  <2>12. AccessOwnersStay
    <3>1. sAccount[u].rank # sOwner
      BY <1>1, <1>2, <1>4 DEF AccessIInv, AccessRanked
    <3> QED
      BY <2>4, <2>5, <3>1 DEF AccessIInv, AccessRanked, AccessOwnersStay, AccessTInv,
         Access!AccountRows
  <2> QED
    BY <2>6, <2>7, <2>8, <2>10, <2>11, <2>12 DEF AccessIInv
<1> QED
  BY <1>9, <1>10

\* Steps that touch neither a rank, an epoch, a session nor a job.
LEMMA AccessMarkStep ==
    ASSUME AccessIInv, NEW u \in sUsers, NEW r \in Access!AccountRows, sAccount' = [sAccount EXCEPT ![u] = r],
           r.rank = sAccount[u].rank, r.epoch = sAccount[u].epoch,
           r.rank = sOwner => ~r.archived /\ ~r.deleted,
           UNCHANGED <<sNow, sSession, sJob, sCrossed>>
    PROVE  AccessIInv' /\ AccessOwnersStay
<1>1. /\ sAccount'[u] = r /\ \A w \in sUsers \ {u} : sAccount'[w] = sAccount[w]
      /\ sAccount' \in [sUsers -> Access!AccountRows]
  BY DEF AccessIInv, AccessTInv
<1>2. AccessTInv'
  BY <1>1 DEF AccessIInv, AccessTInv
<1>3. AccessApart'
  BY DEF AccessIInv, AccessApart, AccessBusy
<1>4. AccessRanked'
  <2>1. \A t \in Threads : sJob[t].phase \in {"revoke", "commit"} => sJob[t].user \in sUsers
    BY AccessJobKinds DEF AccessIInv, AccessBusy
  <2> QED
    BY <1>1, <2>1 DEF AccessIInv, AccessRanked
<1>5. Access!Rows' = Access!Rows
  BY DEF Access!Rows
<1>6. ASSUME NEW w \in sUsers \ sCrossed' PROVE AccessCurrent(w)'
  BY <1>1, <1>2, <1>5, AccessFewerSessions DEF AccessIInv
<1>7. AccessOwnersStay
  BY <1>1 DEF AccessIInv, AccessRanked, AccessOwnersStay, AccessTInv, Access!AccountRows
<1> QED
  BY <1>2, <1>3, <1>4, <1>6, <1>7 DEF AccessIInv

LEMMA AccessRestoreStep ==
    ASSUME AccessIInv, NEW u \in sUsers, Access!Restore(u)
    PROVE  AccessIInv' /\ AccessOwnersStay
<1>1. PICK r : r = [sAccount[u] EXCEPT !.archived = FALSE]
  OBVIOUS
<1>2. sAccount[u] \in Access!AccountRows
  BY DEF AccessIInv, AccessTInv
<1>3. r \in Access!AccountRows /\ r.rank = sAccount[u].rank /\ r.epoch = sAccount[u].epoch
      /\ r.deleted = sAccount[u].deleted /\ ~r.archived
  BY <1>1, <1>2 DEF Access!AccountRows
<1>4. sAccount' = [sAccount EXCEPT ![u] = r] /\ UNCHANGED <<sNow, sSession, sJob, sCrossed>>
  BY <1>1 DEF Access!Restore
<1> QED
  BY <1>3, <1>4, AccessMarkStep DEF AccessIInv, AccessRanked

LEMMA AccessCiteStep ==
    ASSUME AccessIInv, NEW u \in sUsers, Access!Cite(u)
    PROVE  AccessIInv' /\ AccessOwnersStay
<1>1. PICK r : r = [sAccount[u] EXCEPT !.cited = TRUE]
  OBVIOUS
<1>2. sAccount[u] \in Access!AccountRows
  BY DEF AccessIInv, AccessTInv
<1>3. r \in Access!AccountRows /\ r.rank = sAccount[u].rank /\ r.epoch = sAccount[u].epoch
      /\ r.deleted = sAccount[u].deleted /\ r.archived = sAccount[u].archived
  BY <1>1, <1>2 DEF Access!AccountRows
<1>4. sAccount' = [sAccount EXCEPT ![u] = r] /\ UNCHANGED <<sNow, sSession, sJob, sCrossed>>
  BY <1>1 DEF Access!Cite
<1> QED
  BY <1>3, <1>4, AccessMarkStep DEF AccessIInv, AccessRanked

\* The clock, and a stutter.
LEMMA AccessRestStep ==
    ASSUME AccessConstantsOK, AccessIInv, Access!Tick \/ UNCHANGED Access!vars
    PROVE  AccessIInv'
<1>1. UNCHANGED <<sAccount, sSession, sJob, sCrossed>> /\ sNow' \in 0 .. sMaxNow
  BY DEF AccessConstantsOK, Access!Tick, Access!vars, AccessIInv, AccessTInv
<1>2. AccessTInv' /\ AccessApart' /\ AccessRanked'
  BY <1>1 DEF AccessIInv, AccessTInv, AccessApart, AccessBusy, AccessRanked
<1>3. Access!Rows' = Access!Rows
  BY <1>1 DEF Access!Rows
<1>4. ASSUME NEW w \in sUsers \ sCrossed' PROVE AccessCurrent(w)'
  BY <1>1, <1>2, <1>3, AccessFewerSessions DEF AccessIInv
<1> QED
  BY <1>2, <1>4 DEF AccessIInv

-----------------------------------------------------------------------------
LEMMA AccessNextStep ==
    ASSUME AccessConstantsOK, AccessIInv, [Access!Next]_Access!vars
    PROVE  AccessIInv' /\ AccessOwnersStay
<1>1. ASSUME UNCHANGED sAccount PROVE AccessOwnersStay
  BY <1>1 DEF AccessIInv, AccessRanked, AccessOwnersStay, AccessTInv, Access!AccountRows
<1>2. CASE Access!Tick \/ UNCHANGED Access!vars
  BY <1>1, <1>2, AccessRestStep DEF Access!Tick, Access!vars
<1>3. ASSUME NEW t \in Threads, Access!Authenticate(t) \/ Access!Sweep(t) \/ Access!Open(t) \/ Access!Respond(t)
                               \/ Access!Manage(t) \/ Access!Revoke(t)
      PROVE  AccessIInv' /\ AccessOwnersStay
  <2>1. UNCHANGED sAccount
    BY <1>3 DEF Access!Authenticate, Access!Sweep, Access!Open, Access!Respond, Access!Manage,
       Access!Revoke
  <2>2. AccessIInv'
    BY <1>3, AccessAuthenticateStep, AccessSweepStep, AccessOpenStep, AccessRespondStep,
       AccessManageStep, AccessRevokeStep
  <2> QED
    BY <1>1, <2>1, <2>2
<1>4. ASSUME NEW t \in Threads, Access!Commit(t) PROVE AccessIInv' /\ AccessOwnersStay
  BY <1>4, AccessCommitStep
<1>5. ASSUME NEW i \in Access!Rows, Access!EndSession(i) PROVE AccessIInv' /\ AccessOwnersStay
  BY <1>1, <1>5, AccessEndSessionStep DEF Access!EndSession
<1>6. ASSUME NEW u \in sUsers, Access!Restore(u) \/ Access!Cite(u) PROVE AccessIInv' /\ AccessOwnersStay
  BY <1>6, AccessRestoreStep, AccessCiteStep
<1> QED
  BY <1>2, <1>3, <1>4, <1>5, <1>6 DEF Access!Next

LEMMA AccessInvariant == AccessConstantsOK => (Access!Spec => []AccessIInv)
<1> SUFFICES ASSUME AccessConstantsOK PROVE Access!Spec => []AccessIInv
  OBVIOUS
<1>1. Access!Init => AccessIInv
  BY AccessInitIInv
<1>2. AccessIInv /\ [Access!Next]_Access!vars => AccessIInv'
  BY AccessNextStep
<1> QED
  BY <1>1, <1>2, PTL DEF Access!Spec

\* Every handler of accounts and sessions leaves every row in its type: TypeOK.
THEOREM AccessTypeCorrect == AccessConstantsOK => (Access!Spec => []Access!TypeOK)
<1>1. AccessIInv => Access!TypeOK
  BY DEF AccessIInv, AccessTInv, Access!TypeOK, Access!Rows
<1> QED
  BY <1>1, AccessInvariant, PTL

\* A session outlives no role change, reset, archive or deletion of its account,
\* and no restore brings one back, unless a sign-in ran beside the change.
THEOREM AccessSessionsFollowAccounts == AccessConstantsOK => (Access!Spec => []Access!SessionsAreCurrent)
<1>1. AccessIInv => Access!SessionsAreCurrent
  BY DEF AccessIInv, AccessTInv, AccessCurrent, Access!SessionsAreCurrent, Access!SessionsOf,
     Access!Rows, Access!SessionRows
<1> QED
  BY <1>1, AccessInvariant, PTL

\* The role a page was shown at sign-in (routers/auth.py) is the one the server checks.
THEOREM AccessShownRolesAreLive == AccessConstantsOK => (Access!Spec => []Access!ShownRoleIsLive)
<1>1. AccessIInv => Access!ShownRoleIsLive
  BY DEF AccessIInv, AccessTInv, AccessCurrent, Access!ShownRoleIsLive, Access!SessionsOf,
     Access!Rows, Access!SessionRows
<1> QED
  BY <1>1, AccessInvariant, PTL

\* Whatever overlaps, nobody becomes an Owner, and no Owner is demoted, archived
\* or deleted (can_manage, read before the sessions are revoked and never again).
THEOREM AccessOwnersStand == AccessConstantsOK => (Access!Spec => Access!OwnersAreFixed)
<1> SUFFICES ASSUME AccessConstantsOK PROVE Access!Spec => Access!OwnersAreFixed
  OBVIOUS
<1>1. AccessIInv /\ [Access!Next]_Access!vars =>
        [\A u \in sUsers :
                 /\ sAccount[u].rank = sOwner => sAccount'[u].rank = sOwner /\ sAccount'[u].archived = FALSE
                                         /\ ~sAccount'[u].deleted
                 /\ sAccount'[u].rank = sOwner => sAccount[u].rank = sOwner]_Access!vars
  BY AccessNextStep DEF AccessOwnersStay
<1> QED
  BY <1>1, AccessInvariant, PTL DEF Access!Spec, Access!OwnersAreFixed

-----------------------------------------------------------------------------
(* Push devices.  A send in flight holds its own endpoints, and a post reads *)
(* what it wrote.                                                          *)

PushPosts == {Push!NoPost} \cup [who : pUsers, at : pEndpoints, found : BOOLEAN, step : {"sent", "read"}]

PushTInv ==
    /\ pSignedIn \in [pDevices -> pUsers \cup {None}]
    /\ pEndpoint \in [pDevices -> pEndpoints \cup {None}]
    /\ pServed \subseteq pMinted /\ pMinted \subseteq pEndpoints
    /\ pRows \in Push!Subscriptions /\ pArchived \subseteq pUsers
    /\ pPost \in [pDevices -> PushPosts]
    /\ pSend \in [pSenders -> [on : BOOLEAN, left : SUBSET (pEndpoints \X pUsers),
                             dead : SUBSET pEndpoints]]

\* Whatever the server knows of was minted.
PushKnown ==
    /\ \A d \in pDevices : pEndpoint[d] \in pMinted \cup {None}
    /\ \A d \in pDevices : pPost[d].step # "none" => pPost[d].at \in pMinted
    /\ \A e \in pEndpoints : pRows[e] # {} => e \in pMinted
    /\ \A s \in pSenders : \A x \in pSend[s].left : x[1] \in pMinted

\* A row is one person's, and an endpoint found dead was minted and never serves again.
PushSingle == \A e \in pEndpoints : pRows[e] = {} \/ \E u \in pUsers : pRows[e] = {u}
PushDeadStay == \A s \in pSenders : pSend[s].dead \subseteq pMinted \ pServed

PushIInv == PushTInv /\ PushKnown /\ PushSingle /\ PushDeadStay

\* A set of the Push instance is as large as elsewhere.
LEMMA PushSizes == ASSUME NEW S PROVE Push!Cardinality(S) = Cardinality(S)
  BY DEF Push!Cardinality, Cardinality

-----------------------------------------------------------------------------
LEMMA PushInitIInv == Push!Init => PushIInv
  BY DEF Push!Init, PushIInv, PushTInv, PushKnown, PushSingle, PushDeadStay, PushPosts,
     Push!NoPost, Push!NoSend, Push!Subscriptions

\* Signing in, out or off, and what the browser or its push service drops.
LEMMA PushSignInStep ==
    ASSUME PushIInv, NEW d \in pDevices, NEW u \in pUsers, Push!SignIn(d, u)
    PROVE  PushIInv'
<1> DEFINE p(e) == [who |-> u, at |-> e, found |-> FALSE, step |-> "sent"]
<1>1. PICK e \in (IF pEndpoint[d] = None THEN pEndpoints \ pMinted ELSE {pEndpoint[d]}) :
        /\ pEndpoint' = [pEndpoint EXCEPT ![d] = e]
        /\ pMinted' = pMinted \cup {e} /\ pServed' = IF e \in pMinted THEN pServed ELSE pServed \cup {e}
        /\ pPost' = [pPost EXCEPT ![d] = p(e)]
  BY DEF Push!SignIn
<1>2. /\ e \in pEndpoints /\ (e \notin pMinted \/ e = pEndpoint[d])
      /\ pSignedIn' = [pSignedIn EXCEPT ![d] = u] /\ UNCHANGED <<pRows, pArchived, pSend>>
  BY <1>1 DEF Push!SignIn, PushIInv, PushTInv
<1>3. p(e) \in PushPosts /\ p(e).at = e /\ p(e).step = "sent"
  BY <1>2 DEF PushPosts
<1> HIDE DEF p
<1>4. PushTInv'
  BY <1>1, <1>2, <1>3 DEF PushIInv, PushTInv
<1>5. PushKnown'
  BY <1>1, <1>2, <1>3 DEF PushIInv, PushTInv, PushKnown
<1>6. PushSingle' /\ PushDeadStay'
  BY <1>1, <1>2 DEF PushIInv, PushSingle, PushDeadStay
<1> QED
  BY <1>4, <1>5, <1>6 DEF PushIInv

LEMMA PushLeaveStep ==
    ASSUME PushIInv, \/ \E d \in pDevices : Push!Lapse(d) \/ \E heard \in BOOLEAN : Push!SignOut(d, heard)
                     \/ \E u \in pUsers : Push!ArchiveUser(u)
    PROVE  PushIInv'
<1>1. ASSUME NEW d \in pDevices, Push!Lapse(d) PROVE PushIInv'
  BY <1>1 DEF Push!Lapse, PushIInv, PushTInv, PushKnown, PushSingle, PushDeadStay
<1>2. ASSUME NEW d \in pDevices, NEW heard \in BOOLEAN, Push!SignOut(d, heard) PROVE PushIInv'
  <2>1. CASE heard /\ pEndpoint[d] # None
    <3>1. PICK e \in pEndpoints : e = pEndpoint[d]
      BY <2>1 DEF PushIInv, PushTInv
    <3>2. /\ pRows' = [pRows EXCEPT ![e] = @ \ {pSignedIn[d]}]
          /\ pServed' = pServed \ {e} /\ pEndpoint' = [pEndpoint EXCEPT ![d] = None]
          /\ pSignedIn' = [pSignedIn EXCEPT ![d] = None]
          /\ UNCHANGED <<pMinted, pArchived, pPost, pSend>>
      BY <1>2, <2>1, <3>1 DEF Push!SignOut
    <3>3. \A f \in pEndpoints : pRows'[f] = pRows[f] \/ pRows'[f] = pRows[f] \ {pSignedIn[d]}
      BY <3>2 DEF PushIInv, PushTInv, Push!Subscriptions
    <3>4. PushTInv'
      BY <3>2, <3>3 DEF PushIInv, PushTInv, Push!Subscriptions
    <3>5. PushKnown' /\ PushDeadStay'
      BY <3>2, <3>3 DEF PushIInv, PushTInv, PushKnown, PushDeadStay
    <3>6. PushSingle'
      BY <3>3 DEF PushIInv, PushSingle
    <3> QED
      BY <3>4, <3>5, <3>6 DEF PushIInv
  <2>2. CASE ~(heard /\ pEndpoint[d] # None)
    BY <1>2, <2>2 DEF Push!SignOut, PushIInv, PushTInv, PushKnown, PushSingle, PushDeadStay
  <2> QED
    BY <2>1, <2>2
<1>3. ASSUME NEW u \in pUsers, Push!ArchiveUser(u) PROVE PushIInv'
  BY <1>3 DEF Push!ArchiveUser, PushIInv, PushTInv, PushKnown, PushSingle, PushDeadStay
<1> QED
  BY <1>1, <1>2, <1>3

\* A registration finds its row and writes it under its own person.
LEMMA PushFindStep ==
    ASSUME PushIInv, NEW d \in pDevices, Push!Find(d)
    PROVE  PushIInv'
<1> DEFINE p == [pPost[d] EXCEPT !.step = "read", !.found = pRows[pPost[d].at] # {}]
<1>1. /\ pPost' = [pPost EXCEPT ![d] = Push!NoPost] \/ pPost' = [pPost EXCEPT ![d] = p]
      /\ pPost[d].step = "sent"
      /\ UNCHANGED <<pSignedIn, pEndpoint, pMinted, pServed, pRows, pArchived, pSend>>
  BY DEF Push!Find, PushIInv, PushTInv
<1>2. pPost[d] \in [who : pUsers, at : pEndpoints, found : BOOLEAN, step : {"sent", "read"}]
  BY <1>1 DEF PushIInv, PushTInv, PushPosts, Push!NoPost
<1>3. /\ p \in [who : pUsers, at : pEndpoints, found : BOOLEAN, step : {"sent", "read"}]
      /\ p.at = pPost[d].at
  BY <1>2
<1> HIDE DEF p
<1>4. \A x \in pDevices : pPost'[x] \in {pPost[x], Push!NoPost, p} /\ (pPost'[x] = p => x = d \/ pPost[x] = p)
  BY <1>1 DEF PushIInv, PushTInv
<1>5. PushTInv'
  BY <1>1, <1>3 DEF PushIInv, PushTInv, PushPosts
<1>6. \A x \in pDevices : pPost'[x].step # "none" => pPost'[x].at \in pMinted
  BY <1>1, <1>3, <1>4 DEF PushIInv, PushTInv, PushKnown, Push!NoPost
<1> QED
  BY <1>1, <1>5, <1>6 DEF PushIInv, PushKnown, PushSingle, PushDeadStay

LEMMA PushSaveStep ==
    ASSUME PushIInv, NEW d \in pDevices, Push!Save(d)
    PROVE  PushIInv'
<1>1. PICK e, u : e = pPost[d].at /\ u = pPost[d].who
  OBVIOUS
<1>2. /\ e \in pEndpoints /\ u \in pUsers /\ e \in pMinted
      /\ pRows' = [pRows EXCEPT ![e] = {u}] \/ pRows' = pRows
      /\ pPost' = [pPost EXCEPT ![d] = Push!NoPost]
      /\ UNCHANGED <<pSignedIn, pEndpoint, pMinted, pServed, pArchived, pSend>>
  BY <1>1 DEF Push!Save, Push!Claimed, PushIInv, PushTInv, PushKnown, PushPosts, Push!NoPost
<1>3. \A f \in pEndpoints : pRows'[f] = pRows[f] \/ (f = e /\ pRows'[f] = {u})
  BY <1>2 DEF PushIInv, PushTInv, Push!Subscriptions
<1>4. PushTInv'
  BY <1>2 DEF PushIInv, PushTInv, Push!Subscriptions, PushPosts
<1>5. Push!NoPost.step = "none"
  BY DEF Push!NoPost
<1> QED
  BY <1>2, <1>3, <1>4, <1>5 DEF PushIInv, PushTInv, PushKnown, PushSingle, PushDeadStay

\* A send resolves who is subscribed, asks the push service about each, and deletes
\* the rows of the endpoints it does not serve.
LEMMA PushResolveStep ==
    ASSUME PushIInv, NEW s \in pSenders, NEW U \in SUBSET pUsers, Push!Resolve(s, U)
    PROVE  PushIInv'
<1> DEFINE L == {x \in pEndpoints \X pUsers : x[2] \in pRows[x[1]] \cap Push!Audience(U)}
           r == [on |-> TRUE, left |-> L, dead |-> {}]
<1>1. /\ pSend' = [pSend EXCEPT ![s] = r]
      /\ UNCHANGED <<pSignedIn, pEndpoint, pMinted, pServed, pRows, pArchived, pPost>>
  BY DEF Push!Resolve
<1>2. /\ r \in [on : BOOLEAN, left : SUBSET (pEndpoints \X pUsers), dead : SUBSET pEndpoints]
      /\ r.left = L /\ r.dead = {}
  OBVIOUS
<1>3. \A x \in L : x[1] \in pMinted
  BY DEF PushIInv, PushKnown
<1> HIDE DEF r, L
<1>4. \A z \in pSenders : pSend'[z] = IF z = s THEN r ELSE pSend[z]
  BY <1>1 DEF PushIInv, PushTInv
<1>5. PushTInv'
  BY <1>1, <1>2 DEF PushIInv, PushTInv
<1> QED
  BY <1>1, <1>2, <1>3, <1>4, <1>5 DEF PushIInv, PushKnown, PushSingle, PushDeadStay

LEMMA PushDeliverStep ==
    ASSUME PushIInv, NEW s \in pSenders, NEW x, Push!Deliver(s, x)
    PROVE  PushIInv'
<1>1. PICK outcome \in Push!Classified(x[1]) :
        pSend' = [pSend EXCEPT ![s].left = @ \ {x},
                             ![s].dead = IF Push!Dead(outcome) THEN @ \cup {x[1]} ELSE @]
  BY DEF Push!Deliver
<1>2. x \in pSend[s].left /\ UNCHANGED <<pSignedIn, pEndpoint, pMinted, pServed, pRows, pArchived, pPost>>
  BY DEF Push!Deliver
<1>3. x[1] \in pMinted /\ x[1] \in pEndpoints /\ (Push!Dead(outcome) => x[1] \notin pServed)
  BY <1>1, <1>2 DEF PushIInv, PushTInv, PushKnown, Push!Classified, Push!Dead
<1> DEFINE r == [pSend[s] EXCEPT !.left = @ \ {x},
                                !.dead = IF Push!Dead(outcome) THEN @ \cup {x[1]} ELSE @]
<1>4. pSend' = [pSend EXCEPT ![s] = r]
  BY <1>1 DEF PushIInv, PushTInv
<1>5. /\ r \in [on : BOOLEAN, left : SUBSET (pEndpoints \X pUsers), dead : SUBSET pEndpoints]
      /\ r.left \subseteq pSend[s].left
      /\ r.dead = pSend[s].dead \/ (r.dead = pSend[s].dead \cup {x[1]} /\ x[1] \notin pServed)
  BY <1>3 DEF PushIInv, PushTInv
<1> HIDE DEF r
<1>6. \A z \in pSenders : pSend'[z] = IF z = s THEN r ELSE pSend[z]
  BY <1>4 DEF PushIInv, PushTInv
<1>7. PushTInv'
  BY <1>2, <1>4, <1>5 DEF PushIInv, PushTInv
<1> QED
  BY <1>2, <1>3, <1>5, <1>6, <1>7 DEF PushIInv, PushKnown, PushSingle, PushDeadStay

LEMMA PushFinishStep ==
    ASSUME PushIInv, NEW s \in pSenders, Push!Finish(s)
    PROVE  PushIInv'
<1>1. /\ pSend' = [pSend EXCEPT ![s] = Push!NoSend] /\ pRows' = Push!Cleaned(s)
      /\ UNCHANGED <<pSignedIn, pEndpoint, pMinted, pServed, pArchived, pPost>>
  BY DEF Push!Finish
<1>2. /\ Push!NoSend \in [on : BOOLEAN, left : SUBSET (pEndpoints \X pUsers), dead : SUBSET pEndpoints]
      /\ Push!NoSend.left = {} /\ Push!NoSend.dead = {}
  BY DEF Push!NoSend
<1>3. \A z \in pSenders : pSend'[z] = IF z = s THEN Push!NoSend ELSE pSend[z]
  BY <1>1 DEF PushIInv, PushTInv
<1>4. \A e \in pEndpoints : pRows'[e] \in {pRows[e], {}}
  BY <1>1 DEF Push!Cleaned
<1>5. PushTInv'
  BY <1>1, <1>2 DEF PushIInv, PushTInv, Push!Cleaned, Push!Subscriptions
<1> QED
  BY <1>1, <1>2, <1>3, <1>4, <1>5 DEF PushIInv, PushKnown, PushSingle, PushDeadStay

LEMMA PushNextStep == ASSUME PushIInv, [Push!Next]_Push!vars PROVE PushIInv'
<1>1. CASE UNCHANGED Push!vars
  BY <1>1 DEF Push!vars, PushIInv, PushTInv, PushKnown, PushSingle, PushDeadStay
<1> QED
  BY <1>1, PushSignInStep, PushLeaveStep, PushFindStep, PushSaveStep, PushResolveStep,
     PushDeliverStep, PushFinishStep DEF Push!Next

LEMMA PushInvariant == Push!Spec => []PushIInv
  BY PushInitIInv, PushNextStep, PTL DEF Push!Spec

\* Sign-ins, posts and sends leave devices and subscriptions in their types: TypeOK.
THEOREM PushTypeCorrect == Push!Spec => []Push!TypeOK
<1>1. ASSUME PushIInv PROVE Push!TypeOK
  <2>1. PushPosts \subseteq [who : pUsers \cup {None}, at : pEndpoints \cup {None},
                         found : BOOLEAN, step : {"none", "sent", "read"}]
    <3>1. Push!NoPost \in [who : pUsers \cup {None}, at : pEndpoints \cup {None},
                      found : BOOLEAN, step : {"none", "sent", "read"}]
      BY DEF Push!NoPost
    <3>2. [who : pUsers, at : pEndpoints, found : BOOLEAN, step : {"sent", "read"}]
            \subseteq [who : pUsers \cup {None}, at : pEndpoints \cup {None},
                       found : BOOLEAN, step : {"none", "sent", "read"}]
      OBVIOUS
    <3> QED
      BY <3>1, <3>2 DEF PushPosts
  <2> QED
    BY <1>1, <2>1 DEF PushIInv, PushTInv, Push!TypeOK
<1> QED
  BY <1>1, PushInvariant, PTL

\* Whoever posts an endpoint takes it over: it is never claimed by two
\* (push.py, the upsert on the endpoint).
THEOREM PushClaimsAreSingle == Push!Spec => []Push!OneClaim
<1>1. ASSUME PushIInv PROVE Push!OneClaim
  <2> SUFFICES ASSUME NEW e \in pEndpoints PROVE Push!Cardinality(pRows[e]) <= 1
    BY DEF Push!OneClaim
  <2>1. pRows[e] = {} \/ \E u \in pUsers : pRows[e] = {u}
    BY <1>1 DEF PushIInv, PushSingle
  <2>2. Push!Cardinality(pRows[e]) \in {0, 1}
    BY <2>1, FS_EmptySet, FS_Singleton, PushSizes, Zenon
  <2> QED
    BY <2>2
<1> QED
  BY <1>1, PushInvariant, PTL

\* Only the end of a send both clears rows and changes a send.
THEOREM PushServedStaySubscribed == Push!Spec => Push!LiveStaysSubscribed
<1> DEFINE A == \A e \in pEndpoints :
                  pRows[e] # {} /\ pRows'[e] = {} /\ (\E s \in pSenders : pSend'[s] # pSend[s])
                  => e \notin pServed
<1>1. ASSUME PushIInv, [Push!Next]_Push!vars PROVE A
  <2> SUFFICES ASSUME NEW e \in pEndpoints, pRows[e] # {}, pRows'[e] = {},
                      NEW s \in pSenders, pSend'[s] # pSend[s]
               PROVE  e \notin pServed
    OBVIOUS
  <2>1. PICK z \in pSenders : Push!Finish(z)
    BY <1>1 DEF Push!Next, Push!vars, Push!SignIn, Push!SignOut, Push!ArchiveUser, Push!Lapse,
       Push!Find, Push!Save, Push!Resolve, Push!Deliver
  <2>2. e \in pSend[z].dead
    BY <2>1 DEF Push!Finish, Push!Cleaned
  <2> QED
    BY <1>1, <2>2 DEF PushIInv, PushDeadStay
<1>2. PushIInv /\ [Push!Next]_Push!vars => [A]_Push!vars
  BY <1>1
<1> QED
  BY <1>2, PushInvariant, PTL DEF Push!Spec, Push!LiveStaysSubscribed

-----------------------------------------------------------------------------
(* Low-stock alerts.  A request holds the item (Held), and what it has yet to *)
(* write agrees with what it read.                                         *)

AlertsAsks(o) == [op : {o}, n : Int, price : BOOLEAN, link : BOOLEAN]

\* A request under way is of an operation that may be asked, from what it saw.
AlertsWellAsked(j) ==
    /\ \E o : j.req \in AlertsAsks(o)
    /\ j.wants \in BOOLEAN
    /\ j.saw = <<j.saw[1], j.saw[2]>>
    /\ j.saw[1] \in 0 .. aMaxQty /\ j.saw[2] \in Alerts!Thresholds
    /\ j.req.op = "stock" => j.saw[1] + j.req.n \in 0 .. aMaxQty
    /\ j.req.op = "retune" => j.req.n \in Alerts!Thresholds
    /\ j.req.op \in Alerts!Locks \cup {"fulfil"}

AlertsTInv ==
    /\ aQuantity \in 0 .. aMaxQty /\ aThreshold \in Alerts!Thresholds
    /\ aArchived \in BOOLEAN /\ aPriced \in BOOLEAN /\ aLinked \in BOOLEAN
    /\ aPage \in BOOLEAN /\ aBorn \in BOOLEAN
    /\ aAsks \in 0 .. aMaxAsks /\ aLoose \in 0 .. aMaxAsks /\ aAsks + aLoose <= aMaxAsks
    /\ aPushes \in 0 .. 2
    /\ aLock \in Threads \cup {None}
    /\ DOMAIN aJob = Threads
    /\ \A t \in Threads : aJob[t].phase \in {"idle", "commit", "emit"}
    /\ \A t \in Threads : aJob[t].phase = "commit" => AlertsWellAsked(aJob[t])

\* Whoever locks the item saw it as it is, and its missing-price request.
AlertsHeld ==
    /\ \A t \in Threads : aJob[t].phase = "commit" /\ aJob[t].req.op \in Alerts!Locks <=> aLock = t
    /\ \A t \in Threads : aLock = t =>
          /\ aJob[t].saw = <<aQuantity, aThreshold>>
          /\ aJob[t].wants => aAsks = 0 /\ ~aPriced

\* One push per fall; an item born low was not pushed.
AlertsTold ==
    /\ ~Alerts!IsLow(aQuantity, aThreshold) => aPushes = 0 /\ ~aBorn
    /\ Alerts!IsLow(aQuantity, aThreshold) /\ ~aBorn => aPushes = 1

\* A page that does not show what is low has a route about to say so.
AlertsShown == aPage = Alerts!Low \/ \E t \in Threads : aJob[t].phase = "emit"

AlertsIInv == AlertsTInv /\ AlertsHeld /\ AlertsTold /\ AlertsShown /\ Alerts!PriceQueue

-----------------------------------------------------------------------------
LEMMA AlertsInitIInv == ASSUME AlertsConstantsOK, Alerts!Init PROVE AlertsIInv
<1>1. \A t \in Threads : aJob[t].phase = "idle"
  BY DEF Alerts!Init, Alerts!Idle
<1>2. aBorn = Alerts!IsLow(aQuantity, aThreshold) /\ aBorn \in BOOLEAN /\ aPage = aBorn /\ aPage \in BOOLEAN
  <2>1. Alerts!IsLow(aQuantity, aThreshold) \in BOOLEAN
    BY DEF Alerts!IsLow
  <2> QED
    BY <2>1, Zenon DEF Alerts!Init
<1>3. aPage = Alerts!Low
  BY <1>2 DEF Alerts!Init, Alerts!Low
<1>4. AlertsHeld /\ AlertsShown /\ Alerts!PriceQueue
  BY <1>1, <1>3 DEF AlertsConstantsOK, Alerts!Init, AlertsHeld, AlertsShown, Alerts!PriceQueue
<1>5. AlertsTold
  <2>1. (aBorn => Alerts!IsLow(aQuantity, aThreshold)) /\ (Alerts!IsLow(aQuantity, aThreshold) => aBorn)
    BY <1>2, Zenon
  <2> QED
    BY <2>1 DEF Alerts!Init, AlertsTold
<1>6. AlertsTInv
  <2>1. aArchived \in BOOLEAN /\ aPriced \in BOOLEAN /\ aLinked \in BOOLEAN
    BY DEF Alerts!Init
  <2>2. /\ aQuantity \in 0 .. aMaxQty /\ aThreshold \in Alerts!Thresholds /\ aPushes \in 0 .. 2
        /\ aAsks \in 0 .. aMaxAsks /\ aLoose \in 0 .. aMaxAsks /\ aAsks + aLoose <= aMaxAsks
    BY DEF AlertsConstantsOK, Alerts!Init, Alerts!Thresholds
  <2>3. aLock \in Threads \cup {None} /\ DOMAIN aJob = Threads
    BY DEF Alerts!Init
  <2> QED
    BY <1>1, <1>2, <2>1, <2>2, <2>3 DEF AlertsTInv
<1> QED
  BY <1>4, <1>5, <1>6 DEF AlertsIInv

\* What may be asked of an operation.
LEMMA AlertsAskIs ==
    ASSUME NEW o, NEW n \in Int, NEW p \in BOOLEAN, NEW l \in BOOLEAN
    PROVE  Alerts!Ask(o, n, p, l) \in AlertsAsks(o) /\ Alerts!Ask(o, n, p, l).op = o /\ Alerts!Ask(o, n, p, l).n = n
  BY DEF Alerts!Ask, AlertsAsks

LEMMA AlertsPlainAskIs ==
    ASSUME NEW o, NEW n \in Int
    PROVE  /\ Alerts!Ask(o, n, FALSE, FALSE) \in AlertsAsks(o) /\ Alerts!Ask(o, n, FALSE, FALSE).op = o
           /\ Alerts!Ask(o, n, FALSE, FALSE).n = n
  BY DEF Alerts!Ask, AlertsAsks

LEMMA AlertsAskedIs ==
    ASSUME AlertsConstantsOK, NEW o \in Alerts!Locks \cup {"fulfil"}, NEW r \in Alerts!Asked(o)
    PROVE  r \in AlertsAsks(o) /\ r.op = o /\ (o = "retune" => r.n \in Alerts!Thresholds)
<1>1. CASE o = "stock"
  <2>1. Alerts!Asked(o) = {Alerts!Ask(o, d, FALSE, FALSE) : d \in {-2, -1, 1, 2}}
    BY <1>1 DEF Alerts!Asked
  <2>2. PICK d \in {-2, -1, 1, 2} : r = Alerts!Ask(o, d, FALSE, FALSE)
    BY <2>1
  <2> QED
    <3>1. d \in Int
      BY <2>2
    <3> QED
      BY <1>1, <2>2, <3>1, AlertsPlainAskIs
<1>2. CASE o = "retune"
  <2>1. Alerts!Asked(o) = {Alerts!Ask(o, n, FALSE, FALSE) : n \in Alerts!Thresholds}
    BY <1>2 DEF Alerts!Asked
  <2>2. PICK n \in Alerts!Thresholds : r = Alerts!Ask(o, n, FALSE, FALSE)
    BY <2>1
  <2>3. n \in Int
    BY DEF Alerts!Thresholds, AlertsConstantsOK
  <2> QED
    BY <2>2, <2>3, AlertsPlainAskIs
<1>3. CASE o = "edit"
  <2>1. Alerts!Asked(o) = {Alerts!Ask(o, 0, p, l) : p \in BOOLEAN, l \in BOOLEAN}
    BY <1>3 DEF Alerts!Asked
  <2>2. PICK p \in BOOLEAN, l \in BOOLEAN : r = Alerts!Ask(o, 0, p, l)
    BY <2>1
  <2> QED
    BY <1>3, <2>2, AlertsAskIs
<1>4. CASE o \in {"attach", "fulfil"}
  <2>1. o = "attach" => Alerts!Asked(o) = {Alerts!Ask(o, 0, FALSE, FALSE)}
    BY DEF Alerts!Asked
  <2>2. o = "fulfil" => Alerts!Asked(o) = {Alerts!Ask(o, 0, FALSE, FALSE)}
    BY DEF Alerts!Asked
  <2>3. PICK n \in Int : r = Alerts!Ask(o, n, FALSE, FALSE)
    <3>1. Alerts!Asked(o) = {Alerts!Ask(o, 0, FALSE, FALSE)}
      BY <1>4, <2>1, <2>2
    <3>2. r = Alerts!Ask(o, 0, FALSE, FALSE)
      BY <3>1, Zenon
    <3>3. 0 \in Int
      OBVIOUS
    <3> QED
      BY <3>2, <3>3, Zenon
  <2>4. o # "retune"
    BY <1>4
  <2> QED
    BY <2>3, <2>4, AlertsPlainAskIs
<1> QED
  BY <1>1, <1>2, <1>3, <1>4 DEF Alerts!Locks

LEMMA AlertsReadStep ==
    ASSUME AlertsConstantsOK, AlertsIInv, NEW t \in Threads, Alerts!Read(t)
    PROVE  AlertsIInv'
<1>1. PICK o, r :
        /\ o \in aSends[t] \ {"archive"} /\ r \in Alerts!Asked(o)
        /\ o \in Alerts!Locks => aLock = None
        /\ o = "stock" => aQuantity + r.n \in 0 .. aMaxQty
        /\ aLock' = IF o \in Alerts!Locks THEN t ELSE aLock
        /\ aJob' = [aJob EXCEPT ![t] =
             [phase |-> "commit", req |-> r, saw |-> <<aQuantity, aThreshold>>,
              wants |-> ~aPriced /\ aAsks + aLoose = 0]]
  BY DEF Alerts!Read
<1>2. /\ aJob[t].phase = "idle"
      /\ UNCHANGED <<aQuantity, aThreshold, aArchived, aPriced, aLinked, aAsks, aLoose, aPage, aPushes,
                     aBorn>>
  BY DEF Alerts!Read
<1>3. /\ r \in AlertsAsks(o) /\ r.op = o /\ (o = "retune" => r.n \in Alerts!Thresholds)
      /\ o \in Alerts!Locks \cup {"fulfil"}
  <2>1. o \in Alerts!Locks \cup {"fulfil"}
    BY <1>1 DEF AlertsConstantsOK, Alerts!Locks
  <2> QED
    BY <1>1, <2>1, AlertsAskedIs
<1>4. PICK j : j = [phase |-> "commit", req |-> r, saw |-> <<aQuantity, aThreshold>>,
                    wants |-> ~aPriced /\ aAsks + aLoose = 0]
  OBVIOUS
<1>5. /\ j.phase = "commit" /\ j.req = r /\ j.saw = <<aQuantity, aThreshold>>
      /\ j.wants = (~aPriced /\ aAsks + aLoose = 0)
  BY <1>4
<1>6. aJob' = [aJob EXCEPT ![t] = j]
  BY <1>1, <1>4
<1>7. AlertsWellAsked(j)
  <2>1. j.wants \in BOOLEAN
    BY <1>5, Zenon
  <2> QED
    BY <1>1, <1>3, <1>5, <2>1 DEF AlertsWellAsked, AlertsIInv, AlertsTInv
<1>8. aJob'[t] = j /\ \A v \in Threads \ {t} : aJob'[v] = aJob[v]
  BY <1>6 DEF AlertsIInv, AlertsTInv
<1>9. AlertsTInv'
  <2>1. \A v \in Threads : aJob'[v].phase = "commit" => AlertsWellAsked(aJob'[v])
    BY <1>5, <1>7, <1>8 DEF AlertsIInv, AlertsTInv
  <2>2. (\A v \in Threads : aJob[v].phase = "commit" => AlertsWellAsked(aJob[v]))'
    BY <2>1 DEF AlertsWellAsked, Alerts!Thresholds
  <2> QED
    BY <1>1, <1>2, <1>5, <1>6, <1>8, <2>2 DEF AlertsIInv, AlertsTInv, Alerts!Thresholds
<1>10. AlertsHeld'
  <2>1. CASE o \in Alerts!Locks
    <3>1. aLock = None /\ aLock' = t
      BY <1>1, <2>1
    <3>2. \A v \in Threads : ~(aJob[v].phase = "commit" /\ aJob[v].req.op \in Alerts!Locks)
      BY <3>1 DEF AlertsIInv, AlertsHeld, AlertsConstantsOK
    <3>3. j.wants => aAsks = 0 /\ ~aPriced
      <4>1. j.wants => ~aPriced /\ aAsks + aLoose = 0
        BY <1>5, Zenon
      <4> QED
        BY <4>1 DEF AlertsIInv, AlertsTInv
    <3> QED
      BY <1>2, <1>3, <1>5, <1>8, <2>1, <3>1, <3>2, <3>3 DEF AlertsHeld, Alerts!Locks
  <2>2. CASE o \notin Alerts!Locks
    <3>1. aLock' = aLock /\ aLock # t
      BY <1>1, <1>2, <2>2 DEF AlertsIInv, AlertsHeld
    <3> QED
      BY <1>2, <1>3, <1>5, <1>8, <2>2, <3>1 DEF AlertsIInv, AlertsHeld, Alerts!Locks
  <2> QED
    BY <2>1, <2>2
<1>11. AlertsShown'
  BY <1>2, <1>8 DEF AlertsIInv, AlertsShown, Alerts!Low
<1> QED
  BY <1>2, <1>9, <1>10, <1>11 DEF AlertsIInv, AlertsTold, Alerts!PriceQueue
\* A write commits under the lock it read with, or files what it found missing.
LEMMA AlertsLockedCommitStep ==
    ASSUME AlertsConstantsOK, AlertsIInv, NEW t \in Threads, Alerts!Commit(t), aJob[t].req.op \in Alerts!Locks
    PROVE  AlertsIInv'
<1> DEFINE j == aJob[t]
<1>1. aLock = t /\ j.phase = "commit" /\ AlertsWellAsked(j) /\ j.saw = <<aQuantity, aThreshold>>
      /\ (j.wants => aAsks = 0 /\ ~aPriced)
  BY DEF Alerts!Commit, AlertsIInv, AlertsTInv, AlertsHeld
<1>2. PICK a1, a2 : Alerts!After(j) = <<a1, a2>> /\ a1 \in 0 .. aMaxQty /\ a2 \in Alerts!Thresholds
        /\ (j.req.op \notin {"stock", "retune"} => a1 = aQuantity /\ a2 = aThreshold)
        /\ (j.req.op = "stock" => a2 = aThreshold) /\ (j.req.op = "retune" => a1 = aQuantity)
  <2>1. CASE j.req.op = "stock"
    BY <1>1, <2>1 DEF Alerts!After, AlertsWellAsked
  <2>2. CASE j.req.op = "retune"
    BY <1>1, <2>2 DEF Alerts!After, AlertsWellAsked
  <2>3. CASE j.req.op \notin {"stock", "retune"}
    <3>1. Alerts!After(j) = j.saw
      BY <2>3 DEF Alerts!After
    <3> QED
      BY <1>1, <2>3, <3>1 DEF AlertsWellAsked
  <2> QED
    BY <2>1, <2>2, <2>3
<1>3. aQuantity' = a1 /\ aThreshold' = a2
  BY <1>1, <1>2 DEF Alerts!Commit, Alerts!Writes
<1>4. PICK told : told = Alerts!CrossedIntoLow(j.saw, Alerts!After(j))
  OBVIOUS
<1>5. /\ aPushes' = Alerts!Pushed(told, Alerts!IsLow(a1, a2))
      /\ aBorn' = (aBorn /\ Alerts!IsLow(a1, a2))
      /\ aLock' = None
      /\ UNCHANGED <<aArchived, aPage>>
  BY <1>1, <1>3, <1>4 DEF Alerts!Commit
<1>6. told = (~Alerts!IsLow(aQuantity, aThreshold) /\ Alerts!IsLow(a1, a2))
  BY <1>1, <1>2, <1>4 DEF Alerts!CrossedIntoLow
<1>16. PICK i : i = IF Alerts!MembershipChanged(j.saw, Alerts!After(j)) THEN [phase |-> "emit"] ELSE Alerts!Idle
  OBVIOUS
<1>7. /\ i.phase \in {"idle", "emit"} /\ aJob' = [aJob EXCEPT ![t] = i]
      /\ i.phase = "idle" => (Alerts!IsLow(a1, a2) <=> Alerts!IsLow(aQuantity, aThreshold))
  <2>1. aJob' = [aJob EXCEPT ![t] = i]
    BY <1>16 DEF Alerts!Commit
  <2>2. CASE Alerts!MembershipChanged(j.saw, Alerts!After(j))
    <3>1. i = [phase |-> "emit"]
      BY <1>16, <2>2
    <3>2. i.phase = "emit"
      BY <3>1
    <3> QED
      BY <2>1, <3>2
  <2>3. CASE ~Alerts!MembershipChanged(j.saw, Alerts!After(j))
    <3>1. i = [phase |-> "idle"]
      BY <1>16, <2>3 DEF Alerts!Idle
    <3>2. i.phase = "idle"
      BY <3>1
    <3>3. Alerts!IsLow(a1, a2) = Alerts!IsLow(aQuantity, aThreshold)
      BY <1>1, <1>2, <2>3 DEF Alerts!MembershipChanged
    <3> QED
      BY <2>1, <3>2, <3>3
  <2> QED
    BY <2>2, <2>3
<1>8. aJob'[t] = i /\ \A v \in Threads \ {t} : aJob'[v] = aJob[v]
  BY <1>7 DEF AlertsIInv, AlertsTInv
<1>9. aBorn \in BOOLEAN /\ aBorn' \in BOOLEAN /\ (aBorn' => aBorn /\ Alerts!IsLow(a1, a2))
      /\ (aBorn /\ Alerts!IsLow(a1, a2) => aBorn')
  BY <1>5, Zenon DEF AlertsIInv, AlertsTInv
<1>10. AlertsTold' /\ aPushes' \in 0 .. 2
  <2>1. CASE ~Alerts!IsLow(a1, a2)
    BY <1>3, <1>5, <1>9, <2>1 DEF Alerts!Pushed, AlertsTold
  <2>2. CASE Alerts!IsLow(a1, a2) /\ ~Alerts!IsLow(aQuantity, aThreshold)
    <3>1. told /\ aPushes = 0
      BY <1>6, <2>2 DEF AlertsIInv, AlertsTold
    <3> QED
      BY <1>3, <1>5, <1>9, <2>2, <3>1 DEF Alerts!Pushed, AlertsTold
  <2>3. CASE Alerts!IsLow(a1, a2) /\ Alerts!IsLow(aQuantity, aThreshold)
    <3>1. ~told
      BY <1>6, <2>3
    <3>2. aPushes' = aPushes
      BY <1>5, <2>3, <3>1 DEF Alerts!Pushed
    <3> QED
      BY <1>3, <1>9, <2>3, <3>2 DEF AlertsIInv, AlertsTInv, AlertsTold
  <2> QED
    BY <2>1, <2>2, <2>3
<1>11. /\ aAsks' = 0 \/ aAsks' = aAsks \/ (aAsks' = aAsks + 1 /\ aAsks = 0 /\ ~aPriced /\ aAsks + aLoose < aMaxAsks)
       /\ aLoose' = 0 \/ aLoose' = aLoose
       /\ aAsks' = aAsks + 1 => j.req.op = "attach" /\ aLoose' = aLoose
  <2>1. CASE Alerts!Settles(j.req)
    BY <1>1, <2>1 DEF Alerts!Commit, AlertsIInv, AlertsTInv
  <2>2. CASE ~Alerts!Settles(j.req) /\ j.req.op = "attach" /\ j.wants
    BY <1>1, <2>2 DEF Alerts!Commit, AlertsIInv, AlertsTInv
  <2>3. CASE ~Alerts!Settles(j.req) /\ ~(j.req.op = "attach" /\ j.wants)
    BY <1>1, <2>3 DEF Alerts!Commit, AlertsIInv, AlertsTInv, Alerts!Locks
  <2> QED
    BY <2>1, <2>2, <2>3
<1>12. aPriced' \in BOOLEAN /\ aLinked' \in BOOLEAN /\ Alerts!PriceQueue'
  <2>1. CASE j.req.op = "edit"
    <3>1. /\ aPriced' = j.req.price /\ aLinked' = j.req.link
          /\ j.req.price \in BOOLEAN /\ j.req.link \in BOOLEAN
      BY <1>1, <2>1 DEF Alerts!Commit, AlertsWellAsked, AlertsAsks
    <3>2. aPriced' /\ aLinked' => aAsks' = 0
      BY <2>1, <3>1 DEF Alerts!Commit, Alerts!Settles
    <3>3. aAsks' <= 1
      BY <1>11, <2>1 DEF AlertsIInv, AlertsTInv, Alerts!PriceQueue
    <3> QED
      BY <3>1, <3>2, <3>3 DEF Alerts!PriceQueue
  <2>2. CASE j.req.op # "edit"
    BY <1>11, <2>2 DEF Alerts!Commit, AlertsIInv, AlertsTInv, Alerts!PriceQueue
  <2> QED
    BY <2>1, <2>2
<1>13. AlertsTInv'
  <2>1. \A v \in Threads : aJob'[v].phase = "commit" => AlertsWellAsked(aJob'[v])
    BY <1>7, <1>8 DEF AlertsIInv, AlertsTInv
  <2>2. (\A v \in Threads : aJob[v].phase = "commit" => AlertsWellAsked(aJob[v]))'
    BY <2>1 DEF AlertsWellAsked, Alerts!Thresholds
  <2>3. aAsks' \in 0 .. aMaxAsks /\ aLoose' \in 0 .. aMaxAsks /\ aAsks' + aLoose' <= aMaxAsks
    BY <1>11 DEF AlertsIInv, AlertsTInv, AlertsConstantsOK
  <2> QED
    BY <1>2, <1>3, <1>5, <1>7, <1>8, <1>9, <1>10, <1>12, <2>2, <2>3 DEF AlertsIInv, AlertsTInv,
       Alerts!Thresholds
<1>14. AlertsHeld'
  BY <1>1, <1>5, <1>7, <1>8 DEF AlertsIInv, AlertsTInv, AlertsHeld, AlertsConstantsOK
<1>15. AlertsShown'
  <2>1. CASE i.phase = "emit"
    BY <1>8, <2>1 DEF AlertsShown
  <2>2. CASE i.phase = "idle"
    <3>1. Alerts!Low' = Alerts!Low
      BY <1>3, <1>5, <1>7, <2>2 DEF Alerts!Low
    <3> QED
      BY <1>1, <1>5, <1>8, <3>1 DEF AlertsIInv, AlertsShown
  <2> QED
    BY <1>7, <2>1, <2>2
<1> QED
  BY <1>10, <1>12, <1>13, <1>14, <1>15 DEF AlertsIInv

\* A fulfilment takes no lock and changes neither count nor threshold.
LEMMA AlertsLooseCommitStep ==
    ASSUME AlertsConstantsOK, AlertsIInv, NEW t \in Threads, Alerts!Commit(t), aJob[t].req.op \notin Alerts!Locks
    PROVE  AlertsIInv'
<1> DEFINE j == aJob[t]
<1>1. j.phase = "commit" /\ AlertsWellAsked(j) /\ j.req.op = "fulfil" /\ aLock # t
  BY DEF Alerts!Commit, AlertsIInv, AlertsTInv, AlertsHeld, AlertsWellAsked
<1>2. Alerts!After(j) = j.saw
  BY <1>1 DEF Alerts!After
<1>3. ~Alerts!MembershipChanged(j.saw, Alerts!After(j)) /\ ~Alerts!CrossedIntoLow(j.saw, Alerts!After(j))
  BY <1>2 DEF Alerts!MembershipChanged, Alerts!CrossedIntoLow
<1>4. /\ UNCHANGED <<aQuantity, aThreshold, aPriced, aLinked, aAsks, aArchived, aPage, aLock>>
      /\ aJob' = [aJob EXCEPT ![t] = Alerts!Idle]
      /\ aLoose' = aLoose \/ aLoose' = aLoose + 1
      /\ aAsks + aLoose < aMaxAsks
  BY <1>1, <1>3 DEF Alerts!Commit, Alerts!Writes, Alerts!Settles, AlertsIInv, AlertsTInv
<1>5. /\ aPushes' = Alerts!Pushed(FALSE, Alerts!IsLow(aQuantity, aThreshold))
      /\ aBorn' = (aBorn /\ Alerts!IsLow(aQuantity, aThreshold))
  <2>1. Alerts!CrossedIntoLow(j.saw, Alerts!After(j)) = FALSE
    BY <1>3 DEF Alerts!CrossedIntoLow
  <2> QED
    BY <1>4, <2>1 DEF Alerts!Commit
<1>6. aPushes' = aPushes
  BY <1>5 DEF Alerts!Pushed, AlertsIInv, AlertsTold
<1>7. aBorn' = aBorn
  <2>1. aBorn \in BOOLEAN /\ (aBorn => Alerts!IsLow(aQuantity, aThreshold))
    BY DEF AlertsIInv, AlertsTInv, AlertsTold
  <2> QED
    BY <1>5, <2>1
<1>8. aJob'[t] = Alerts!Idle /\ Alerts!Idle.phase = "idle" /\ \A v \in Threads \ {t} : aJob'[v] = aJob[v]
  BY <1>4 DEF AlertsIInv, AlertsTInv, Alerts!Idle
<1>9. AlertsTInv'
  <2>1. \A v \in Threads : aJob'[v].phase = "commit" => AlertsWellAsked(aJob'[v])
    BY <1>8 DEF AlertsIInv, AlertsTInv
  <2>2. (\A v \in Threads : aJob[v].phase = "commit" => AlertsWellAsked(aJob[v]))'
    BY <2>1 DEF AlertsWellAsked, Alerts!Thresholds
  <2>3. aLoose' \in 0 .. aMaxAsks /\ aAsks' + aLoose' <= aMaxAsks
    <3>1. /\ aLoose' = aLoose \/ aLoose' = aLoose + 1
          /\ aAsks' = aAsks /\ aAsks + aLoose < aMaxAsks
      BY <1>4
    <3> QED
      BY <3>1 DEF AlertsIInv, AlertsTInv, AlertsConstantsOK
  <2> QED
    BY <1>4, <1>6, <1>7, <1>8, <2>2, <2>3 DEF AlertsIInv, AlertsTInv, Alerts!Thresholds
<1>10. AlertsHeld' /\ AlertsShown'
  BY <1>1, <1>4, <1>8 DEF AlertsIInv, AlertsHeld, AlertsShown, Alerts!Low
<1> QED
  BY <1>4, <1>6, <1>7, <1>9, <1>10 DEF AlertsIInv, AlertsTold, Alerts!PriceQueue

LEMMA AlertsArchiveStep ==
    ASSUME AlertsConstantsOK, AlertsIInv, NEW t \in Threads, Alerts!Archive(t)
    PROVE  AlertsIInv'
<1> DEFINE i == [phase |-> "emit"]
<1>1. /\ aJob[t].phase = "idle" /\ aArchived' = TRUE /\ aJob' = [aJob EXCEPT ![t] = i]
      /\ UNCHANGED <<aQuantity, aThreshold, aPriced, aLinked, aAsks, aLoose, aPage, aPushes, aBorn, aLock>>
  BY DEF Alerts!Archive
<1>2. i.phase = "emit"
  OBVIOUS
<1> HIDE DEF i
<1>3. aJob'[t] = i /\ \A v \in Threads \ {t} : aJob'[v] = aJob[v]
  BY <1>1 DEF AlertsIInv, AlertsTInv
<1>4. (\A v \in Threads : aJob[v].phase = "commit" => AlertsWellAsked(aJob[v]))'
  BY <1>2, <1>3 DEF AlertsIInv, AlertsTInv, AlertsWellAsked, Alerts!Thresholds
<1>5. AlertsTInv'
  BY <1>1, <1>2, <1>3, <1>4 DEF AlertsIInv, AlertsTInv, Alerts!Thresholds
<1>6. AlertsHeld' /\ AlertsShown'
  BY <1>1, <1>2, <1>3 DEF AlertsIInv, AlertsHeld, AlertsShown
<1> QED
  BY <1>1, <1>5, <1>6 DEF AlertsIInv, AlertsTold, Alerts!PriceQueue

LEMMA AlertsEmitStep ==
    ASSUME AlertsConstantsOK, AlertsIInv, NEW t \in Threads, Alerts!Emit(t)
    PROVE  AlertsIInv'
<1>1. /\ aJob[t].phase = "emit" /\ aPage' = Alerts!Low /\ aJob' = [aJob EXCEPT ![t] = Alerts!Idle]
      /\ UNCHANGED <<aQuantity, aThreshold, aArchived, aPriced, aLinked, aAsks, aLoose, aPushes, aBorn,
                     aLock>>
  BY DEF Alerts!Emit
<1>2. Alerts!Idle.phase = "idle"
  BY DEF Alerts!Idle
<1>3. aJob'[t] = Alerts!Idle /\ \A v \in Threads \ {t} : aJob'[v] = aJob[v]
  BY <1>1 DEF AlertsIInv, AlertsTInv
<1>4. (\A v \in Threads : aJob[v].phase = "commit" => AlertsWellAsked(aJob[v]))'
  BY <1>2, <1>3 DEF AlertsIInv, AlertsTInv, AlertsWellAsked, Alerts!Thresholds
<1>5. Alerts!Low \in BOOLEAN /\ Alerts!Low' = Alerts!Low
  BY <1>1 DEF Alerts!Low, AlertsIInv, AlertsTInv
<1>6. AlertsTInv'
  BY <1>1, <1>2, <1>3, <1>4, <1>5 DEF AlertsIInv, AlertsTInv, Alerts!Thresholds
<1>7. AlertsHeld' /\ AlertsShown'
  BY <1>1, <1>2, <1>3, <1>5 DEF AlertsIInv, AlertsHeld, AlertsShown
<1> QED
  BY <1>1, <1>6, <1>7 DEF AlertsIInv, AlertsTold, Alerts!PriceQueue

LEMMA AlertsCloseStep == ASSUME AlertsConstantsOK, AlertsIInv, Alerts!Close PROVE AlertsIInv'
<1>1. (\A v \in Threads : aJob[v].phase = "commit" => AlertsWellAsked(aJob[v]))'
  BY DEF Alerts!Close, AlertsIInv, AlertsTInv, AlertsWellAsked, Alerts!Thresholds
<1>2. AlertsTInv'
  BY <1>1 DEF Alerts!Close, AlertsIInv, AlertsTInv, Alerts!Thresholds, AlertsConstantsOK
<1>3. AlertsHeld' /\ AlertsTold' /\ AlertsShown' /\ Alerts!PriceQueue'
  BY DEF Alerts!Close, AlertsIInv, AlertsHeld, AlertsTold, AlertsShown, Alerts!Low,
     Alerts!PriceQueue
<1> QED
  BY <1>2, <1>3 DEF AlertsIInv

LEMMA AlertsInvariant == AlertsConstantsOK => (Alerts!Spec => []AlertsIInv)
<1> SUFFICES ASSUME AlertsConstantsOK PROVE Alerts!Spec => []AlertsIInv
  OBVIOUS
<1>1. AlertsIInv /\ UNCHANGED Alerts!vars => AlertsIInv'
  BY DEF Alerts!vars, AlertsIInv, AlertsTInv, AlertsHeld, AlertsTold, AlertsShown, Alerts!Low,
     Alerts!PriceQueue, AlertsWellAsked, Alerts!Thresholds
<1>2. AlertsIInv /\ [Alerts!Next]_Alerts!vars => AlertsIInv'
  BY <1>1, AlertsReadStep, AlertsLockedCommitStep, AlertsLooseCommitStep, AlertsArchiveStep,
     AlertsEmitStep, AlertsCloseStep DEF Alerts!Next
<1> QED
  BY <1>2, AlertsInitIInv, PTL DEF Alerts!Spec

\* Every request leaves the item and its queues in their types: TypeOK.
THEOREM AlertsTypeCorrect == AlertsConstantsOK => (Alerts!Spec => []Alerts!TypeOK)
<1>1. AlertsIInv => Alerts!TypeOK
  BY DEF AlertsIInv, AlertsTInv, Alerts!TypeOK, Alerts!Thresholds
<1> QED
  BY <1>1, AlertsInvariant, PTL

\* However two clerks' movements and threshold changes cross, an item that became
\* low was announced by exactly one push (items.py, notify_low_stock).
THEOREM AlertsFallsAreAnnounced == AlertsConstantsOK => (Alerts!Spec => []Alerts!LowIsAnnounced)
<1>1. AlertsIInv => Alerts!LowIsAnnounced
  BY DEF AlertsIInv, AlertsTold, Alerts!LowIsAnnounced
<1> QED
  BY <1>1, AlertsInvariant, PTL

\* Once every request has emitted its event the Low Stock page shows what is low.
THEOREM AlertsPageIsCurrent == AlertsConstantsOK => (Alerts!Spec => []Alerts!PageSettles)
<1>1. AlertsIInv => Alerts!PageSettles
  BY DEF AlertsIInv, AlertsShown, Alerts!PageSettles
<1> QED
  BY <1>1, AlertsInvariant, PTL

\* An item has at most one missing-price request, and none with a price and a link.
THEOREM AlertsPricesAreAskedOnce == AlertsConstantsOK => (Alerts!Spec => []Alerts!PriceQueue)
<1>1. AlertsIInv => Alerts!PriceQueue
  BY DEF AlertsIInv
<1> QED
  BY <1>1, AlertsInvariant, PTL

-----------------------------------------------------------------------------
(* Together: whichever component runs, the others stand still.             *)

LEMMA ThrottleRuns == PersonnelSpec => Throttle!Spec
<1>1. PersonnelInit => Throttle!Init
  BY DEF PersonnelInit
<1>2. [PersonnelNext]_PersonnelVars => [Throttle!Next]_(Throttle!vars)
  BY DEF PersonnelNext, PersonnelVars, LoginThrottleVars, Throttle!vars
<1> QED
  BY <1>1, <1>2, PTL DEF PersonnelSpec, Throttle!Spec

LEMMA LimiterRuns == PersonnelSpec => Limiter!Spec
<1>1. PersonnelInit => Limiter!Init
  BY DEF PersonnelInit
<1>2. [PersonnelNext]_PersonnelVars => [Limiter!Next]_(Limiter!vars)
  BY DEF PersonnelNext, PersonnelVars, SlidingWindowVars, Limiter!vars
<1> QED
  BY <1>1, <1>2, PTL DEF PersonnelSpec, Limiter!Spec

LEMMA AccessRuns == PersonnelSpec => Access!Spec
<1>1. PersonnelInit => Access!Init
  BY DEF PersonnelInit
<1>2. [PersonnelNext]_PersonnelVars => [Access!Next]_(Access!vars)
  BY DEF PersonnelNext, PersonnelVars, SessionsVars, Access!vars
<1> QED
  BY <1>1, <1>2, PTL DEF PersonnelSpec, Access!Spec

LEMMA PushRuns == PersonnelSpec => Push!Spec
<1>1. PersonnelInit => Push!Init
  BY DEF PersonnelInit
<1>2. [PersonnelNext]_PersonnelVars => [Push!Next]_(Push!vars)
  BY DEF PersonnelNext, PersonnelVars, PushDevicesVars, Push!vars
<1> QED
  BY <1>1, <1>2, PTL DEF PersonnelSpec, Push!Spec

LEMMA AlertsRun == PersonnelSpec => Alerts!Spec
<1>1. PersonnelInit => Alerts!Init
  BY DEF PersonnelInit
<1>2. [PersonnelNext]_PersonnelVars => [Alerts!Next]_(Alerts!vars)
  BY DEF PersonnelNext, PersonnelVars, ItemAlertsVars, Alerts!vars
<1> QED
  BY <1>1, <1>2, PTL DEF PersonnelSpec, Alerts!Spec

\* Failures are counted once and spaced as far as their delays, no window lets
\* more than the cap through, no session outlives a change of its account unless
\* the two overlapped, and an endpoint belongs to one person.
THEOREM AccessIsKept == PersonnelSpec => []AccessHolds
<1>1. PersonnelSpec => [](Throttle!TypeOK /\ Throttle!CountsFailures /\ Throttle!BackoffHolds)
  BY ThrottleRuns, ThrottleAssumption, ThrottleTypeCorrect, ThrottleFailuresAreCounted,
     ThrottleDelaysAreServed, PTL
<1>2. PersonnelSpec => [](Limiter!TypeOK /\ Limiter!CapHolds /\ Limiter!RetryWorks)
  BY LimiterRuns, LimiterAssumption, LimiterTypeCorrect, LimiterWindowIsCapped,
     LimiterRetryIsHonest, PTL
<1>3. PersonnelSpec => [](Access!TypeOK /\ Access!SessionsAreCurrent /\ Access!ShownRoleIsLive)
  BY AccessRuns, AccessAssumption, AccessTypeCorrect, AccessSessionsFollowAccounts,
     AccessShownRolesAreLive, PTL
<1>4. PersonnelSpec => [](Push!TypeOK /\ Push!OneClaim)
  BY PushRuns, PushTypeCorrect, PushClaimsAreSingle, PTL
<1>5. /\ Throttle!TypeOK /\ Throttle!CountsFailures /\ Throttle!BackoffHolds
      /\ Limiter!TypeOK /\ Limiter!CapHolds /\ Limiter!RetryWorks
      /\ Access!TypeOK /\ Access!SessionsAreCurrent /\ Access!ShownRoleIsLive
      /\ Push!TypeOK /\ Push!OneClaim
      => AccessHolds
  BY DEF AccessHolds
<1> QED
  BY <1>1, <1>2, <1>3, <1>4, <1>5, PTL

\* Each fall below the threshold is announced once, the Low Stock page shows
\* what is low, and the price queue agrees with the item.
THEOREM AlertsAreKept == PersonnelSpec => []AlertsHold
<1>1. PersonnelSpec => [](/\ Alerts!TypeOK /\ Alerts!LowIsAnnounced
                          /\ Alerts!PageSettles /\ Alerts!PriceQueue)
  BY AlertsRun, AlertsAssumption, AlertsTypeCorrect, AlertsFallsAreAnnounced,
     AlertsPageIsCurrent, AlertsPricesAreAskedOnce, PTL
<1>2. Alerts!TypeOK /\ Alerts!LowIsAnnounced /\ Alerts!PageSettles /\ Alerts!PriceQueue => AlertsHold
  BY DEF AlertsHold
<1> QED
  BY <1>1, <1>2, PTL

\* No sweep lifts a lock that still runs, no request below the cap is refused,
\* Owners stay Owners, and the clean-up after a push spares served endpoints.
THEOREM AccessStepsAreKept == PersonnelSpec => AccessStands
<1>1. PersonnelSpec => Throttle!SweepKeepsLocks
  BY ThrottleRuns, ThrottleAssumption, ThrottleLocksOutliveSweeps
<1>2. PersonnelSpec => Limiter!RefusedOnlyAtCap
  BY LimiterRuns, LimiterAssumption, LimiterRefusalsAreDue
<1>3. PersonnelSpec => Access!OwnersAreFixed
  BY AccessRuns, AccessAssumption, AccessOwnersStand
<1>4. PersonnelSpec => Push!LiveStaysSubscribed
  BY PushRuns, PushServedStaySubscribed
<1> QED
  BY <1>1, <1>2, <1>3, <1>4 DEF AccessStands
=============================================================================
