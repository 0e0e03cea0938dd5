---------------------------- MODULE LoginThrottle ----------------------------
(***************************************************************************)
(* Failed sign-ins and the delay they earn: services/login_throttle.py     *)
(* around auth.authenticate, as routers/auth.py calls them.  A counter row *)
(* belongs to a (username, address) pair, or, when the wider layer is on,  *)
(* to the address.  Rows are read without a lock, updated by primary key   *)
(* at the commit, and swept by a DELETE that runs before the pending       *)
(* UPDATE is written (autoflush is off).                                   *)
(***************************************************************************)
EXTENDS Integers, FiniteSets, FiniteSetsExt

CONSTANTS Threads, Users, Address, None,
          PerIp,                    \* LOGIN_THROTTLE_PER_IP
          Free, PerIpFree,          \* failures that earn no delay
          BaseDelay, MaxDelay, TTL, \* ticks
          MaxNow, MaxCount          \* bounds

VARIABLES now,
          row,     \* login_attempts: row or None by key
          job,     \* the sign-in each thread is answering
          broken,  \* users whose wrong password was answered with an error
          fails,   \* failures answered since the key was last clean
          crossed  \* keys of sign-ins that overlapped on one of their keys

vars == <<now, row, job, broken, fails, crossed>>

Keys == Users \cup {Address}
Layers(u) == {u} \cup (IF PerIp THEN {Address} ELSE {})
Idle == [phase |-> "idle"]
Busy(t) == job[t].phase # "idle"

AttemptRows == [count : 1 .. MaxCount, first : 0 .. MaxNow, last : 0 .. MaxNow,
                until : {None} \cup 0 .. (MaxNow + MaxDelay)]

TypeOK ==
    /\ now \in 0 .. MaxNow
    /\ \A k \in Keys : row[k] \in AttemptRows \cup {None}
    /\ broken \subseteq Users
    /\ \A k \in Keys : fails[k] \in Nat
    /\ crossed \subseteq Keys

Init ==
    /\ now = 0
    /\ row = [k \in Keys |-> None]
    /\ job = [t \in Threads |-> Idle]
    /\ broken = {}
    /\ fails = [k \in Keys |-> 0]
    /\ crossed = {}

-----------------------------------------------------------------------------
(* The curve.                                                              *)

LockDuration(n) ==
    IF n <= Free THEN 0 ELSE Min({BaseDelay * 2 ^ (n - Free - 1), MaxDelay})

\* The wider layer shifts the curve by its larger free window.
DurationOf(k, n) == LockDuration(IF k = Address THEN n - (PerIpFree - Free) ELSE n)

Locked(k, at) == row[k] # None /\ row[k].until # None /\ row[k].until > at

\* _bump's new columns, from the row it read.
Bumped(k, r) ==
    [count |-> r.count + 1, first |-> r.first, last |-> now,
     until |-> IF DurationOf(k, r.count + 1) = 0 THEN None
               ELSE now + DurationOf(k, r.count + 1)]

Fresh == [count |-> 0, first |-> now, last |-> now, until |-> None]

-----------------------------------------------------------------------------
(* A sign-in: check, verify, and either record the failure or clear.       *)

Tick == /\ now < MaxNow /\ now' = now + 1
        /\ crossed' = crossed \cup UNION {Layers(job[t].user) : t \in {t \in Threads : Busy(t)}}
        /\ UNCHANGED <<row, job, broken, fails>>

Refuses(u) == \E k \in Layers(u) : Locked(k, now)

Check(t) ==
    /\ ~Busy(t)
    /\ \E u \in Users :
        /\ ~Refuses(u)    \* else 429, and nothing is examined
        /\ job' = [job EXCEPT ![t] = [phase |-> "verify", user |-> u]]
        /\ LET others == {s \in Threads \ {t} : Busy(s)
                                              /\ Layers(job[s].user) \cap Layers(u) # {}} IN
           crossed' = crossed \cup (IF others = {} THEN {} ELSE Layers(u))
                              \cup UNION {Layers(job[s].user) : s \in others}
    /\ UNCHANGED <<now, row, broken, fails>>

\* Keys that lose their row: what a pending UPDATE of it would match is gone.
Losing(keys, jobs) ==
    [s \in Threads |-> IF jobs[s].phase \in {"record", "wait"}
        THEN [jobs[s] EXCEPT !.lost = @ \cup (keys \cap (DOMAIN jobs[s].copy \ jobs[s].own))]
        ELSE jobs[s]]

Right(t) ==
    /\ job[t].phase = "verify"
    /\ LET u == job[t].user IN
       /\ row' = [row EXCEPT ![u] = None]
       /\ fails' = [fails EXCEPT ![u] = 0]
       /\ job' = Losing({u}, [job EXCEPT ![t] = Idle])
       /\ crossed' = IF \E s \in Threads \ {t} : Busy(s) /\ job[s].user = u
                     THEN crossed ELSE crossed \ {u}
    /\ UNCHANGED <<now, broken>>

\* One layer is read; a missing row is inserted and flushed, which waits for
\* another insert of the key and then fails on the unique index.
Holding(k, t) ==
    \E s \in Threads \ {t} : job[s].phase \in {"record", "wait"} /\ k \in job[s].own

Wrong(t) ==
    /\ job[t].phase = "verify"
    /\ job' = [job EXCEPT ![t] =
         [phase |-> "record", user |-> @.user, todo |-> Layers(@.user), copy |-> [k \in {} |-> None],
          new |-> [k \in {} |-> None], own |-> {}, lost |-> {}]]
    /\ UNCHANGED <<now, row, broken, fails, crossed>>

\* The pair's layer first, then the address's.
NextLayer(j) == IF j.user \in j.todo THEN j.user ELSE Address

Bump(t) ==
    /\ job[t].phase = "record" /\ job[t].todo # {}
    /\ LET j == job[t]  k == NextLayer(j)  seen == row[k]
           base == IF seen = None THEN Fresh ELSE seen
           with(f, v) == [x \in DOMAIN f \cup {k} |-> IF x = k THEN v ELSE f[x]]
       IN
       \/ /\ seen = None => ~Holding(k, t)
          /\ job' = [job EXCEPT ![t] =
               [j EXCEPT !.todo = @ \ {k}, !.copy = with(@, base), !.new = with(@, Bumped(k, base)),
                         !.own = IF seen = None THEN @ \cup {k} ELSE @]]
       \/ /\ seen = None /\ Holding(k, t)
          /\ job' = [job EXCEPT ![t] = [j EXCEPT !.phase = "wait"]]
    /\ UNCHANGED <<now, row, broken, fails, crossed>>

\* A commit wakes who waited for its inserts with a conflict; a rollback
\* lets them insert.
Woken(keys, phase, jobs) ==
    [s \in Threads |-> IF jobs[s].phase = "wait" /\ NextLayer(jobs[s]) \in keys
                       THEN [jobs[s] EXCEPT !.phase = phase] ELSE jobs[s]]

\* Everything pending is rolled back, the other layer's too, and the
\* winner's row read; it may be gone by now.
Conflict(t) ==
    /\ job[t].phase = "beaten"
    /\ LET j == [job[t] EXCEPT !.phase = "record", !.todo = @ \ {NextLayer(job[t])},
                               !.own = {}, !.lost = {}]
           found == {k \in {NextLayer(job[t])} : row[k] # None}
       IN  job' = [job EXCEPT ![t] =
             [j EXCEPT !.copy = [k \in found |-> row[k]],
                       !.new = [k \in found |-> Bumped(k, row[k])]]]
    /\ UNCHANGED <<now, row, broken, fails, crossed>>

Stale(r) == r.last <= now - TTL

\* An UPDATE carries the columns that differ from the row read.
Merged(r, copy, new) ==
    [count |-> new.count, first |-> r.first,
     last |-> IF new.last = copy.last THEN r.last ELSE new.last,
     until |-> IF new.until = copy.until THEN r.until ELSE new.until]

\* The sweep's DELETE runs first, on what is committed: a row this very
\* request is about to update goes too, the UPDATE then matches nothing, and
\* everything is rolled back.
Record(t) ==
    LET j == job[t]
        swept == {k \in Keys : row[k] # None /\ Stale(row[k])}
        missing == (DOMAIN j.new \ j.own) \cap (j.lost \cup swept)
    IN
    /\ j.phase = "record" /\ j.todo = {}
    /\ \A k \in Layers(j.user) : fails[k] < MaxCount
    /\ IF missing # {}
       THEN /\ job' = Woken(j.own, "record", [job EXCEPT ![t] = Idle])
            /\ broken' = broken \cup {j.user}
            /\ UNCHANGED <<row, fails>>
       ELSE /\ row' = [k \in Keys |->
                 IF k \in j.own THEN j.new[k]
                 ELSE IF k \in DOMAIN j.new THEN Merged(row[k], j.copy[k], j.new[k])
                 ELSE IF k \in swept THEN None ELSE row[k]]
            /\ fails' = [k \in Keys |->
                 (IF k \in swept THEN 0 ELSE fails[k]) + (IF k \in Layers(j.user) THEN 1 ELSE 0)]
            /\ job' = Woken(j.own, "beaten", Losing(swept, [job EXCEPT ![t] = Idle]))
            /\ UNCHANGED broken
    /\ UNCHANGED <<now, crossed>>

Next == Tick \/ \E t \in Threads : Check(t) \/ Right(t) \/ Wrong(t) \/ Bump(t)
                                   \/ Conflict(t) \/ Record(t)

Spec == Init /\ [][Next]_vars

-----------------------------------------------------------------------------
(* Properties.                                                             *)

\* A counter never counts a failure twice, whatever overlaps; alone, it
\* counts every failure answered since the last success or sweep.
CountsFailures ==
    \A k \in Keys : row[k] # None =>
        /\ row[k].count <= fails[k]
        /\ k \notin crossed => row[k].count = fails[k]

\* The ticks of delay that a key's first n failures earn, counted one by one.
Earned(k, n) == Cardinality({x \in (1 .. n) \X (1 .. MaxDelay) : x[2] <= DurationOf(k, x[1])})

\* n failures in a row take at least the delays the first n - 1 of them
\* earned, for sign-ins that did not overlap.
BackoffHolds ==
    \A k \in Keys \ crossed : row[k] # None =>
        row[k].last - row[k].first >= Earned(k, row[k].count - 1)

\* The sweep never lifts a lock that still runs; only a success does.  (A
\* sign-in that another overtook may write an older time under the newer lock.)
SweepKeepsLocks ==
    [][\A t \in Threads : Record(t) =>
          \A k \in Keys \ crossed : Locked(k, now) => row'[k] # None]_vars

\* Stated by the repository and not kept by the code (README, Disagreements).
\* "401 on bad username/password; 429 while throttled" (routers/auth.py:73).
FailureIsAnswered == broken = {}
=============================================================================
