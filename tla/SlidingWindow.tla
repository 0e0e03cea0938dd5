---------------------------- MODULE SlidingWindow ----------------------------
(***************************************************************************)
(* The request limiter (services/rate_limit.py, the middleware of main.py) *)
(* and the handshake limiter (services/realtime_limits.py), over the rules *)
(* of domain/rate_limit.py: a caller's recent timestamps, pruned at every  *)
(* request, refused requests not recorded, and all idle buckets dropped    *)
(* now and then.  Both run on the one event loop, between two awaits.      *)
(***************************************************************************)
EXTENDS Integers, FiniteSets, FiniteSetsExt

CONSTANTS Callers,
          MaxRequests,   \* requests per window
          Window,        \* length of the window, in ticks
          Second,        \* ticks per second: Retry-After is in whole seconds
          SweepInterval, \* ticks between two sweeps
          MaxNow, MaxGrants

VARIABLES now,
          bucket,     \* _buckets: by caller, the timestamps of its deque
          lastSweep,
          granted,    \* every request that was let through, by caller
          promise     \* when a refused caller was told to come back, or 0

vars == <<now, bucket, lastSweep, granted, promise>>

\* A timestamp; n tells two requests of one instant apart.
Grants == [at : 0 .. MaxNow, n : 0 .. MaxGrants]

TypeOK ==
    /\ now \in 0 .. MaxNow
    /\ \A c \in Callers : /\ bucket[c] \subseteq Grants /\ Cardinality(bucket[c]) <= MaxRequests
                          /\ granted[c] \subseteq Grants
                          /\ promise[c] \in 0 .. (MaxNow + Window + Second)
    /\ lastSweep \in 0 .. MaxNow

Init ==
    /\ now = 0
    /\ bucket = [c \in Callers |-> {}]
    /\ lastSweep = 0
    /\ granted = [c \in Callers |-> {}]
    /\ promise = [c \in Callers |-> 0]

InWindow(s, at) == {x \in s : x.at > at - Window}

OverLimit(n) == n >= MaxRequests

\* Whole seconds until the oldest leaves the window, at least one.
RetryAfter(oldest) ==
    LET wait == (oldest + Window - now + Second - 1) \div Second
    IN  IF wait < 1 THEN 1 ELSE wait

\* A sweep drops the buckets whose newest timestamp has left the window.
Sweeps == now - lastSweep >= SweepInterval
Kept(c) == IF Sweeps /\ InWindow(bucket[c], now) = {} THEN {} ELSE bucket[c]

Request(c) ==
    /\ Cardinality(granted[c]) < MaxGrants
    /\ LET seen == InWindow(Kept(c), now)
           over == OverLimit(Cardinality(seen))
           this == {[at |-> now, n |-> Cardinality(granted[c])]}
       IN
       /\ lastSweep' = IF Sweeps THEN now ELSE lastSweep
       /\ bucket' = [x \in Callers |->
            IF x # c THEN Kept(x) ELSE IF over THEN seen ELSE seen \cup this]
       /\ granted' = IF over THEN granted ELSE [granted EXCEPT ![c] = @ \cup this]
       /\ promise' = [promise EXCEPT ![c] =
            IF over /\ seen # {} THEN now + Second * RetryAfter(Min({x.at : x \in seen})) ELSE 0]
    /\ UNCHANGED now

Tick == now < MaxNow /\ now' = now + 1 /\ UNCHANGED <<bucket, lastSweep, granted, promise>>

\* The middleware puts every request through the limiter before it is routed.
Next == Tick \/ \E c \in Callers : Request(c)

Spec == Init /\ [][Next]_vars

-----------------------------------------------------------------------------
(* Properties.                                                             *)

\* No window of that length, wherever it starts, lets through more than the
\* cap, and pruning and sweeping never forget a request still in the window.
CapHolds ==
    \A c \in Callers : \A end \in 0 .. now :
        Cardinality({x \in granted[c] : end - Window < x.at /\ x.at <= end}) <= MaxRequests

\* A refused caller who waits the seconds he was told is let through.
RetryWorks ==
    \A c \in Callers : promise[c] # 0 /\ now >= promise[c]
        => ~OverLimit(Cardinality(InWindow(granted[c], now)))

\* Nobody is refused below the cap, whatever was refused or swept before.
RefusedOnlyAtCap ==
    [][\A c \in Callers : promise'[c] # promise[c] /\ promise'[c] # 0
        => Cardinality(InWindow(granted[c], now)) = MaxRequests]_vars
=============================================================================
