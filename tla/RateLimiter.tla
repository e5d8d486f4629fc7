---------------------------- MODULE RateLimiter ----------------------------
(***************************************************************************)
(* The limiter before the v1 routes (src/src/proofops_memoryguard/         *)
(* rate_limit.py, called by apps/api/main.py's middleware, which runs in   *)
(* the server's event loop: one request at a time).                        *)
(***************************************************************************)
EXTENDS Integers, Sequences, SequencesExt, FiniteSets

CONSTANTS Hosts, Limit, Window, MaxKeys, MaxNow

ASSUME LimiterConstants == {Limit, Window, MaxKeys} \subseteq Nat \ {0} /\ MaxNow \in Nat

VARIABLES
    now,      \* the monotonic clock
    buckets,  \* buckets[h], for the hosts that have one: times h was served
    served    \* history: the latest Limit + 1 times h was served in the present window

limiterVars == <<now, buckets, served>>

Latest(times) == IF Len(times) > Limit + 1 THEN Tail(times) ELSE times

(* while bucket and bucket[0] <= cutoff: bucket.popleft()                  *)
Popped(times, cutoff) ==
    CHOOSE n \in 0..Len(times) :
        /\ \A i \in 1..n : times[i] <= cutoff
        /\ n < Len(times) => times[n + 1] > cutoff
Since(times, cutoff) == SubSeq(times, Popped(times, cutoff) + 1, Len(times))

LimiterInit ==
    /\ now = 0
    /\ buckets = << >>
    /\ served = [h \in Hosts |-> << >>]

Bucket(h) == IF h \in DOMAIN buckets THEN buckets[h] ELSE << >>

Kept == {k \in DOMAIN buckets : Last(buckets[k]) > now - Window}

(* [mutant] any key makes room *)
Leaves_Any(keys) == keys

(* The keys of which one makes room: those served least recently.          *)
Leaves(keys) == {k \in keys : \A j \in keys : Last(buckets[k]) <= Last(buckets[j])}

(* The buckets that may be left once there is room for h.                  *)
Room(h) ==
    IF Cardinality(DOMAIN buckets) < MaxKeys \/ h \in DOMAIN buckets THEN {DOMAIN buckets}
    ELSE IF Cardinality(Kept) < MaxKeys THEN {Kept}
    ELSE {Kept \ {k} : k \in Leaves(Kept)}

Allow(h) ==
    LET bucket == Since(Bucket(h), now - Window)
        allowed == Len(bucket) < Limit
    IN  \E room \in Room(h) :
          /\ buckets' = [k \in room \cup {h} |->
                 IF k # h THEN buckets[k] ELSE IF allowed THEN Append(bucket, now) ELSE bucket]
          /\ served' = IF allowed THEN [served EXCEPT ![h] = Latest(Append(@, now))] ELSE served
          /\ UNCHANGED now

Later ==
    /\ now < MaxNow
    /\ now' = now + 1
    /\ served' = [h \in Hosts |-> Since(served[h], now' - Window)]
    /\ UNCHANGED buckets

LimiterNext == (\E h \in Hosts : Allow(h)) \/ Later

LimiterSpec == LimiterInit /\ [][LimiterNext]_limiterVars

(* A host is served more than its limit within a window only while more    *)
(* hosts than there is room for were served in that very window: the       *)
(* eviction of the least recent never starts afresh a window that others   *)
(* did not crowd (allow 29-51).                                            *)
LimitHolds ==
    \/ \A h \in Hosts : Len(served[h]) <= Limit
    \/ Cardinality({h \in Hosts : served[h] # << >>}) > MaxKeys
=============================================================================
