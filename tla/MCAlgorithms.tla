---------------------------- MODULE MCAlgorithms ----------------------------
(* Three algorithms, one at a time: the closure up a stored graph, over    *)
(* every damaged one; the closure down, over every graph registration can  *)
(* build; and the rate limiter.                                            *)
EXTENDS AncestorsWalk, AffectedGrowth, RateLimiter

NoWalk ==
    /\ deps = [k \in Keys \cup {Missing} |-> {}] /\ start = Missing
    /\ stack = <<>> /\ calling = {} /\ visiting = {} /\ visited = {} /\ ordered = <<>>
    /\ outcome = "none"

NoGrowth == graph = [k \in Registered |-> {}] /\ dirty = {} /\ result = {} /\ done = TRUE

NoLimiter == now = MaxNow + 1 /\ buckets = << >> /\ served = [h \in Hosts |-> << >>]

Init ==
    \/ WalkInit /\ NoGrowth /\ NoLimiter
    \/ NoWalk /\ GrowthInit /\ NoLimiter
    \/ NoWalk /\ NoGrowth /\ LimiterInit

Next ==
    \/ WalkNext /\ UNCHANGED <<growthVars, limiterVars>>
    \/ Round /\ UNCHANGED <<walkVars, limiterVars>>
    \/ now <= MaxNow /\ LimiterNext /\ UNCHANGED <<walkVars, growthVars>>

Spec == Init /\ [][Next]_<<walkVars, growthVars, limiterVars>>
=============================================================================
