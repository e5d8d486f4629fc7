-------------------------- MODULE AlgorithmsProofs --------------------------
(***************************************************************************)
(* Theorems about core.ancestors, core.affected_tasks and the rate         *)
(* limiter, for graphs, hosts, limits and windows of every size.           *)
(***************************************************************************)
EXTENDS AncestorsWalk, AffectedGrowth, RateLimiter, TaskGraphProofs,
        SequenceTheorems, FiniteSetTheorems

-----------------------------------------------------------------------------
(* core.ancestors *)

Nodes == Keys \cup {Missing}
Calls == [key : Keys, left : SUBSET Nodes]
Depth == Len(stack)

WalkTypes ==
    /\ deps \in [Nodes -> SUBSET Nodes] /\ deps[Missing] = {}
    /\ start \in Keys
    /\ stack \in Seq(Calls)
    /\ calling \subseteq Nodes /\ \A x, y \in calling : x = y
    /\ ordered \in Seq(Keys)

(* visiting is the keys of the calls under way, each one once, and each    *)
(* key lies in the closure of the ones below it, the first being start;    *)
(* the key being called is a parent of the last.                           *)
PathInv ==
    /\ visiting = {stack[i].key : i \in 1..Depth}
    /\ \A i, j \in 1..Depth : stack[i].key = stack[j].key => i = j
    /\ \A i \in 1..Depth : \A j \in i..Depth :
          stack[j].key \in Ancestors(deps, stack[i].key)
    /\ Depth > 0 => stack[1].key = start /\ calling \subseteq deps[stack[Depth].key]

(* What a call has taken off its list of parents has been visited, or is   *)
(* being walked right now: by the call above, or by the one being entered. *)
HandledInv ==
    \A i \in 1..Depth :
        /\ stack[i].left \subseteq deps[stack[i].key]
        /\ deps[stack[i].key] \ stack[i].left
              \subseteq visited \cup IF i = Depth THEN calling ELSE {stack[i + 1].key}

(* The answer so far: no key twice, none still on the path, and each after *)
(* the keys it depends on.                                                 *)
OrderedInv ==
    /\ visited = {ordered[i] : i \in 1..Len(ordered)}
    /\ visited \subseteq Reached
    /\ \A i, j \in 1..Len(ordered) : ordered[i] = ordered[j] => i = j
    /\ visited \cap visiting = {}
    /\ \A i \in 1..Len(ordered) :
          deps[ordered[i]] \subseteq {ordered[j] : j \in 1..(i - 1)}

OutcomeInv ==
    /\ outcome = "running" /\ Depth = 0 => calling = {start} /\ ordered = <<>>
    /\ outcome = "DEPENDENCY_CYCLE" => HasCycle
    /\ outcome = "DEPENDENCY_MISSING" => Missing \in Reached
    /\ outcome = "done" => start \in visited

WalkInv == WalkTypes /\ PathInv /\ HandledInv /\ OrderedInv /\ OutcomeInv

(* Every call under way is for a stored task. *)
LEMMA CallsUnderWay ==
    ASSUME WalkTypes
    PROVE  \A i \in 1..Depth : /\ stack[i] \in Calls
                               /\ stack[i].key \in Keys /\ stack[i].key \in Nodes
<1>1. \A i \in 1..Depth : stack[i] \in Calls
  BY DEF WalkTypes, Depth
<1>2. QED
  BY <1>1 DEF Calls, Nodes

(* The first call is for start. *)
LEMMA WalkBegins == WalkInit => WalkInv
<1> SUFFICES ASSUME WalkInit PROVE WalkInv
  OBVIOUS
<1>1. WalkTypes /\ Depth = 0 /\ Len(ordered) = 0
  BY KeyAssumption DEF WalkInit, WalkTypes, Nodes, Depth
<1>2. QED
  BY <1>1 DEF WalkInit, WalkInv, PathInv, HandledInv, OrderedInv, OutcomeInv

(* The key being called is in the closure of start and of all the path.    *)
LEMMA CalledIsReached ==
    ASSUME WalkInv, outcome = "running", NEW key \in calling
    PROVE  /\ key \in Reached
           /\ \A i \in 1..Depth : key \in Ancestors(deps, stack[i].key)
<1>1. /\ deps \in [Nodes -> SUBSET Nodes] /\ start \in Nodes
      /\ stack \in Seq(Calls) /\ Depth \in Nat
  BY DEF WalkInv, WalkTypes, Nodes, Depth
<1>2. CASE Depth = 0
  <2>1. key = start
    BY <1>2 DEF WalkInv, OutcomeInv
  <2>2. QED
    BY <1>1, <1>2, <2>1, AncestorsContain DEF Reached
<1>3. CASE Depth > 0
  <2>1. \A i \in 1..Depth : stack[i].key \in Nodes
    BY CallsUnderWay DEF WalkInv
  <2> DEFINE top == stack[Depth].key
  <2>2. top \in Nodes /\ key \in deps[top] /\ stack[1].key = start
    BY <1>1, <1>3, <2>1 DEF WalkInv, PathInv
  <2>3. key \in Ancestors(deps, top)
    BY <1>1, <2>2, AncestorsContain
  <2>4. ASSUME NEW i \in 1..Depth
        PROVE  key \in Ancestors(deps, stack[i].key)
    <3>1. top \in Ancestors(deps, stack[i].key)
      BY <1>1, <1>3 DEF WalkInv, PathInv
    <3>2. Ancestors(deps, top) \subseteq Ancestors(deps, stack[i].key)
      BY <1>1, <2>1, <3>1, AncestorsTransitive
    <3>3. QED
      BY <2>3, <3>2
  <2>5. 1 \in 1..Depth
    BY <1>1, <1>3
  <2>6. QED
    BY <2>2, <2>4, <2>5 DEF Reached
<1>4. QED
  BY <1>1, <1>2, <1>3

(* What has been visited stays in order while none of it changes.         *)
LEMMA OrderedStays ==
    ASSUME OrderedInv, UNCHANGED <<deps, start, visiting, visited, ordered>>
    PROVE  OrderedInv'
<1>1. /\ deps' = deps /\ visited' = visited /\ ordered' = ordered
      /\ visiting' = visiting
  OBVIOUS
<1>2. Reached' = Reached
  BY Zenon DEF Reached
<1>3. visited' = {ordered'[i] : i \in 1..Len(ordered')}
  BY <1>1 DEF OrderedInv
<1>4. \A i, j \in 1..Len(ordered') : ordered'[i] = ordered'[j] => i = j
  BY <1>1 DEF OrderedInv
<1>5. \A i \in 1..Len(ordered') :
          deps'[ordered'[i]] \subseteq {ordered'[j] : j \in 1..(i - 1)}
  BY <1>1 DEF OrderedInv
<1>6. visited' \subseteq Reached' /\ visited' \cap visiting' = {}
  BY <1>2 DEF OrderedInv
<1>7. QED
  BY <1>3, <1>4, <1>5, <1>6, Zenon DEF OrderedInv

(* An error raised is a true one: the last key on the path and the key it  *)
(* calls close a cycle, or the missing key is in the closure.              *)
LEMMA RaiseKeeps ==
    ASSUME WalkInv, outcome = "running", NEW key \in calling,
           MeetCycle(key) \/ MeetMissing(key)
    PROVE  WalkInv'
<1>1. UNCHANGED <<deps, start, stack, calling, visiting, visited, ordered>>
  BY DEF MeetCycle, MeetMissing, Raise
<1>2. HasCycle' = HasCycle /\ Reached' = Reached
  BY <1>1, Zenon DEF HasCycle, Reached
<1>3. WalkTypes' /\ PathInv' /\ HandledInv' /\ OrderedInv'
  <2>1. WalkTypes'
    BY <1>1 DEF WalkInv, WalkTypes
  <2>2. PathInv'
    BY <1>1 DEF WalkInv, PathInv, Depth
  <2>3. HandledInv'
    BY <1>1 DEF WalkInv, HandledInv, Depth
  <2>4. OrderedInv'
    BY <1>1, OrderedStays DEF WalkInv
  <2>5. QED
    BY <2>1, <2>2, <2>3, <2>4
<1>4. CASE MeetCycle(key)
  <2>1. outcome' = "DEPENDENCY_CYCLE" /\ key \in visiting
    BY <1>4 DEF MeetCycle, Raise, OnPath
  <2>2. PICK i \in 1..Depth : key = stack[i].key
    BY <2>1 DEF WalkInv, PathInv
  <2> DEFINE top == stack[Depth].key
  <2>3. Depth \in Nat /\ Depth > 0
    BY DEF WalkInv, WalkTypes, Depth
  <2>4. top \in Ancestors(deps, key) /\ key \in deps[top]
    BY <2>2, <2>3 DEF WalkInv, PathInv
  <2>5. top \in Reached
    <3>1. 1 \in 1..Depth /\ Depth \in 1..Depth /\ stack[1].key = start
      BY <2>3 DEF WalkInv, PathInv
    <3>2. QED
      BY <2>3, <3>1 DEF WalkInv, PathInv, Reached
  <2>6. HasCycle
    BY <2>4, <2>5 DEF HasCycle
  <2>7. OutcomeInv'
    BY <1>2, <2>1, <2>6 DEF OutcomeInv
  <2>8. QED
    BY <1>3, <2>7 DEF WalkInv
<1>5. CASE MeetMissing(key)
  <2>1. outcome' = "DEPENDENCY_MISSING" /\ key = Missing
    BY <1>5 DEF MeetMissing, Raise
  <2>2. Missing \in Reached
    BY <2>1, CalledIsReached
  <2>3. OutcomeInv'
    BY <1>2, <1>1, <2>1, <2>2 DEF OutcomeInv
  <2>4. QED
    BY <1>3, <2>3 DEF WalkInv
<1>6. QED
  BY <1>4, <1>5

(* A key already visited: the call returns at once. *)
LEMMA MeetKnownKeeps ==
    ASSUME WalkInv, outcome = "running", NEW key \in calling, MeetKnown(key)
    PROVE  WalkInv'
<1>1. /\ key \in visited /\ calling' = {}
      /\ UNCHANGED <<deps, start, stack, visiting, visited, ordered, outcome>>
  BY DEF MeetKnown
<1>2. calling = {key}
  BY DEF WalkInv, WalkTypes
<1>3. WalkTypes'
  BY <1>1 DEF WalkInv, WalkTypes
<1>4. PathInv'
  BY <1>1 DEF WalkInv, PathInv, Depth
<1>5. HandledInv'
  BY <1>1, <1>2 DEF WalkInv, HandledInv, Depth
<1>6. OrderedInv'
  BY <1>1, OrderedStays DEF WalkInv
<1>7. OutcomeInv'
  <2>1. Depth' = Depth
    BY <1>1 DEF Depth
  <2>2. Depth # 0
    <3>1. Depth = 0 => visited = {}
      BY DEF WalkInv, OutcomeInv, OrderedInv
    <3>2. QED
      BY <1>1, <3>1
  <2>3. QED
    BY <1>1, <2>1, <2>2 DEF OutcomeInv
<1>8. QED
  BY <1>3, <1>4, <1>5, <1>6, <1>7 DEF WalkInv

(* A new key goes on the path, above everything whose closure it is in. *)
LEMMA MeetNewKeeps ==
    ASSUME WalkInv, outcome = "running", NEW key \in calling, MeetNew(key)
    PROVE  WalkInv'
<1> DEFINE call == [key |-> key, left |-> deps[key]]
<1>1. /\ key \notin visiting /\ key \notin visited /\ key # Missing
      /\ visiting' = visiting \cup {key}
      /\ stack' = Append(stack, call)
      /\ calling' = {}
      /\ UNCHANGED <<deps, start, visited, ordered, outcome>>
  BY DEF MeetNew, OnPath
<1>2. calling = {key} /\ key \in Keys
  BY <1>1 DEF WalkInv, WalkTypes, Nodes
<1>3. call \in Calls
  BY <1>2 DEF WalkInv, WalkTypes, Calls, Nodes
<1>4. /\ stack \in Seq(Calls) /\ Depth \in Nat /\ deps \in [Nodes -> SUBSET Nodes]
      /\ start \in Nodes
  BY DEF WalkInv, WalkTypes, Depth, Nodes
<1>5. /\ Depth' = Depth + 1
      /\ \A i \in 1..Depth : stack'[i] = stack[i]
      /\ stack'[Depth + 1].key = key /\ stack'[Depth + 1].left = deps[key]
  BY <1>1, <1>3, <1>4 DEF Depth
<1>6. WalkTypes'
  BY <1>1, <1>3, <1>4 DEF WalkInv, WalkTypes
<1> HIDE DEF call
<1>7. PathInv'
  <2>1. visiting' = {stack'[i].key : i \in 1..Depth'}
    <3>1. \A i \in 1..(Depth + 1) : i \in 1..Depth \/ i = Depth + 1
      BY <1>4
    <3>2. \A i \in 1..Depth : i \in 1..(Depth + 1)
      BY <1>4
    <3>3. ASSUME NEW i \in 1..Depth PROVE stack'[i].key \in visiting'
      <4>1. stack[i].key \in visiting
        BY DEF WalkInv, PathInv
      <4>2. QED
        BY <1>1, <1>5, <4>1
    <3>4. stack'[Depth + 1].key \in visiting'
      BY <1>1, <1>5
    <3>5. ASSUME NEW k \in visiting PROVE \E i \in 1..(Depth + 1) : k = stack'[i].key
      <4>1. PICK i \in 1..Depth : k = stack[i].key
        BY DEF WalkInv, PathInv
      <4>2. QED
        BY <1>5, <3>2, <4>1
    <3>6. \A i \in 1..(Depth + 1) : stack'[i].key \in visiting'
      BY <3>1, <3>3, <3>4
    <3>7. \A k \in visiting' : \E i \in 1..(Depth + 1) : k = stack'[i].key
      <4>1. Depth + 1 \in 1..(Depth + 1)
        BY <1>4
      <4>2. QED
        BY <1>1, <1>5, <3>5, <4>1
    <3>8. visiting' = {stack'[i].key : i \in 1..(Depth + 1)}
      BY <3>6, <3>7, Zenon
    <3>9. QED
      BY <1>5, <3>8, Zenon
  <2>2. ASSUME NEW i \in 1..Depth', NEW j \in 1..Depth', stack'[i].key = stack'[j].key
        PROVE  i = j
    <3>1. \A k \in 1..Depth : stack[k].key # key
      BY <1>1 DEF WalkInv, PathInv
    <3>2. QED
      BY <1>4, <1>5, <2>2, <3>1 DEF WalkInv, PathInv
  <2>3. ASSUME NEW i \in 1..Depth', NEW j \in i..Depth'
        PROVE  stack'[j].key \in Ancestors(deps, stack'[i].key)
    <3>1. CASE j \in 1..Depth
      BY <1>4, <1>5, <3>1 DEF WalkInv, PathInv
    <3>2. CASE j = Depth + 1 /\ i \in 1..Depth
      BY <1>5, <3>2, CalledIsReached
    <3>3. CASE j = Depth + 1 /\ i = Depth + 1
      <4>1. key \in Ancestors(deps, key)
        BY <1>2, <1>4, AncestorsContain DEF Nodes
      <4>2. QED
        BY <1>5, <3>3, <4>1
    <3>4. QED
      BY <1>4, <1>5, <3>1, <3>2, <3>3
  <2>4. stack'[1].key = start
    <3>1. CASE Depth = 0
      <4>1. key = start
        BY <1>2, <3>1 DEF WalkInv, OutcomeInv
      <4>2. QED
        BY <1>5, <3>1, <4>1
    <3>2. CASE Depth > 0
      <4>1. 1 \in 1..Depth /\ stack[1].key = start
        BY <1>4, <3>2 DEF WalkInv, PathInv
      <4>2. QED
        BY <1>5, <4>1
    <3>3. QED
      BY <1>4, <3>1, <3>2
  <2>5. QED
    BY <1>1, <2>1, <2>2, <2>3, <2>4 DEF PathInv
<1>8. HandledInv'
  <2> SUFFICES ASSUME NEW i \in 1..Depth'
               PROVE  /\ stack'[i].left \subseteq deps[stack'[i].key]
                      /\ deps[stack'[i].key] \ stack'[i].left
                            \subseteq visited \cup IF i = Depth' THEN {} ELSE {stack'[i + 1].key}
    BY <1>1 DEF HandledInv
  <2>1. CASE i = Depth + 1
    BY <1>5, <2>1
  <2>2. CASE i = Depth
    <3>1. i \in 1..Depth /\ i # Depth'
      BY <1>4, <1>5, <2>2
    <3>2. /\ stack[i].left \subseteq deps[stack[i].key]
          /\ deps[stack[i].key] \ stack[i].left \subseteq visited \cup {key}
      BY <1>2, <2>2, <3>1 DEF WalkInv, HandledInv
    <3>3. stack'[i + 1].key = key /\ stack'[i] = stack[i]
      BY <1>5, <2>2, <3>1
    <3>4. QED
      BY <3>1, <3>2, <3>3
  <2>3. CASE i \in 1..Depth /\ i # Depth
    <3>1. i + 1 \in 1..Depth /\ i # Depth'
      BY <1>4, <1>5, <2>3
    <3>2. /\ stack[i].left \subseteq deps[stack[i].key]
          /\ deps[stack[i].key] \ stack[i].left \subseteq visited \cup {stack[i + 1].key}
      BY <2>3 DEF WalkInv, HandledInv
    <3>3. QED
      BY <1>5, <2>3, <3>1, <3>2
  <2>4. QED
    BY <1>4, <1>5, <2>1, <2>2, <2>3
<1>9. OrderedInv'
  <2>1. OrderedInv
    BY DEF WalkInv
  <2>2. visited' \cap visiting' = {}
    BY <1>1, <2>1 DEF OrderedInv
  <2>3. Reached' = Reached
    BY <1>1, Zenon DEF Reached
  <2>4. QED
    BY <1>1, <2>1, <2>2, <2>3 DEF OrderedInv
<1>10. OutcomeInv'
  BY <1>1, <1>4, <1>5 DEF WalkInv, OutcomeInv
<1>11. QED
  BY <1>6, <1>7, <1>8, <1>9, <1>10 DEF WalkInv

(* min over a set of tasks' numbers: sorted() begins with it.              *)
LEMMA LeastOfNaturals ==
    ASSUME NEW S \in SUBSET Nat, S # {}
    PROVE  \E k \in S : \A j \in S : k <= j
<1> DEFINE Less == {p \in Nat \X Nat : p[1] < p[2]}
<1>1. Less = OpToRel(<, Nat)
  BY DEF OpToRel
<1>2. IsWellFoundedOn(Less, Nat)
  BY <1>1, NatLessThanWellFounded
<1> HIDE DEF Less
<1>3. PICK x \in S : \A y \in S : ~ (<<y, x>> \in Less)
  BY <1>2, WFMin
<1>4. ASSUME NEW y \in S, y < x PROVE FALSE
  <2>1. <<y, x>> \in Nat \X Nat /\ <<y, x>>[1] < <<y, x>>[2]
    BY <1>4
  <2>2. <<y, x>> \in Less
    BY <2>1, Zenon DEF Less
  <2>3. QED
    BY <1>3, <2>2
<1>5. QED
  BY <1>4

(* The least parent left is called. *)
LEMMA CallParentKeeps ==
    ASSUME WalkInv, CallParent
    PROVE  WalkInv'
<1> DEFINE left  == stack[Depth].left
           least == CHOOSE k \in left : \A j \in left : k <= j
<1>1. /\ outcome = "running" /\ calling = {} /\ stack # <<>> /\ left # {}
      /\ calling' = {least}
      /\ stack' = [stack EXCEPT ![Depth].left = @ \ {least}]
      /\ UNCHANGED <<deps, start, visiting, visited, ordered, outcome>>
  BY DEF CallParent, Running, Last, Depth
<1>2. /\ stack \in Seq(Calls) /\ Depth \in 1..Depth /\ Depth \in Nat
      /\ deps \in [Nodes -> SUBSET Nodes]
  BY <1>1 DEF WalkInv, WalkTypes, Depth
<1>3. stack[Depth] \in Calls /\ left \in SUBSET Nodes /\ left \in SUBSET Nat
  <2>1. stack[Depth] \in Calls
    BY <1>2, CallsUnderWay DEF WalkInv
  <2>2. left \in SUBSET Nodes
    BY <2>1 DEF Calls
  <2>3. QED
    BY <2>1, <2>2, KeyAssumption DEF Nodes
<1>4. least \in left
  <2>1. \E k \in left : \A j \in left : k <= j
    BY <1>1, <1>3, LeastOfNaturals
  <2>2. QED
    BY <2>1, Zenon
<1> DEFINE call == [stack[Depth] EXCEPT !.left = left \ {least}]
<1>5. stack' = [stack EXCEPT ![Depth] = call]
  BY <1>1, <1>2 DEF Depth
<1>6. call \in Calls /\ call.key = stack[Depth].key /\ call.left = left \ {least}
  BY <1>3 DEF Calls
<1> HIDE DEF least, call
<1>7. /\ stack' \in Seq(Calls) /\ Depth' = Depth
      /\ \A i \in 1..Depth : stack'[i].key = stack[i].key
      /\ \A i \in 1..Depth : i # Depth => stack'[i].left = stack[i].left
      /\ stack'[Depth].left = left \ {least}
  <2>1. stack' \in Seq(Calls) /\ Depth' = Depth
    BY <1>2, <1>5, <1>6, ExceptSeq DEF Depth
  <2>2. \A i \in 1..Depth : stack'[i] = IF i = Depth THEN call ELSE stack[i]
    BY <1>2, <1>5, ExceptSeq DEF Depth
  <2>3. QED
    BY <1>2, <1>6, <2>1, <2>2
<1>8. WalkTypes'
  BY <1>1, <1>3, <1>4, <1>7 DEF WalkInv, WalkTypes
<1>9. left \subseteq deps[stack[Depth].key]
  BY <1>2 DEF WalkInv, HandledInv
<1>10. PathInv'
  <2>1. visiting' = {stack'[i].key : i \in 1..Depth'}
    <3>1. {stack'[i].key : i \in 1..Depth} = {stack[i].key : i \in 1..Depth}
      BY <1>7
    <3>2. QED
      BY <1>1, <1>7, <3>1, Zenon DEF WalkInv, PathInv
  <2>2. \A i, j \in 1..Depth : stack'[i].key = stack'[j].key => i = j
    BY <1>7 DEF WalkInv, PathInv
  <2>3. ASSUME NEW i \in 1..Depth, NEW j \in i..Depth
        PROVE  stack'[j].key \in Ancestors(deps, stack'[i].key)
    <3>1. j \in 1..Depth
      BY <1>2
    <3>2. QED
      BY <1>7, <3>1 DEF WalkInv, PathInv
  <2>4. stack'[1].key = start /\ calling' \subseteq deps[stack'[Depth].key]
    <3>1. 1 \in 1..Depth /\ stack[1].key = start
      BY <1>2 DEF WalkInv, PathInv
    <3>2. QED
      BY <1>1, <1>2, <1>4, <1>7, <1>9, <3>1
  <2>5. QED
    BY <1>1, <1>7, <2>1, <2>2, <2>3, <2>4 DEF PathInv
<1>11. HandledInv'
  <2> SUFFICES ASSUME NEW i \in 1..Depth
               PROVE  /\ stack'[i].left \subseteq deps[stack'[i].key]
                      /\ deps[stack'[i].key] \ stack'[i].left
                            \subseteq visited \cup IF i = Depth THEN {least} ELSE {stack'[i + 1].key}
    BY <1>1, <1>7 DEF HandledInv
  <2>1. CASE i = Depth
    <3>1. deps[stack[Depth].key] \ left \subseteq visited
      BY <1>1, <1>2 DEF WalkInv, HandledInv
    <3>2. QED
      BY <1>7, <1>9, <2>1, <3>1
  <2>2. CASE i # Depth
    <3>1. i + 1 \in 1..Depth
      BY <1>2, <2>2
    <3>2. /\ stack[i].left \subseteq deps[stack[i].key]
          /\ deps[stack[i].key] \ stack[i].left \subseteq visited \cup {stack[i + 1].key}
      BY <2>2 DEF WalkInv, HandledInv
    <3>3. QED
      BY <1>7, <2>2, <3>1, <3>2
  <2>3. QED
    BY <2>1, <2>2
<1>12. OrderedInv'
  BY <1>1, OrderedStays DEF WalkInv
<1>13. OutcomeInv'
  BY <1>1, <1>2, <1>7 DEF WalkInv, OutcomeInv
<1>14. QED
  BY <1>8, <1>10, <1>11, <1>12, <1>13 DEF WalkInv

(* The last call returns: all the parents of its key have been visited, so *)
(* that the key may follow them in the answer.                             *)
LEMMA ReturnKeeps ==
    ASSUME WalkInv, Return
    PROVE  WalkInv'
<1> DEFINE key == stack[Depth].key
<1>1. /\ outcome = "running" /\ calling = {} /\ stack # <<>> /\ stack[Depth].left = {}
      /\ visiting' = visiting \ {key}
      /\ visited' = visited \cup {key}
      /\ ordered' = Append(ordered, key)
      /\ stack' = SubSeq(stack, 1, Depth - 1)
      /\ outcome' = IF Depth = 1 THEN "done" ELSE outcome
      /\ UNCHANGED <<deps, start, calling>>
  BY DEF Return, Running, Last, Front, Depth, OffPath
<1>2. /\ stack \in Seq(Calls) /\ Depth \in 1..Depth /\ Depth \in Nat
      /\ deps \in [Nodes -> SUBSET Nodes]
      /\ ordered \in Seq(Keys) /\ Len(ordered) \in Nat
  BY <1>1 DEF WalkInv, WalkTypes, Depth
<1>3. key \in Keys
  BY <1>2, CallsUnderWay DEF WalkInv
<1>4. /\ stack' \in Seq(Calls) /\ Depth' = Depth - 1
      /\ \A i \in 1..(Depth - 1) : stack'[i] = stack[i]
  <2>1. Depth - 1 \in 0..Len(stack) /\ 1 \in 1..(Len(stack) + 1)
    BY <1>2 DEF Depth
  <2>2. /\ SubSeq(stack, 1, Depth - 1) \in Seq(Calls)
        /\ Len(SubSeq(stack, 1, Depth - 1)) = Depth - 1
        /\ \A i \in 1..(Depth - 1) : SubSeq(stack, 1, Depth - 1)[i] = stack[i]
    BY <1>2, <2>1
  <2>3. QED
    BY <1>1, <2>2 DEF Depth
<1>5. /\ ordered' \in Seq(Keys) /\ Len(ordered') = Len(ordered) + 1
      /\ \A i \in 1..Len(ordered) : ordered'[i] = ordered[i]
      /\ ordered'[Len(ordered) + 1] = key
  BY <1>1, <1>2, <1>3
<1>6. key \in visiting /\ key \notin visited
  <2>1. key \in visiting
    BY <1>2 DEF WalkInv, PathInv
  <2>2. QED
    BY <2>1 DEF WalkInv, OrderedInv
<1>7. deps[key] \subseteq visited
  BY <1>1, <1>2 DEF WalkInv, HandledInv
<1>8. key \in Reached
  BY <1>2 DEF WalkInv, PathInv, Reached
<1>9. Reached' = Reached /\ HasCycle' = HasCycle
  BY <1>1, Zenon DEF Reached, HasCycle
<1> HIDE DEF key
<1>10. WalkTypes'
  BY <1>1, <1>4, <1>5 DEF WalkInv, WalkTypes
<1>11. PathInv'
  <2>1. \A i \in 1..(Depth - 1) : i \in 1..Depth /\ i # Depth
    BY <1>2
  <2>2. \A i \in 1..(Depth - 1) : stack'[i].key \in visiting'
    <3>1. ASSUME NEW i \in 1..(Depth - 1)
          PROVE  stack[i].key \in visiting /\ stack[i].key # key
      BY <1>2, <2>1 DEF WalkInv, PathInv, key
    <3>2. QED
      BY <1>1, <1>4, <3>1
  <2>3. ASSUME NEW k \in visiting'
        PROVE  \E i \in 1..(Depth - 1) : k = stack'[i].key
    <3>1. PICK i \in 1..Depth : k = stack[i].key
      BY <1>1 DEF WalkInv, PathInv
    <3>2. i # Depth
      BY <1>1, <3>1 DEF key
    <3>3. i \in 1..(Depth - 1)
      BY <1>2, <3>2
    <3>4. QED
      BY <1>4, <3>1, <3>3
  <2>4. visiting' = {stack'[i].key : i \in 1..(Depth - 1)}
    BY <2>2, <2>3, Zenon
  <2>5. \A i, j \in 1..(Depth - 1) : stack'[i].key = stack'[j].key => i = j
    BY <1>4, <2>1 DEF WalkInv, PathInv
  <2>6. ASSUME NEW i \in 1..(Depth - 1), NEW j \in i..(Depth - 1)
        PROVE  stack'[j].key \in Ancestors(deps, stack'[i].key)
    <3>1. j \in 1..(Depth - 1) /\ j \in i..Depth
      BY <1>2
    <3>2. QED
      BY <1>4, <2>1, <3>1 DEF WalkInv, PathInv
  <2>7. Depth - 1 > 0 => stack'[1].key = start
    BY <1>2, <1>4 DEF WalkInv, PathInv
  <2>8. QED
    BY <1>1, <1>4, <2>4, <2>5, <2>6, <2>7 DEF PathInv
<1>12. HandledInv'
  <2> SUFFICES ASSUME NEW i \in 1..(Depth - 1)
               PROVE  /\ stack'[i].left \subseteq deps[stack'[i].key]
                      /\ deps[stack'[i].key] \ stack'[i].left
                            \subseteq visited' \cup IF i = Depth - 1 THEN {} ELSE {stack'[i + 1].key}
    BY <1>1, <1>4 DEF HandledInv
  <2>1. i \in 1..Depth /\ i # Depth /\ i + 1 \in 1..Depth
    BY <1>2
  <2>2. /\ stack[i].left \subseteq deps[stack[i].key]
        /\ deps[stack[i].key] \ stack[i].left \subseteq visited \cup {stack[i + 1].key}
    BY <2>1 DEF WalkInv, HandledInv
  <2>3. CASE i = Depth - 1
    <3>1. stack[i + 1].key = key
      BY <1>2, <2>3 DEF key
    <3>2. QED
      BY <1>1, <1>4, <2>2, <2>3, <3>1
  <2>4. CASE i # Depth - 1
    <3>1. i + 1 \in 1..(Depth - 1)
      BY <1>2, <2>4
    <3>2. QED
      BY <1>1, <1>4, <2>2, <2>4, <3>1
  <2>5. QED
    BY <2>3, <2>4
<1>13. OrderedInv'
  <2> DEFINE n == Len(ordered)
  <2>1. /\ n \in Nat /\ n + 1 \in 1..(n + 1)
        /\ \A i \in 1..(n + 1) : i \in 1..n \/ i = n + 1
        /\ \A i \in 1..n : i \in 1..(n + 1)
    BY <1>2
  <2>2. /\ visited = {ordered[i] : i \in 1..n}
        /\ \A i, j \in 1..n : ordered[i] = ordered[j] => i = j
        /\ \A i \in 1..n : deps[ordered[i]] \subseteq {ordered[j] : j \in 1..(i - 1)}
    BY DEF WalkInv, OrderedInv
  <2>3. /\ Len(ordered') = n + 1 /\ \A i \in 1..n : ordered'[i] = ordered[i]
        /\ ordered'[n + 1] = key
    BY <1>5
  <2> HIDE DEF n
  <2>4. visited' = {ordered'[i] : i \in 1..(n + 1)}
    <3>1. \A i \in 1..(n + 1) : ordered'[i] \in visited'
      BY <1>1, <2>1, <2>2, <2>3
    <3>2. \A k \in visited' : \E i \in 1..(n + 1) : k = ordered'[i]
      BY <1>1, <2>1, <2>2, <2>3
    <3>3. QED
      BY <3>1, <3>2, Zenon
  <2>5. visited' \subseteq Reached
    BY <1>1, <1>8 DEF WalkInv, OrderedInv
  <2>6. ASSUME NEW i \in 1..(n + 1), NEW j \in 1..(n + 1), ordered'[i] = ordered'[j]
        PROVE  i = j
    <3>1. \A k \in 1..n : ordered[k] # key
      BY <1>6, <2>2
    <3>2. QED
      BY <2>1, <2>2, <2>3, <2>6, <3>1
  <2>7. visited' \cap visiting' = {}
    BY <1>1 DEF WalkInv, OrderedInv
  <2>8. ASSUME NEW i \in 1..(n + 1)
        PROVE  deps[ordered'[i]] \subseteq {ordered'[j] : j \in 1..(i - 1)}
    <3>1. CASE i = n + 1
      <4>1. \A k \in visited : \E j \in 1..n : k = ordered'[j]
        BY <2>2, <2>3
      <4>2. i - 1 = n
        BY <2>1, <3>1
      <4>3. QED
        BY <1>7, <2>3, <3>1, <4>1, <4>2
    <3>2. CASE i \in 1..n
      <4>1. \A j \in 1..(i - 1) : j \in 1..n
        BY <2>1, <3>2
      <4>2. deps[ordered[i]] \subseteq {ordered[j] : j \in 1..(i - 1)}
        BY <2>2, <3>2
      <4>3. QED
        BY <2>3, <3>2, <4>1, <4>2
    <3>3. QED
      BY <2>1, <3>1, <3>2
  <2>9. QED
    BY <1>1, <1>9, <2>3, <2>4, <2>5, <2>6, <2>7, <2>8 DEF OrderedInv
<1>14. OutcomeInv'
  <2>1. CASE Depth = 1
    <3>1. key = start
      BY <2>1 DEF WalkInv, PathInv, key
    <3>2. QED
      BY <1>1, <2>1, <3>1 DEF OutcomeInv
  <2>2. CASE Depth # 1
    BY <1>1, <1>2, <1>4, <2>2 DEF OutcomeInv
  <2>3. QED
    BY <2>1, <2>2
<1>15. QED
  BY <1>10, <1>11, <1>12, <1>13, <1>14 DEF WalkInv

(* The walk never nests deeper than there are tasks: the keys under way    *)
(* are distinct.                                                           *)
LEMMA WalkIsShallow ==
    ASSUME WalkInv
    PROVE  Len(stack) <= Cardinality(Keys)
<1>1. stack \in Seq(Calls) /\ Len(stack) \in Nat
  BY DEF WalkInv, WalkTypes
<1> DEFINE keyOf == [i \in 1..Len(stack) |-> stack[i].key]
<1>2. keyOf \in [1..Len(stack) -> Keys]
  BY CallsUnderWay DEF WalkInv, Depth
<1>3. \A i, j \in 1..Len(stack) : keyOf[i] = keyOf[j] => i = j
  BY DEF WalkInv, PathInv, Depth
<1> HIDE DEF keyOf
<1>4. keyOf \in Injection(1..Len(stack), Keys)
  BY <1>2, <1>3, Zenon DEF Injection, IsInjective
<1>5. Cardinality(1..Len(stack)) = Len(stack)
  <2>1. ASSUME NEW n \in Nat PROVE Cardinality(1..n) = n
    <3>1. Cardinality(1..n) = IF 1 > n THEN 0 ELSE n - 1 + 1
      BY FS_Interval
    <3>2. QED
      BY <3>1
  <2>2. QED
    BY <1>1, <2>1
<1>6. Cardinality(1..Len(stack)) <= Cardinality(Keys)
  BY <1>4, FS_Injection, KeyAssumption
<1>7. QED
  BY <1>5, <1>6

(* The keys up to any place of the answer depend on nothing after it.      *)
LEMMA PrefixIsClosed ==
    ASSUME WalkInv, NEW i \in 1..Len(ordered)
    PROVE  Ancestors(deps, ordered[i]) \subseteq {ordered[j] : j \in 1..i}
<1> DEFINE P == {ordered[j] : j \in 1..i}
<1>1. /\ ordered \in Seq(Keys) /\ Len(ordered) \in Nat
      /\ deps \in [Nodes -> SUBSET Nodes]
      /\ \A j \in 1..i : j \in 1..Len(ordered) /\ ordered[j] \in Nodes
  BY DEF WalkInv, WalkTypes, Nodes
<1>2. P \in SUBSET DOMAIN deps /\ ordered[i] \in P
  BY <1>1
<1>3. ASSUME NEW j \in 1..i
      PROVE  deps[ordered[j]] \subseteq P
  <2>1. deps[ordered[j]] \subseteq {ordered[k] : k \in 1..(j - 1)}
    BY <1>1 DEF WalkInv, OrderedInv
  <2>2. \A k \in 1..(j - 1) : k \in 1..i
    BY <1>1
  <2>3. QED
    BY <2>1, <2>2
<1>4. ClosedUnderParents(deps, P)
  BY <1>3 DEF ClosedUnderParents
<1>5. QED
  BY <1>2, <1>4 DEF Ancestors

(* An answer is the closure, with no cycle and nothing missing in it.      *)
LEMMA WalkEnds ==
    ASSUME WalkInv, outcome = "done"
    PROVE  /\ ~ HasCycle /\ Missing \notin Reached
           /\ ToSet(ordered) = Reached
           /\ Len(ordered) = Cardinality(Reached)
<1> DEFINE n == Len(ordered)
<1>1. /\ ordered \in Seq(Keys) /\ n \in Nat
      /\ deps \in [Nodes -> SUBSET Nodes]
      /\ \A i \in 1..n : ordered[i] \in Keys
  BY DEF WalkInv, WalkTypes
<1>2. /\ visited = {ordered[i] : i \in 1..n}
      /\ visited \subseteq Reached
      /\ \A i, j \in 1..n : ordered[i] = ordered[j] => i = j
      /\ \A i \in 1..n : deps[ordered[i]] \subseteq {ordered[j] : j \in 1..(i - 1)}
      /\ start \in visited
  BY DEF WalkInv, OrderedInv, OutcomeInv
<1>3. Reached = visited
  <2>1. visited \in SUBSET DOMAIN deps
    BY <1>1, <1>2 DEF Nodes
  <2>2. ASSUME NEW x \in visited PROVE deps[x] \subseteq visited
    <3>1. PICK i \in 1..n : x = ordered[i]
      BY <1>2
    <3>2. \A j \in 1..(i - 1) : j \in 1..n
      BY <1>1
    <3>3. QED
      BY <1>2, <3>1, <3>2
  <2>3. ClosedUnderParents(deps, visited)
    BY <2>2 DEF ClosedUnderParents
  <2>4. QED
    BY <1>2, <2>1, <2>3 DEF Reached, Ancestors
<1>4. Missing \notin Reached
  BY <1>1, <1>2, <1>3, KeyAssumption
<1>5. ~ HasCycle
  <2> SUFFICES ASSUME NEW x \in Reached, NEW y \in deps[x], x \in Ancestors(deps, y)
               PROVE  FALSE
    BY DEF HasCycle
  <2>1. PICK i \in 1..n : x = ordered[i]
    BY <1>2, <1>3
  <2>2. PICK j \in 1..(i - 1) : y = ordered[j]
    <3>1. deps[x] \subseteq {ordered[j] : j \in 1..(i - 1)}
      BY <1>2, <2>1
    <3>2. QED
      BY <3>1
  <2>3. j \in 1..n /\ j < i
    BY <1>1
  <2>4. x \in {ordered[k] : k \in 1..j}
    BY <2>2, <2>3, PrefixIsClosed
  <2>5. PICK k \in 1..j : x = ordered[k]
    BY <2>4
  <2>6. k \in 1..n /\ k # i
    BY <1>1, <2>3
  <2>7. QED
    BY <1>2, <2>1, <2>5, <2>6
<1>6. ToSet(ordered) = Reached
  <2>1. DOMAIN ordered = 1..n
    BY <1>1
  <2>2. QED
    BY <1>2, <1>3, <2>1 DEF ToSet
<1>7. n = Cardinality(Reached)
  <2>1. ordered \in [1..n -> Reached]
    BY <1>1, <1>2
  <2>2. ordered \in Bijection(1..n, Reached)
    BY <1>2, <1>3, <2>1 DEF Bijection, Injection, Surjection, IsInjective
  <2>3. ExistsBijection(1..n, Reached)
    BY <2>2 DEF ExistsBijection
  <2>4. QED
    BY <1>1, <2>3, FS_CountingElements
<1>8. QED
  BY <1>4, <1>5, <1>6, <1>7

(* The walk answers with the closure, each task once and after all it      *)
(* depends on, or names a true defect of the stored graph, whatever that   *)
(* graph is; and it nests no deeper than there are tasks.                  *)
THEOREM WalkIsRight == WalkSpec => []WalkAnswers
<1>1. WalkInv /\ [WalkNext]_walkVars => WalkInv'
  <2> SUFFICES ASSUME WalkInv, [WalkNext]_walkVars PROVE WalkInv'
    OBVIOUS
  <2>1. ASSUME NEW key \in calling, Running,
               MeetCycle(key) \/ MeetMissing(key) \/ MeetKnown(key) \/ MeetNew(key)
        PROVE  WalkInv'
    BY <2>1, RaiseKeeps, MeetKnownKeeps, MeetNewKeeps DEF Running
  <2>2. CASE CallParent
    BY <2>2, CallParentKeeps
  <2>3. CASE Return
    BY <2>3, ReturnKeeps
  <2>4. CASE UNCHANGED walkVars
    <3>1. /\ UNCHANGED <<deps, start, stack, calling, visiting, visited, ordered>>
          /\ outcome' = outcome
      BY <2>4 DEF walkVars
    <3>2. Depth' = Depth /\ Reached' = Reached /\ HasCycle' = HasCycle
      BY <3>1, Zenon DEF Depth, Reached, HasCycle
    <3>3. WalkTypes' /\ PathInv'
      BY <3>1, <3>2 DEF WalkInv, WalkTypes, PathInv
    <3>4. HandledInv'
      BY <3>1, <3>2 DEF WalkInv, HandledInv
    <3>5. OrderedInv'
      BY <3>1, OrderedStays DEF WalkInv
    <3>6. OutcomeInv'
      BY <3>1, <3>2 DEF WalkInv, OutcomeInv
    <3>7. QED
      BY <3>3, <3>4, <3>5, <3>6 DEF WalkInv
  <2>5. QED
    BY <2>1, <2>2, <2>3, <2>4 DEF WalkNext
<1>2. WalkInv => WalkAnswers
  <2> SUFFICES ASSUME WalkInv PROVE WalkAnswers
    OBVIOUS
  <2>1. /\ outcome = "DEPENDENCY_CYCLE" => HasCycle
        /\ outcome = "DEPENDENCY_MISSING" => Missing \in Reached
    BY DEF WalkInv, OutcomeInv
  <2>2. \A i \in DOMAIN ordered :
           deps[ordered[i]] \subseteq {ordered[j] : j \in 1..(i - 1)}
    <3>1. DOMAIN ordered = 1..Len(ordered)
      BY DEF WalkInv, WalkTypes
    <3>2. QED
      BY <3>1 DEF WalkInv, OrderedInv
  <2>3. QED
    BY <2>1, <2>2, WalkIsShallow, WalkEnds DEF WalkAnswers
<1>3. QED
  BY <1>1, <1>2, WalkBegins, PTL DEF WalkSpec

-----------------------------------------------------------------------------
(* core.affected_tasks *)

(* The rounds stay between the tasks of the scope and the least closed     *)
(* set, and a round that adds nothing has closed it.                       *)
GrowthInv ==
    /\ graph \in [Registered -> SUBSET Registered]
    /\ dirty \subseteq result
    /\ result \subseteq Dependents(graph, dirty)
    /\ done => ClosedUnderChildren(graph, result)

(* A round adds nothing that is not in the least closed set. *)
LEMMA GrowthStep ==
    GrowthInv /\ [Round]_growthVars => GrowthInv'
<1> SUFFICES ASSUME GrowthInv, Round
             PROVE  GrowthInv'
  BY DEF GrowthInv, growthVars
<1>1. /\ graph \in [Registered -> SUBSET Registered]
      /\ dirty \subseteq result
      /\ result \subseteq Dependents(graph, dirty)
  BY DEF GrowthInv
<1>2. /\ graph' = graph /\ dirty' = dirty
      /\ result' = result \cup Added
      /\ done' => Added = {}
  BY DEF Round
<1>3. ASSUME NEW k \in Added
      PROVE  k \in Dependents(graph, dirty)
  <2>1. k \in Registered /\ graph[k] \cap result # {}
    BY DEF Added
  <2>2. ASSUME NEW S \in SUBSET Registered, dirty \subseteq S, ClosedUnderChildren(graph, S)
        PROVE  k \in S
    <3>1. result \subseteq S
      BY <1>1, <2>2 DEF Dependents
    <3>2. QED
      BY <1>1, <2>1, <2>2, <3>1 DEF ClosedUnderChildren
  <2>3. QED
    BY <1>1, <2>1, <2>2 DEF Dependents
<1>4. ASSUME Added = {}
      PROVE  ClosedUnderChildren(graph, result)
  BY <1>1, <1>4 DEF Added, ClosedUnderChildren
<1>5. Dependents(graph, dirty)' = Dependents(graph, dirty)
  BY <1>2, Zenon
<1>6. done' => ClosedUnderChildren(graph', result')
  <2> SUFFICES ASSUME done' PROVE ClosedUnderChildren(graph', result')
    OBVIOUS
  <2>1. graph' = graph /\ result' = result
    BY <1>2
  <2>2. QED
    BY <1>2, <1>4, <2>1
<1>7. QED
  BY <1>1, <1>2, <1>3, <1>5, <1>6 DEF GrowthInv

(* affected_tasks ends with the tasks whose own upward closure meets the   *)
(* scope, however many tasks there are.                                    *)
THEOREM PropagationIsExact == GrowthSpec => []GrowthMeetsAncestors
<1>1. GrowthInit => GrowthInv
  <2> SUFFICES ASSUME GrowthInit PROVE GrowthInv
    OBVIOUS
  <2>1. graph \in [Registered -> SUBSET Registered]
    BY NewestAssumption DEF GrowthInit, Registered
  <2>2. dirty \subseteq Dependents(graph, dirty)
    BY <2>1 DEF Dependents, GrowthInit
  <2>3. QED
    BY <2>1, <2>2 DEF GrowthInit, GrowthInv
<1>2. GrowthInv => GrowthMeetsAncestors
  <2> SUFFICES ASSUME GrowthInv, done, NEW k \in Registered
               PROVE  k \in result <=> Ancestors(graph, k) \cap dirty # {}
    BY DEF GrowthMeetsAncestors
  <2>1. /\ graph \in [Registered -> SUBSET Registered]
        /\ dirty \subseteq result /\ result \subseteq Registered
    BY DEF GrowthInv, Dependents
  <2>2. k \in Dependents(graph, dirty) <=> k \in result
    BY <2>1 DEF GrowthInv, Dependents
  <2>3. QED
    BY <2>1, <2>2, Duality
<1>3. QED
  BY <1>1, <1>2, GrowthStep, PTL DEF GrowthSpec

-----------------------------------------------------------------------------
(* FixedWindowRateLimiter *)

(* popleft stops at the first time after the cutoff. *)
LEMMA PoppedIsLeading ==
    ASSUME NEW times \in Seq(Nat), NEW cutoff \in Int
    PROVE  /\ Popped(times, cutoff) \in 0..Len(times)
           /\ \A i \in 1..Popped(times, cutoff) : times[i] <= cutoff
           /\ Popped(times, cutoff) < Len(times) => times[Popped(times, cutoff) + 1] > cutoff
<1> DEFINE S == {n \in 0..Len(times) : n < Len(times) => times[n + 1] > cutoff}
<1>1. Len(times) \in Nat /\ \A i \in 1..Len(times) : times[i] \in Nat
  OBVIOUS
<1>2. Len(times) \in S /\ S \in SUBSET Nat
  BY <1>1
<1>3. PICK n \in S : \A j \in S : n <= j
  <2> HIDE DEF S
  <2>1. QED
    BY <1>2, LeastOfNaturals
<1>4. ASSUME NEW i \in 1..n PROVE times[i] <= cutoff
  <2>1. i - 1 \in 0..Len(times) /\ i - 1 < n /\ n <= Len(times) /\ i - 1 < Len(times)
    BY <1>1, <1>3
  <2>2. i - 1 \notin S
    BY <1>1, <1>3, <2>1
  <2>3. ~ (times[(i - 1) + 1] > cutoff) /\ (i - 1) + 1 = i
    BY <2>1, <2>2
  <2>4. times[i] \in Nat
    BY <1>1, <2>1
  <2>5. QED
    BY <2>3, <2>4
<1>5. \E k \in 0..Len(times) :
          /\ \A i \in 1..k : times[i] <= cutoff
          /\ k < Len(times) => times[k + 1] > cutoff
  BY <1>3, <1>4
<1>6. QED
  BY <1>5, Zenon DEF Popped

(* Pruning drops the first times and no others. *)
LEMMA SinceIsRest ==
    ASSUME NEW times \in Seq(Nat), NEW cutoff \in Int
    PROVE  /\ Since(times, cutoff) \in Seq(Nat)
           /\ Len(Since(times, cutoff)) = Len(times) - Popped(times, cutoff)
           /\ \A i \in 1..Len(Since(times, cutoff)) :
                 Since(times, cutoff)[i] = times[Popped(times, cutoff) + i]
<1> DEFINE p == Popped(times, cutoff)
<1>1. p \in 0..Len(times) /\ Len(times) \in Nat
  BY PoppedIsLeading
<1> HIDE DEF p
<1>2. \A i \in (p + 1)..Len(times) : times[i] \in Nat
  BY <1>1
<1>3. /\ SubSeq(times, p + 1, Len(times)) \in Seq(Nat)
      /\ Len(SubSeq(times, p + 1, Len(times)))
            = IF p + 1 <= Len(times) THEN Len(times) - (p + 1) + 1 ELSE 0
      /\ \A i \in 1..(Len(times) - (p + 1) + 1) :
            SubSeq(times, p + 1, Len(times))[i] = times[(p + 1) + i - 1]
  BY <1>1, <1>2, SubSeqProperties
<1>4. Since(times, cutoff) = SubSeq(times, p + 1, Len(times))
  BY DEF Since, p
<1>5. /\ Len(SubSeq(times, p + 1, Len(times))) = Len(times) - p
      /\ \A i \in 1..(Len(times) - p) :
            SubSeq(times, p + 1, Len(times))[i] = times[p + i]
  BY <1>1, <1>3
<1>6. QED
  BY <1>3, <1>4, <1>5 DEF p

(* Pruning leaves the latest time alone while that is inside the window.   *)
LEMMA SinceKeepsLast ==
    ASSUME NEW times \in Seq(Nat), NEW cutoff \in Int
    PROVE  /\ times # << >> /\ Last(times) > cutoff =>
                 /\ Since(times, cutoff) # << >>
                 /\ Last(Since(times, cutoff)) = Last(times)
           /\ Since(times, cutoff) # << >> =>
                 /\ times # << >>
                 /\ Last(Since(times, cutoff)) = Last(times)
<1> DEFINE p == Popped(times, cutoff)
           rest == Since(times, cutoff)
<1>1. /\ p \in 0..Len(times) /\ Len(times) \in Nat
      /\ \A i \in 1..p : times[i] <= cutoff
  BY PoppedIsLeading
<1>2. /\ rest \in Seq(Nat) /\ Len(rest) = Len(times) - p
      /\ \A i \in 1..Len(rest) : rest[i] = times[p + i]
  BY SinceIsRest
<1> HIDE DEF p, rest
<1>3. ASSUME times # << >>, Last(times) > cutoff PROVE p < Len(times)
  <2>1. times[Len(times)] > cutoff
    BY <1>3 DEF Last
  <2>2. Len(times) \in 1..Len(times)
    BY <1>1, <1>3
  <2>3. times[Len(times)] \in Nat
    BY <2>2
  <2>4. ~ (times[Len(times)] <= cutoff)
    BY <2>1, <2>3
  <2>5. Len(times) \notin 1..p
    BY <1>1, <2>4
  <2>6. QED
    BY <1>1, <2>2, <2>5
<1>4. ASSUME p < Len(times) PROVE rest # << >> /\ Last(rest) = Last(times)
  <2>1. Len(rest) \in 1..Len(rest) /\ p + Len(rest) = Len(times)
    BY <1>1, <1>2, <1>4
  <2>2. QED
    BY <1>2, <2>1 DEF Last
<1>5. rest # << >> => p < Len(times) /\ times # << >>
  BY <1>1, <1>2
<1>6. QED
  BY <1>3, <1>4, <1>5 DEF p, rest

(* The times from n + 1 on are the end of the bucket. *)
Ends(times, n, bucket) ==
    /\ Len(times) - n <= Len(bucket)
    /\ \A i \in (n + 1)..Len(times) : times[i] = bucket[Len(bucket) - Len(times) + i]

(* Pruning the bucket takes nothing a host is still accountable for.       *)
LEMMA EndsPruned ==
    ASSUME NEW times \in Seq(Nat), NEW bucket \in Seq(Nat), NEW n \in 0..Len(times),
           NEW cutoff \in Int, Ends(times, n, bucket),
           \A i \in 1..Len(times) : times[i] > cutoff
    PROVE  Ends(times, n, Since(bucket, cutoff))
<1> DEFINE p == Popped(bucket, cutoff)
           rest == Since(bucket, cutoff)
<1>0. /\ Len(bucket) \in Nat /\ Len(times) \in Nat
      /\ \A i \in 1..Len(times) : times[i] \in Nat /\ times[i] > cutoff
  OBVIOUS
<1>1. /\ p \in 0..Len(bucket) /\ Len(bucket) \in Nat /\ Len(times) \in Nat
      /\ \A i \in 1..p : bucket[i] <= cutoff
  BY <1>0, PoppedIsLeading
<1>2. /\ Len(rest) = Len(bucket) - p
      /\ \A i \in 1..Len(rest) : rest[i] = bucket[p + i]
  BY SinceIsRest
<1> HIDE DEF p, rest
<1>3. p <= Len(bucket) - (Len(times) - n)
  <2> SUFFICES ASSUME p > Len(bucket) - (Len(times) - n)
               PROVE  FALSE
    BY <1>1
  <2> DEFINE at == Len(bucket) - Len(times) + (n + 1)
  <2>1. at \in 1..p /\ n + 1 \in (n + 1)..Len(times) /\ n + 1 \in 1..Len(times)
    BY <1>1 DEF Ends
  <2>2. times[n + 1] = bucket[at]
    BY <2>1 DEF Ends
  <2>3. times[n + 1] \in Nat /\ times[n + 1] > cutoff
    BY <1>0, <2>1
  <2>4. bucket[at] <= cutoff
    <3> HIDE DEF at
    <3>1. QED
      BY <1>1, <2>1
  <2>5. QED
    BY <2>2, <2>3, <2>4
<1>4. ASSUME NEW i \in (n + 1)..Len(times)
      PROVE  times[i] = rest[Len(rest) - Len(times) + i]
  <2>1. Len(rest) - Len(times) + i \in 1..Len(rest)
    BY <1>1, <1>2, <1>3
  <2>2. p + (Len(rest) - Len(times) + i) = Len(bucket) - Len(times) + i
    BY <1>1, <1>2
  <2>3. QED
    BY <1>2, <2>1, <2>2 DEF Ends
<1>5. QED
  BY <1>1, <1>2, <1>3, <1>4 DEF Ends, rest

(* rest is times without some of its first. *)
IsRest(rest, times) ==
    \E q \in 0..Len(times) : /\ Len(rest) = Len(times) - q
                             /\ \A i \in 1..Len(rest) : rest[i] = times[q + i]

(* Forgetting the first times a host was served leaves the rest covered.   *)
LEMMA EndsDropped ==
    ASSUME NEW times \in Seq(Nat), NEW bucket \in Seq(Nat), NEW n \in 0..Len(times),
           NEW rest \in Seq(Nat), Ends(times, n, bucket), IsRest(rest, times)
    PROVE  \E m \in 0..Len(rest) : /\ m > 0 => n > 0 /\ rest[m] = times[n]
                                   /\ Ends(rest, m, bucket)
<1>0. PICK q \in 0..Len(times) : /\ Len(rest) = Len(times) - q
                                 /\ \A i \in 1..Len(rest) : rest[i] = times[q + i]
  BY DEF IsRest
<1> DEFINE m == IF n > q THEN n - q ELSE 0
<1>1. /\ Len(times) \in Nat /\ Len(bucket) \in Nat
      /\ m \in 0..Len(rest) /\ q + m >= n
      /\ m > 0 => n = q + m /\ n > 0 /\ m \in 1..Len(rest)
  <2>1. Len(times) \in Nat /\ Len(bucket) \in Nat
    OBVIOUS
  <2>2. q \in Nat /\ n \in Nat /\ q <= Len(times) /\ n <= Len(times)
    BY <1>0, <2>1
  <2>3. QED
    BY <1>0, <2>1, <2>2
<1> HIDE DEF m
<1>2. m > 0 => n > 0 /\ rest[m] = times[n]
  BY <1>0, <1>1
<1>3. Len(rest) - m <= Len(bucket)
  BY <1>0, <1>1 DEF Ends
<1>4. ASSUME NEW i \in (m + 1)..Len(rest)
      PROVE  rest[i] = bucket[Len(bucket) - Len(rest) + i]
  <2>1. i \in 1..Len(rest) /\ q + i \in (n + 1)..Len(times)
    BY <1>0, <1>1
  <2>2. Len(bucket) - Len(rest) + i = Len(bucket) - Len(times) + (q + i)
    BY <1>0, <1>1
  <2>3. QED
    BY <1>0, <2>1, <2>2 DEF Ends
<1>5. QED
  BY <1>1, <1>2, <1>3, <1>4 DEF Ends

(* A time served goes into both. *)
LEMMA EndsAppended ==
    ASSUME NEW times \in Seq(Nat), NEW bucket \in Seq(Nat), NEW n \in 0..Len(times),
           NEW at \in Nat, Ends(times, n, bucket)
    PROVE  Ends(Append(times, at), n, Append(bucket, at))
<1> DEFINE s == Append(times, at)
           b == Append(bucket, at)
<1>1. /\ Len(times) \in Nat /\ Len(s) = Len(times) + 1
      /\ \A i \in 1..Len(times) : s[i] = times[i]
      /\ s[Len(times) + 1] = at
  OBVIOUS
<1>2. /\ Len(bucket) \in Nat /\ Len(b) = Len(bucket) + 1
      /\ \A i \in 1..Len(bucket) : b[i] = bucket[i]
      /\ b[Len(bucket) + 1] = at
  OBVIOUS
<1> HIDE DEF s, b
<1>3. ASSUME NEW i \in (n + 1)..Len(s)
      PROVE  s[i] = b[Len(b) - Len(s) + i]
  <2>1. Len(b) - Len(s) + i = Len(bucket) - Len(times) + i
    BY <1>1, <1>2
  <2>2. CASE i = Len(s)
    BY <1>1, <1>2, <2>1, <2>2
  <2>3. CASE i # Len(s)
    <3>1. i \in (n + 1)..Len(times) /\ i \in 1..Len(times)
      BY <1>1, <2>3
    <3>2. Len(bucket) - Len(times) + i \in 1..Len(bucket)
      BY <1>1, <1>2, <3>1 DEF Ends
    <3>3. times[i] = bucket[Len(bucket) - Len(times) + i]
      BY <3>1 DEF Ends
    <3>4. QED
      BY <1>1, <1>2, <2>1, <3>1, <3>2, <3>3
  <2>4. QED
    BY <2>2, <2>3
<1>4. Len(s) - n <= Len(b)
  BY <1>1, <1>2 DEF Ends
<1>5. QED
  BY <1>3, <1>4 DEF Ends, s, b

(* Times in order stay so when pruned, and none that is left is too old.   *)
LEMMA SinceInOrder ==
    ASSUME NEW times \in Seq(Nat), NEW cutoff \in Int, NEW latest \in Nat,
           \A j \in 1..Len(times) : times[j] <= latest,
           \A j \in 1..Len(times) : \A i \in 1..j : times[i] <= times[j],
           NEW j \in 1..Len(Since(times, cutoff))
    PROVE  /\ Since(times, cutoff)[j] > cutoff
           /\ Since(times, cutoff)[j] <= latest
           /\ \A i \in 1..j : Since(times, cutoff)[i] <= Since(times, cutoff)[j]
<1> DEFINE p == Popped(times, cutoff)
           rest == Since(times, cutoff)
<1>1. /\ p \in 0..Len(times) /\ Len(rest) = Len(times) - p
      /\ \A i \in 1..Len(rest) : rest[i] = times[p + i]
      /\ p < Len(times) => times[p + 1] > cutoff
  BY PoppedIsLeading, SinceIsRest
<1>2. Len(times) \in Nat /\ \A i \in 1..Len(times) : times[i] \in Nat
  OBVIOUS
<1>3. j \in 1..Len(rest)
  OBVIOUS
<1> HIDE DEF p, rest
<1>4. p + j \in 1..Len(times) /\ p + 1 \in 1..(p + j) /\ p < Len(times)
  BY <1>1, <1>2, <1>3
<1>5. p + 1 \in 1..Len(times)
  BY <1>1, <1>4
<1>6. times[p + 1] <= times[p + j] /\ times[p + j] <= latest
  BY <1>4
<1>7. times[p + j] > cutoff
  BY <1>1, <1>2, <1>4, <1>5, <1>6
<1>8. ASSUME NEW i \in 1..j PROVE rest[i] <= rest[j]
  <2>1. p + i \in 1..(p + j) /\ i \in 1..Len(rest)
    BY <1>1, <1>2, <1>3
  <2>2. times[p + i] <= times[p + j]
    BY <1>4, <2>1
  <2>3. QED
    BY <1>1, <1>3, <2>1, <2>2
<1>9. QED
  BY <1>1, <1>3, <1>6, <1>7, <1>8 DEF rest

(* The window moves on over the times served. *)
LEMMA EndsSince ==
    ASSUME NEW times \in Seq(Nat), NEW bucket \in Seq(Nat), NEW n \in 0..Len(times),
           NEW cutoff \in Int, Ends(times, n, bucket)
    PROVE  \E m \in 0..Len(Since(times, cutoff)) :
              /\ m > 0 => n > 0 /\ Since(times, cutoff)[m] = times[n]
              /\ Ends(Since(times, cutoff), m, bucket)
<1>1. Since(times, cutoff) \in Seq(Nat) /\ IsRest(Since(times, cutoff), times)
  BY PoppedIsLeading, SinceIsRest DEF IsRest
<1>2. QED
  BY <1>1, EndsDropped

(* More hosts than there is room for were served at t or later. *)
Crowd(times, t) ==
    \E C \in SUBSET Hosts : /\ IsFiniteSet(C) /\ Cardinality(C) > MaxKeys
                            /\ \A j \in C : times[j] # << >> /\ t <= Last(times[j])

(* All the limiter still has to know of h's times is at the end of its     *)
(* bucket: what came before was lost to a crowd, or is over Limit.         *)
Covered(times, h, bucket) ==
    \E n \in 0..Len(times[h]) : /\ n > 0 => Crowd(times, times[h][n])
                                /\ Ends(times[h], n, bucket)

LimiterTypes ==
    /\ now \in Nat
    /\ DOMAIN buckets \subseteq Hosts /\ IsFiniteSet(DOMAIN buckets)
    /\ \A h \in DOMAIN buckets :
          buckets[h] \in Seq(Nat) /\ buckets[h] # << >> /\ Len(buckets[h]) <= Limit
    /\ served \in [Hosts -> Seq(Nat)]
    /\ IsFiniteSet({h \in Hosts : served[h] # << >>})

(* served is in order and inside the window, and its latest is the bucket's *)
(* latest as long as that is inside too.                                   *)
WindowInv ==
    /\ \A h \in Hosts : \A j \in 1..Len(served[h]) : \A i \in 1..j :
          served[h][i] <= served[h][j]
    /\ \A h \in Hosts : \A i \in 1..Len(served[h]) :
          served[h][i] > now - Window /\ served[h][i] <= now
    /\ \A h \in DOMAIN buckets :
          Last(buckets[h]) > now - Window =>
              served[h] # << >> /\ Last(served[h]) = Last(buckets[h])

CoverInv == \A h \in Hosts : Covered(served, h, Bucket(h))

LimiterInv == LimiterTypes /\ WindowInv /\ CoverInv

(* A bucket, or the new one of setdefault, holds Limit times at most. *)
LEMMA BucketType ==
    ASSUME LimiterTypes, NEW h \in Hosts
    PROVE  Bucket(h) \in Seq(Nat) /\ Len(Bucket(h)) <= Limit
  BY LimiterConstants DEF LimiterTypes, Bucket

(* A crowd stays while its time is in the window: no one's latest time     *)
(* falls back.                                                             *)
LEMMA CrowdStays ==
    ASSUME NEW times \in [Hosts -> Seq(Nat)], NEW new \in [Hosts -> Seq(Nat)], NEW t \in Nat,
           \A j \in Hosts : times[j] # << >> /\ t <= Last(times[j]) =>
                                new[j] # << >> /\ t <= Last(new[j]),
           Crowd(times, t)
    PROVE  Crowd(new, t)
  BY DEF Crowd

(* No one has been served. *)
LEMMA LimiterBegins == LimiterInit => LimiterInv
<1> SUFFICES ASSUME LimiterInit PROVE LimiterInv
  OBVIOUS
<1>1. now = 0 /\ buckets = << >> /\ served = [h \in Hosts |-> << >>]
  BY DEF LimiterInit
<1>2. DOMAIN buckets = {} /\ {h \in Hosts : served[h] # << >>} = {}
  BY <1>1
<1>3. LimiterTypes
  <2>1. IsFiniteSet(DOMAIN buckets) /\ IsFiniteSet({h \in Hosts : served[h] # << >>})
    BY <1>2, FS_EmptySet
  <2>2. served \in [Hosts -> Seq(Nat)] /\ now \in Nat
    BY <1>1
  <2>3. QED
    BY <1>2, <2>1, <2>2 DEF LimiterTypes
<1>4. WindowInv
  BY <1>1, <1>2 DEF WindowInv
<1>5. CoverInv
  BY <1>1, <1>2 DEF CoverInv, Covered, Ends, Bucket
<1>6. QED
  BY <1>3, <1>4, <1>5 DEF LimiterInv

(* Time passes: every window moves on, and no bucket is touched.           *)
LEMMA LaterKeeps ==
    ASSUME LimiterInv, Later
    PROVE  LimiterInv'
<1> DEFINE cutoff == now' - Window
<1>1. /\ now' = now + 1 /\ buckets' = buckets
      /\ served' = [h \in Hosts |-> Since(served[h], cutoff)]
  BY DEF Later
<1>2. LimiterTypes /\ WindowInv /\ CoverInv
  BY DEF LimiterInv
<1>3. now \in Nat /\ now' \in Nat /\ cutoff \in Int /\ cutoff > now - Window
  BY <1>1, <1>2, LimiterConstants DEF LimiterTypes
<1> HIDE DEF cutoff
<1>4. \A h \in Hosts : served[h] \in Seq(Nat) /\ served'[h] = Since(served[h], cutoff)
  BY <1>1, <1>2 DEF LimiterTypes
<1>5. \A h \in Hosts : served'[h] \in Seq(Nat)
  BY <1>3, <1>4, SinceIsRest
<1>6. \A h \in Hosts :
         /\ served[h] # << >> /\ Last(served[h]) > cutoff =>
                served'[h] # << >> /\ Last(served'[h]) = Last(served[h])
         /\ served'[h] # << >> => served[h] # << >> /\ Last(served'[h]) = Last(served[h])
  BY <1>3, <1>4, SinceKeepsLast
<1>7. LimiterTypes'
  <2> DEFINE was == {h \in Hosts : served[h] # << >>}
             are == {h \in Hosts : served'[h] # << >>}
  <2>1. are \in SUBSET was /\ IsFiniteSet(was)
    BY <1>2, <1>6 DEF LimiterTypes
  <2> HIDE DEF was
  <2>2. IsFiniteSet(are)
    BY <2>1, FS_Subset
  <2>3. served' \in [Hosts -> Seq(Nat)]
    BY <1>1, <1>4, <1>5
  <2>4. QED
    BY <1>1, <1>2, <1>3, <2>2, <2>3 DEF LimiterTypes
<1>8. WindowInv'
  <2>1. ASSUME NEW h \in Hosts, NEW j \in 1..Len(served'[h])
        PROVE  /\ served'[h][j] > cutoff /\ served'[h][j] <= now'
               /\ \A i \in 1..j : served'[h][i] <= served'[h][j]
    <3>1. /\ served[h] \in Seq(Nat) /\ served'[h] = Since(served[h], cutoff)
          /\ j \in 1..Len(Since(served[h], cutoff))
      BY <1>4
    <3>2. /\ \A k \in 1..Len(served[h]) : served[h][k] <= now
          /\ \A k \in 1..Len(served[h]) : \A i \in 1..k : served[h][i] <= served[h][k]
      BY <1>2 DEF WindowInv
    <3>3. /\ Since(served[h], cutoff)[j] > cutoff
          /\ Since(served[h], cutoff)[j] <= now
          /\ \A i \in 1..j : Since(served[h], cutoff)[i] <= Since(served[h], cutoff)[j]
      BY <1>3, <3>1, <3>2, SinceInOrder
    <3>4. Since(served[h], cutoff)[j] \in Nat
      BY <1>3, <3>1, SinceIsRest
    <3>5. QED
      BY <1>1, <1>3, <3>1, <3>3, <3>4
  <2>2. ASSUME NEW h \in DOMAIN buckets, Last(buckets[h]) > cutoff
        PROVE  served'[h] # << >> /\ Last(served'[h]) = Last(buckets[h])
    <3>1. h \in Hosts /\ buckets[h] \in Seq(Nat) /\ buckets[h] # << >>
      BY <1>2 DEF LimiterTypes
    <3>2. Last(buckets[h]) \in Nat
      BY <3>1 DEF Last
    <3>3. Last(buckets[h]) > now - Window
      BY <1>2, <1>3, <2>2, <3>2, LimiterConstants DEF LimiterTypes
    <3>4. served[h] # << >> /\ Last(served[h]) = Last(buckets[h])
      BY <1>2, <3>3 DEF WindowInv
    <3>5. QED
      BY <1>6, <2>2, <3>1, <3>4
  <2>3. QED
    BY <1>1, <2>1, <2>2 DEF WindowInv, cutoff
<1>9. CoverInv'
  <2> SUFFICES ASSUME NEW h \in Hosts
               PROVE  Covered(served', h, Bucket(h))
    <3>1. \A h \in Hosts : Bucket(h)' = Bucket(h)
      BY <1>1 DEF Bucket
    <3>2. QED
      BY <3>1 DEF CoverInv
  <2> DEFINE s == served[h]
             b == Bucket(h)
  <2>1. PICK n \in 0..Len(s) : (n > 0 => Crowd(served, s[n])) /\ Ends(s, n, b)
    BY <1>2 DEF CoverInv, Covered
  <2>2. /\ s \in Seq(Nat) /\ served'[h] \in Seq(Nat) /\ b \in Seq(Nat)
        /\ served'[h] = Since(s, cutoff)
    BY <1>2, <1>4, <1>5, BucketType
  <2> HIDE DEF s, b
  <2>3. \E m \in 0..Len(Since(s, cutoff)) :
            /\ m > 0 => n > 0 /\ Since(s, cutoff)[m] = s[n]
            /\ Ends(Since(s, cutoff), m, b)
    BY <1>3, <2>1, <2>2, EndsSince
  <2>4. PICK m \in 0..Len(served'[h]) : /\ m > 0 => n > 0 /\ served'[h][m] = s[n]
                                        /\ Ends(served'[h], m, b)
    BY <2>2, <2>3
  <2>5. ASSUME m > 0 PROVE Crowd(served', served'[h][m])
    <3> DEFINE t == served'[h][m]
    <3>1. t \in Nat /\ m \in 1..Len(served'[h])
      BY <2>2, <2>5
    <3>2. t > cutoff
      BY <1>8, <3>1 DEF WindowInv, cutoff
    <3>3. Crowd(served, t)
      BY <2>1, <2>4, <2>5
    <3>4. served \in [Hosts -> Seq(Nat)] /\ served' \in [Hosts -> Seq(Nat)]
      BY <1>2, <1>7 DEF LimiterTypes
    <3> HIDE DEF t
    <3>5. \A j \in Hosts : served[j] # << >> /\ t <= Last(served[j]) =>
                               served'[j] # << >> /\ t <= Last(served'[j])
      <4> SUFFICES ASSUME NEW j \in Hosts, served[j] # << >>, t <= Last(served[j])
                   PROVE  served'[j] # << >> /\ t <= Last(served'[j])
        OBVIOUS
      <4>1. Last(served[j]) \in Nat
        BY <1>4 DEF Last
      <4>2. Last(served[j]) > cutoff
        BY <1>3, <3>1, <3>2, <4>1
      <4>3. QED
        BY <1>6, <4>2
    <3>6. Crowd(served', t)
      BY <3>1, <3>3, <3>4, <3>5, CrowdStays
    <3>7. QED
      BY <3>6 DEF t
  <2>6. QED
    BY <2>4, <2>5 DEF Covered, b
<1>10. QED
  BY <1>7, <1>8, <1>9 DEF LimiterInv

(* served keeps the latest of h's times: the new one is the last of them.  *)
LEMMA LatestAppended ==
    ASSUME NEW times \in Seq(Nat), NEW at \in Nat
    PROVE  /\ Latest(Append(times, at)) \in Seq(Nat)
           /\ Latest(Append(times, at)) # << >>
           /\ Last(Latest(Append(times, at))) = at
           /\ IsRest(Latest(Append(times, at)), Append(times, at))
<1> DEFINE all == Append(times, at)
           Wanted(last) ==
              /\ last \in Seq(Nat) /\ last # << >> /\ Last(last) = at
              /\ IsRest(last, all)
<1>1. /\ all \in Seq(Nat) /\ all # << >>
      /\ Len(all) \in Nat /\ Len(all) = Len(times) + 1 /\ all[Len(all)] = at
  OBVIOUS
<1> HIDE DEF all
<1>2. ASSUME Len(all) > Limit + 1 PROVE Wanted(Tail(all))
  <2>1. /\ Tail(all) \in Seq(Nat) /\ Len(Tail(all)) = Len(all) - 1
        /\ \A i \in 1..Len(Tail(all)) : Tail(all)[i] = all[1 + i]
    BY <1>1
  <2>2. Len(Tail(all)) \in 1..Len(Tail(all)) /\ 1 \in 0..Len(all)
    BY <1>1, <1>2, <2>1, LimiterConstants
  <2>3. Tail(all)[Len(Tail(all))] = at /\ Tail(all) # << >>
    <3>1. Tail(all)[Len(Tail(all))] = all[1 + Len(Tail(all))]
      BY <2>1, <2>2
    <3>2. 1 + Len(Tail(all)) = Len(all)
      BY <1>1, <2>1
    <3>3. Len(Tail(all)) # 0
      BY <2>1, <2>2
    <3>4. Tail(all)[Len(Tail(all))] = at
      BY <1>1, <3>1, <3>2
    <3>5. Tail(all) # << >>
      <4>1. \A x \in Seq(Nat) : Len(x) # 0 => x # << >>
        OBVIOUS
      <4>2. QED
        BY <2>1, <3>3, <4>1
    <3>6. QED
      BY <3>4, <3>5
  <2>4. QED
    BY <2>1, <2>2, <2>3 DEF Last, IsRest
<1>3. Wanted(all)
  <2>1. /\ 0 \in 0..Len(all) /\ Len(all) = Len(all) - 0
        /\ \A i \in 1..Len(all) : all[i] = all[0 + i]
    BY <1>1
  <2>2. QED
    BY <1>1, <2>1 DEF Last, IsRest
<1> HIDE DEF Wanted
<1>4. Wanted(Latest(all))
  BY <1>2, <1>3 DEF Latest
<1>5. QED
  BY <1>4 DEF Wanted, all

(* Who is left when there has been made room for h, and who is not: hosts  *)
(* whose times have all expired, or the least recent of a full house.      *)
LEMMA RoomMade ==
    ASSUME LimiterTypes, NEW h \in Hosts, NEW room \in Room(h)
    PROVE  /\ room \subseteq DOMAIN buckets
           /\ IsFiniteSet(room)
           /\ \A k \in DOMAIN buckets \ room :
                 /\ k # h
                 /\ \/ ~ (Last(buckets[k]) > now - Window)
                    \/ /\ h \notin DOMAIN buckets /\ k \in Kept
                       /\ Cardinality(Kept) >= MaxKeys /\ IsFiniteSet(Kept)
                       /\ \A j \in Kept : Last(buckets[k]) <= Last(buckets[j])
<1>1. IsFiniteSet(DOMAIN buckets) /\ Kept \in SUBSET DOMAIN buckets
  BY DEF LimiterTypes, Kept
<1>2. IsFiniteSet(Kept) /\ Cardinality(Kept) \in Nat
  BY <1>1, FS_Subset, FS_CardinalityType
<1>3. room \in SUBSET DOMAIN buckets
  BY <1>1 DEF Room
<1>4. IsFiniteSet(room)
  BY <1>1, <1>3, FS_Subset
<1>5. ASSUME NEW k \in DOMAIN buckets \ room
      PROVE  /\ k # h
             /\ \/ ~ (Last(buckets[k]) > now - Window)
                \/ /\ h \notin DOMAIN buckets /\ k \in Kept
                   /\ Cardinality(Kept) >= MaxKeys
                   /\ \A j \in Kept : Last(buckets[k]) <= Last(buckets[j])
  <2>1. h \notin DOMAIN buckets /\ k # h
    BY <1>5 DEF Room
  <2>2. CASE room = Kept
    BY <2>1, <2>2 DEF Kept
  <2>3. CASE /\ ~ (Cardinality(Kept) < MaxKeys)
             /\ room \in {Kept \ {j} : j \in Leaves(Kept)}
    <3>1. PICK j \in Leaves(Kept) : room = Kept \ {j}
      BY <2>3
    <3>2. CASE k = j
      BY <1>2, <2>1, <2>3, <3>1, <3>2, LimiterConstants DEF Leaves
    <3>3. CASE k # j
      BY <2>1, <3>1, <3>3 DEF Kept
    <3>4. QED
      BY <3>2, <3>3
  <2>4. QED
    BY <1>5, <2>1, <2>2, <2>3 DEF Room
<1>6. QED
  BY <1>2, <1>3, <1>4, <1>5

(* What is left of a bucket that goes with nothing in it but expired times *)
(* covers what there was.                                                  *)
LEMMA ExpiredCovers ==
    ASSUME NEW times \in Seq(Nat), NEW bucket \in Seq(Nat), NEW n \in 0..Len(times),
           NEW cutoff \in Int, Ends(times, n, bucket),
           \A i \in 1..Len(times) : times[i] > cutoff,
           ~ (Last(bucket) > cutoff)
    PROVE  n = Len(times)
<1>1. Len(times) \in Nat /\ Len(bucket) \in Nat
  OBVIOUS
<1> SUFFICES ASSUME n < Len(times) PROVE FALSE
  BY <1>1
<1>2. Len(times) \in (n + 1)..Len(times) /\ Len(times) \in 1..Len(times)
  BY <1>1
<1>3. times[Len(times)] = bucket[Len(bucket) - Len(times) + Len(times)]
  BY <1>2 DEF Ends
<1>4. Len(bucket) - Len(times) + Len(times) = Len(bucket)
  BY <1>1
<1>5. QED
  BY <1>2, <1>3, <1>4 DEF Last

(* A request, served or refused, and the eviction it may bring: a bucket   *)
(* is lost live only when a whole house was served no earlier, and the new *)
(* host makes a crowd of them.                                             *)
LEMMA AllowKeeps ==
    ASSUME LimiterInv, NEW h \in Hosts, Allow(h)
    PROVE  LimiterInv'
<1> DEFINE cutoff  == now - Window
           bucket  == Since(Bucket(h), cutoff)
           allowed == Len(bucket) < Limit
           new     == IF allowed THEN Append(bucket, now) ELSE bucket
<1>1. PICK room \in Room(h) :
         /\ buckets' = [k \in room \cup {h} |-> IF k # h THEN buckets[k] ELSE new]
         /\ served' = IF allowed THEN [served EXCEPT ![h] = Latest(Append(@, now))] ELSE served
         /\ now' = now
  BY Zenon DEF Allow
<1>2. LimiterTypes /\ WindowInv /\ CoverInv
  BY DEF LimiterInv
<1>3. /\ now \in Nat /\ cutoff \in Int /\ cutoff < now
      /\ Limit \in Nat /\ Limit > 0 /\ MaxKeys \in Nat /\ Window \in Nat
  BY <1>2, LimiterConstants DEF LimiterTypes
<1>4. /\ room \subseteq DOMAIN buckets /\ IsFiniteSet(room) /\ DOMAIN buckets \subseteq Hosts
      /\ \A k \in Hosts : served[k] \in Seq(Nat)
      /\ \A k \in Hosts : Bucket(k) \in Seq(Nat) /\ Len(Bucket(k)) <= Limit
  BY <1>2, RoomMade, BucketType DEF LimiterTypes
<1>5. bucket \in Seq(Nat) /\ Len(bucket) \in Nat /\ Len(bucket) <= Limit
  <2>1. /\ bucket \in Seq(Nat) /\ Popped(Bucket(h), cutoff) \in 0..Len(Bucket(h))
        /\ Len(bucket) = Len(Bucket(h)) - Popped(Bucket(h), cutoff)
    BY <1>3, <1>4, SinceIsRest, PoppedIsLeading
  <2>2. Len(Bucket(h)) \in Nat /\ Len(Bucket(h)) <= Limit
    BY <1>4
  <2>3. QED
    BY <1>3, <2>1, <2>2
<1>6. bucket # << >> =>
         /\ h \in DOMAIN buckets
         /\ Last(bucket) = Last(buckets[h])
  BY <1>3, <1>4, SinceKeepsLast DEF Bucket
<1>7. h \notin DOMAIN buckets => allowed
  BY <1>3, <1>5, <1>6
<1> HIDE DEF bucket
<1>8. /\ new \in Seq(Nat) /\ new # << >> /\ Len(new) <= Limit
      /\ allowed => Last(new) = now
  <2>1. CASE allowed
    <3>1. /\ Append(bucket, now) \in Seq(Nat) /\ Append(bucket, now) # << >>
          /\ Len(Append(bucket, now)) = Len(bucket) + 1
          /\ Append(bucket, now)[Len(bucket) + 1] = now
      BY <1>3, <1>5
    <3>2. QED
      BY <1>3, <1>5, <2>1, <3>1 DEF Last
  <2>2. CASE ~ allowed
    BY <1>3, <1>5, <2>2
  <2>3. QED
    BY <2>1, <2>2
<1> HIDE DEF new
<1>9. /\ DOMAIN buckets' = room \cup {h} /\ buckets'[h] = new
      /\ \A k \in room : k # h => buckets'[k] = buckets[k]
  BY <1>1
<1>10. /\ \A k \in Hosts : k # h => served'[k] = served[k]
       /\ allowed => served'[h] = Latest(Append(served[h], now))
       /\ ~ allowed => served'[h] = served[h]
  BY <1>1, <1>2 DEF LimiterTypes
<1>11. allowed => /\ served'[h] \in Seq(Nat) /\ served'[h] # << >> /\ Last(served'[h]) = now
                  /\ IsRest(served'[h], Append(served[h], now))
  <2> SUFFICES ASSUME allowed
               PROVE  /\ served'[h] \in Seq(Nat) /\ served'[h] # << >> /\ Last(served'[h]) = now
                      /\ IsRest(served'[h], Append(served[h], now))
    OBVIOUS
  <2>1. served'[h] = Latest(Append(served[h], now)) /\ served[h] \in Seq(Nat)
    BY <1>4, <1>10
  <2>2. /\ Latest(Append(served[h], now)) \in Seq(Nat)
        /\ Latest(Append(served[h], now)) # << >>
        /\ Last(Latest(Append(served[h], now))) = now
        /\ IsRest(Latest(Append(served[h], now)), Append(served[h], now))
    BY <1>3, <2>1, LatestAppended
  <2>3. QED
    BY <2>1, <2>2
<1>12. \A k \in Hosts : served'[k] \in Seq(Nat)
  BY <1>4, <1>10, <1>11
<1>13. LimiterTypes'
  <2>1. served' \in [Hosts -> Seq(Nat)]
    <3>1. DOMAIN served' = Hosts /\ served' = [k \in Hosts |-> served'[k]]
      BY <1>1, <1>2 DEF LimiterTypes
    <3>2. QED
      BY <1>12, <3>1
  <2>2. IsFiniteSet({k \in Hosts : served'[k] # << >>})
    <3> DEFINE was == {k \in Hosts : served[k] # << >>}
               are == {k \in Hosts : served'[k] # << >>}
    <3>1. are \in SUBSET (was \cup {h}) /\ IsFiniteSet(was)
      BY <1>2, <1>10 DEF LimiterTypes
    <3> HIDE DEF was, are
    <3>2. IsFiniteSet(was \cup {h})
      BY <3>1, FS_AddElement
    <3>3. IsFiniteSet(are)
      BY <3>1, <3>2, FS_Subset
    <3>4. QED
      BY <3>3 DEF are
  <2>3. IsFiniteSet(room \cup {h})
    BY <1>4, FS_AddElement
  <2>4. \A k \in DOMAIN buckets' :
           buckets'[k] \in Seq(Nat) /\ buckets'[k] # << >> /\ Len(buckets'[k]) <= Limit
    BY <1>2, <1>4, <1>8, <1>9 DEF LimiterTypes
  <2>5. QED
    BY <1>1, <1>3, <1>4, <1>9, <2>1, <2>2, <2>3, <2>4 DEF LimiterTypes
<1>14. /\ \A k \in Hosts : \A i \in 1..Len(served[k]) :
             served[k][i] > cutoff /\ served[k][i] <= now
       /\ \A k \in Hosts : \A j \in 1..Len(served[k]) : \A i \in 1..j :
             served[k][i] <= served[k][j]
       /\ \A k \in DOMAIN buckets : Last(buckets[k]) > cutoff =>
             served[k] # << >> /\ Last(served[k]) = Last(buckets[k])
  BY <1>2 DEF WindowInv
<1> HIDE DEF allowed
<1>15. WindowInv'
  <2>1. ASSUME NEW k \in Hosts, NEW j \in 1..Len(served'[k])
        PROVE  /\ served'[k][j] > cutoff /\ served'[k][j] <= now
               /\ \A i \in 1..j : served'[k][i] <= served'[k][j]
    <3>1. CASE k # h \/ ~ allowed
      <4>1. served'[k] = served[k]
        BY <1>10, <3>1
      <4>2. QED
        BY <1>14, <4>1
    <3>2. CASE k = h /\ allowed
      <4> DEFINE all == Append(served[h], now)
      <4>1. PICK q \in 0..Len(all) :
               /\ Len(served'[h]) = Len(all) - q
               /\ \A i \in 1..Len(served'[h]) : served'[h][i] = all[q + i]
        BY <1>11, <3>2 DEF IsRest
      <4>2. /\ served[h] \in Seq(Nat) /\ Len(served[h]) \in Nat
            /\ Len(all) = Len(served[h]) + 1 /\ all[Len(served[h]) + 1] = now
            /\ \A i \in 1..Len(served[h]) : all[i] = served[h][i]
        BY <1>3, <1>4
      <4> HIDE DEF all
      <4>3. ASSUME NEW a \in 1..Len(all)
            PROVE  /\ all[a] > cutoff /\ all[a] <= now
                   /\ \A i \in 1..a : all[i] <= all[a]
        <5>1. CASE a = Len(all)
          <6>1. all[a] = now
            BY <4>2, <5>1
          <6>2. \A i \in 1..a : i \in 1..Len(served[h]) \/ i = a
            BY <4>2, <5>1
          <6>3. \A i \in 1..a : all[i] <= now
            <7>1. ASSUME NEW i \in 1..Len(served[h]) PROVE all[i] <= now
              BY <1>14, <4>2
            <7>2. QED
              BY <1>3, <6>1, <6>2, <7>1
          <6>4. QED
            BY <1>3, <6>1, <6>3
        <5>2. CASE a # Len(all)
          <6>1. a \in 1..Len(served[h]) /\ \A i \in 1..a : i \in 1..Len(served[h])
            BY <4>2, <5>2
          <6>2. QED
            BY <1>14, <4>2, <6>1
        <5>3. QED
          BY <5>1, <5>2
      <4>4. j \in 1..Len(served'[h])
        BY <3>2
      <4>5. q + j \in 1..Len(all) /\ \A i \in 1..j : q + i \in 1..(q + j) /\ i \in 1..Len(served'[h])
        BY <4>1, <4>2, <4>4
      <4>6. QED
        BY <3>2, <4>1, <4>3, <4>4, <4>5
    <3>3. QED
      BY <3>1, <3>2
  <2>2. ASSUME NEW k \in DOMAIN buckets', Last(buckets'[k]) > cutoff
        PROVE  served'[k] # << >> /\ Last(served'[k]) = Last(buckets'[k])
    <3>1. CASE k = h /\ allowed
      BY <1>8, <1>9, <1>11, <3>1
    <3>2. CASE k = h /\ ~ allowed
      <4>1. new = bucket /\ bucket # << >> /\ buckets'[k] = bucket
        BY <1>8, <1>9, <3>2 DEF new
      <4>2. k \in DOMAIN buckets /\ Last(buckets'[k]) = Last(buckets[k]) /\ served'[k] = served[k]
        BY <1>6, <1>10, <3>2, <4>1
      <4>3. QED
        BY <1>14, <2>2, <4>2
    <3>3. CASE k # h
      <4>1. /\ k \in DOMAIN buckets /\ k \in Hosts
            /\ buckets'[k] = buckets[k] /\ served'[k] = served[k]
        BY <1>4, <1>9, <1>10, <3>3
      <4>2. QED
        BY <1>14, <2>2, <4>1
    <3>4. QED
      BY <3>1, <3>2, <3>3
  <2>3. now' - Window = cutoff
    BY <1>1
  <2> HIDE DEF cutoff
  <2>4. QED
    BY <1>1, <2>1, <2>2, <2>3 DEF WindowInv
<1>16. ASSUME NEW t \in Nat, t <= now, Crowd(served, t)
       PROVE  Crowd(served', t)
  <2>1. served \in [Hosts -> Seq(Nat)] /\ served' \in [Hosts -> Seq(Nat)]
    BY <1>2, <1>13 DEF LimiterTypes
  <2>2. \A j \in Hosts : served[j] # << >> /\ t <= Last(served[j]) =>
                            served'[j] # << >> /\ t <= Last(served'[j])
    BY <1>10, <1>11, <1>16
  <2>3. QED
    BY <1>16, <2>1, <2>2, CrowdStays
<1>17. Covered(served', h, Bucket(h)')
  <2> DEFINE s == served[h]
  <2>1. PICK n \in 0..Len(s) : (n > 0 => Crowd(served, s[n])) /\ Ends(s, n, Bucket(h))
    BY <1>2 DEF CoverInv, Covered
  <2>2. /\ s \in Seq(Nat) /\ Len(s) \in Nat /\ served'[h] \in Seq(Nat)
        /\ Bucket(h) \in Seq(Nat)
        /\ \A i \in 1..Len(s) : s[i] > cutoff /\ s[i] <= now
    BY <1>4, <1>12, <1>14
  <2>3. Bucket(h)' = new
    BY <1>9 DEF Bucket
  <2>4. n > 0 => Crowd(served', s[n])
    <3> SUFFICES ASSUME n > 0 PROVE Crowd(served', s[n])
      OBVIOUS
    <3>1. n \in 1..Len(s)
      BY <2>2
    <3>2. s[n] \in Nat /\ s[n] <= now
      BY <2>2, <3>1
    <3>3. QED
      BY <1>16, <2>1, <3>2
  <2> HIDE DEF s, cutoff
  <2>5. Ends(s, n, bucket)
    BY <1>3, <2>1, <2>2, EndsPruned DEF bucket
  <2>6. CASE allowed
    <3> DEFINE all == Append(s, now)
    <3> DEFINE rest == served'[h]
    <3>1. rest \in Seq(Nat) /\ IsRest(rest, all)
      BY <1>11, <2>2, <2>6 DEF s
    <3>2. new = Append(bucket, now) /\ new \in Seq(Nat)
      BY <1>8, <2>6 DEF new
    <3>3. Ends(all, n, new)
      BY <1>3, <1>5, <2>2, <2>5, <3>2, EndsAppended
    <3>4. /\ all \in Seq(Nat) /\ n \in 0..Len(all)
          /\ n > 0 => all[n] = s[n]
      BY <1>3, <2>1, <2>2
    <3> HIDE DEF all, rest
    <3>5. PICK m \in 0..Len(rest) : /\ m > 0 => n > 0 /\ rest[m] = all[n]
                                    /\ Ends(rest, m, new)
      BY <3>1, <3>2, <3>3, <3>4, EndsDropped
    <3>6. m > 0 => Crowd(served', rest[m])
      BY <2>4, <3>4, <3>5
    <3>7. QED
      BY <2>3, <3>5, <3>6 DEF Covered, rest
  <2>7. CASE ~ allowed
    <3>1. new = bucket /\ served'[h] = s
      BY <1>10, <2>7 DEF new, s
    <3>2. QED
      BY <2>1, <2>3, <2>4, <2>5, <3>1 DEF Covered
  <2>8. QED
    BY <2>6, <2>7
<1>18. ASSUME NEW k \in Hosts, k # h
       PROVE  Covered(served', k, Bucket(k)')
  <2> DEFINE s == served[k]
  <2>1. PICK n \in 0..Len(s) : (n > 0 => Crowd(served, s[n])) /\ Ends(s, n, Bucket(k))
    BY <1>2 DEF CoverInv, Covered
  <2>2. /\ s \in Seq(Nat) /\ Len(s) \in Nat /\ Bucket(k) \in Seq(Nat)
        /\ \A i \in 1..Len(s) : s[i] > cutoff /\ s[i] <= now
        /\ served'[k] = s
    BY <1>4, <1>10, <1>14, <1>18
  <2>3. \A i \in 1..Len(s) : s[i] \in Nat
    BY <2>2
  <2>4. n > 0 => Crowd(served', s[n])
    <3> SUFFICES ASSUME n > 0 PROVE Crowd(served', s[n])
      OBVIOUS
    <3>1. n \in 1..Len(s)
      BY <2>2
    <3>2. QED
      BY <1>16, <2>1, <2>2, <2>3, <3>1
  <2>5. CASE k \in room \/ k \notin DOMAIN buckets
    <3>1. Bucket(k)' = Bucket(k)
      BY <1>4, <1>9, <1>18, <2>5 DEF Bucket
    <3>2. QED
      BY <2>1, <2>2, <2>4, <3>1 DEF Covered
  <2>6. CASE k \in DOMAIN buckets \ room
    <3>1. Bucket(k)' = << >> /\ Bucket(k) = buckets[k]
      BY <1>9, <1>18, <2>6 DEF Bucket
    <3>2. Ends(s, Len(s), << >>)
      BY <2>2 DEF Ends
    <3>3. ASSUME Len(s) > 0 => Crowd(served', s[Len(s)])
          PROVE  Covered(served', k, << >>)
      BY <2>2, <3>2, <3>3 DEF Covered
    <3>4. CASE ~ (Last(buckets[k]) > cutoff)
      <4>1. n = Len(s)
        <5> HIDE DEF s, cutoff
        <5>1. QED
          BY <1>3, <2>1, <2>2, <3>1, <3>4, ExpiredCovers
      <4>2. QED
        BY <2>4, <3>1, <3>3, <4>1
    <3>5. CASE Last(buckets[k]) > cutoff
      <4>1. /\ h \notin DOMAIN buckets /\ k \in Kept
            /\ Cardinality(Kept) >= MaxKeys /\ IsFiniteSet(Kept)
            /\ \A j \in Kept : Last(buckets[k]) <= Last(buckets[j])
        BY <1>2, <2>6, <3>5, RoomMade
      <4> DEFINE t == s[Len(s)]
      <4>2. ASSUME Len(s) > 0 PROVE Crowd(served', t)
        <5>1. t \in Nat /\ t <= now /\ t = Last(buckets[k])
          BY <1>14, <2>2, <2>3, <2>6, <3>5, <4>2 DEF Last
        <5>2. allowed /\ served'[h] # << >> /\ Last(served'[h]) = now
          BY <1>7, <1>11, <4>1
        <5>3. ASSUME NEW j \in Kept
              PROVE  served'[j] # << >> /\ t <= Last(served'[j])
          <6>1. j \in DOMAIN buckets /\ Last(buckets[j]) > cutoff /\ j # h /\ j \in Hosts
            BY <1>4, <4>1 DEF Kept
          <6>2. served[j] # << >> /\ Last(served[j]) = Last(buckets[j]) /\ served'[j] = served[j]
            BY <1>10, <1>14, <6>1
          <6>3. QED
            BY <4>1, <5>1, <6>2
        <5> DEFINE C == Kept \cup {h}
        <5>4. C \in SUBSET Hosts /\ h \notin Kept
          BY <1>4, <4>1 DEF Kept
        <5>5. IsFiniteSet(C) /\ Cardinality(C) = Cardinality(Kept) + 1
          BY <4>1, <5>4, FS_AddElement
        <5>6. Cardinality(Kept) \in Nat
          BY <4>1, FS_CardinalityType
        <5>7. Cardinality(C) > MaxKeys
          <6> HIDE DEF C
          <6>1. QED
            BY <1>3, <4>1, <5>5, <5>6
        <5>8. \A j \in C : served'[j] # << >> /\ t <= Last(served'[j])
          BY <5>1, <5>2, <5>3
        <5> HIDE DEF C, t
        <5>9. QED
          BY <5>4, <5>5, <5>7, <5>8 DEF Crowd
      <4>3. QED
        BY <3>1, <3>3, <4>2
    <3>6. QED
      BY <3>4, <3>5
  <2>7. QED
    BY <2>5, <2>6
<1>19. CoverInv'
  BY <1>17, <1>18 DEF CoverInv
<1>20. QED
  BY <1>13, <1>15, <1>19 DEF LimiterInv

(* A host is served beyond its limit within a window only when more hosts  *)
(* than there is room for were served in that window.                      *)
THEOREM LimitIsKept == LimiterSpec => []LimitHolds
<1>1. LimiterInv /\ [LimiterNext]_limiterVars => LimiterInv'
  <2> SUFFICES ASSUME LimiterInv, [LimiterNext]_limiterVars PROVE LimiterInv'
    OBVIOUS
  <2>1. CASE UNCHANGED limiterVars
    <3>1. now' = now /\ buckets' = buckets /\ served' = served
      BY <2>1 DEF limiterVars
    <3>2. LimiterTypes' /\ WindowInv'
      BY <3>1 DEF LimiterInv, LimiterTypes, WindowInv
    <3>3. \A h \in Hosts : Bucket(h)' = Bucket(h)
      BY <3>1 DEF Bucket
    <3>4. CoverInv'
      BY <3>1, <3>3 DEF LimiterInv, CoverInv
    <3>5. QED
      BY <3>2, <3>4 DEF LimiterInv
  <2>2. QED
    BY <2>1, AllowKeeps, LaterKeeps DEF LimiterNext
<1>2. LimiterInv => LimitHolds
  <2> SUFFICES ASSUME LimiterInv, NEW h \in Hosts, ~ (Len(served[h]) <= Limit)
               PROVE  Cardinality({k \in Hosts : served[k] # << >>}) > MaxKeys
    BY DEF LimitHolds
  <2> DEFINE s == served[h]
             Serving == {k \in Hosts : served[k] # << >>}
  <2>1. /\ s \in Seq(Nat) /\ Len(s) \in Nat /\ Limit \in Nat /\ MaxKeys \in Nat
        /\ IsFiniteSet(Serving)
    BY LimiterConstants DEF LimiterInv, LimiterTypes
  <2>2. PICK n \in 0..Len(s) : (n > 0 => Crowd(served, s[n])) /\ Ends(s, n, Bucket(h))
    BY DEF LimiterInv, CoverInv, Covered
  <2>3. Len(Bucket(h)) \in Nat /\ Len(Bucket(h)) <= Limit
    BY BucketType DEF LimiterInv
  <2>4. n > 0
    BY <2>1, <2>2, <2>3 DEF Ends
  <2>5. PICK C \in SUBSET Hosts : /\ IsFiniteSet(C) /\ Cardinality(C) > MaxKeys
                                  /\ \A j \in C : served[j] # << >>
    BY <2>2, <2>4 DEF Crowd
  <2>6. C \in SUBSET Serving
    BY <2>5
  <2> HIDE DEF Serving
  <2>7. Cardinality(C) <= Cardinality(Serving) /\ Cardinality(C) \in Nat /\ Cardinality(Serving) \in Nat
    BY <2>1, <2>5, <2>6, FS_Subset, FS_CardinalityType
  <2>8. Cardinality(Serving) > MaxKeys
    BY <2>1, <2>5, <2>7
  <2>9. QED
    BY <2>8 DEF Serving
<1>3. QED
  BY <1>1, <1>2, LimiterBegins, PTL DEF LimiterSpec

=============================================================================
