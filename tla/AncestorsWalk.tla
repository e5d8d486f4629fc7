---------------------------- MODULE AncestorsWalk ----------------------------
(***************************************************************************)
(* core.ancestors step by step (src/src/proofops_casework/core.py): the    *)
(* recursive depth-first walk with its sets visiting and visited, over     *)
(* every dependency graph on Keys, damaged ones included: a stored graph   *)
(* may hold a cycle or name a task that is not there, and the walk is what *)
(* must notice.                                                            *)
(***************************************************************************)
EXTENDS Naturals, Sequences, SequencesExt, FiniteSets, TaskGraph

CONSTANTS Keys, Missing

(* The tasks of one workspace: finitely many, as register_task stops at 250. *)
ASSUME KeyAssumption == Keys \subseteq Nat /\ IsFiniteSet(Keys) /\ Missing \in Nat \ Keys

VARIABLES
    deps,     \* the stored graph; Missing, in no one's store, has no parents
    start,    \* the task asked about
    stack,    \* calls of walk under way: [key, left], left still to be walked
    calling,  \* the key of the call being entered, or of none: the empty set
    visiting, visited, ordered,
    outcome   \* "running", "done", or the error raised

walkVars == <<deps, start, stack, calling, visiting, visited, ordered, outcome>>

WalkInit ==
    /\ deps \in {g \in [Keys \cup {Missing} -> SUBSET (Keys \cup {Missing})] :
                    g[Missing] = {}}
    /\ start \in Keys
    /\ stack = <<>>
    /\ calling = {start}
    /\ visiting = {} /\ visited = {} /\ ordered = <<>>
    /\ outcome = "running"

Running == outcome = "running"

(* key is an ancestor of itself: its own call has not returned. *)
OnPath(key) == key \in visiting

Raise(error) ==
    /\ outcome' = error
    /\ UNCHANGED <<deps, start, stack, calling, visiting, visited, ordered>>

(* walk(key) is entered, and key is on the path, known, absent, or new. *)
MeetCycle(key)   == OnPath(key) /\ Raise("DEPENDENCY_CYCLE")

MeetMissing(key) == /\ ~ OnPath(key) /\ key \notin visited /\ key = Missing
                    /\ Raise("DEPENDENCY_MISSING")

MeetKnown(key) ==
    /\ ~ OnPath(key) /\ key \in visited
    /\ calling' = {}
    /\ UNCHANGED <<deps, start, stack, visiting, visited, ordered, outcome>>

MeetNew(key) ==
    /\ ~ OnPath(key) /\ key \notin visited /\ key # Missing
    /\ visiting' = visiting \cup {key}
    /\ stack' = Append(stack, [key |-> key, left |-> deps[key]])
    /\ calling' = {}
    /\ UNCHANGED <<deps, start, visited, ordered, outcome>>

(* for parent in sorted(task.depends_on): walk(parent) *)
CallParent ==
    /\ Running /\ calling = {} /\ stack # <<>>
    /\ Last(stack).left # {}
    /\ LET least == CHOOSE k \in Last(stack).left : \A j \in Last(stack).left : k <= j
       IN  /\ calling' = {least}
           /\ stack' = [stack EXCEPT ![Len(stack)].left = @ \ {least}]
    /\ UNCHANGED <<deps, start, visiting, visited, ordered, outcome>>

(* [mutant] visiting.remove forgotten *)
OffPath_Kept(key) == visiting

OffPath(key) == visiting \ {key}

(* The call of the last key on the stack returns. *)
Return ==
    /\ Running /\ calling = {} /\ stack # <<>>
    /\ Last(stack).left = {}
    /\ visiting' = OffPath(Last(stack).key)
    /\ visited' = visited \cup {Last(stack).key}
    /\ ordered' = Append(ordered, Last(stack).key)
    /\ stack' = Front(stack)
    /\ outcome' = IF Len(stack) = 1 THEN "done" ELSE outcome
    /\ UNCHANGED <<deps, start, calling>>

WalkNext ==
    \/ \E key \in calling :
          /\ Running
          /\ MeetCycle(key) \/ MeetMissing(key) \/ MeetKnown(key) \/ MeetNew(key)
    \/ CallParent
    \/ Return

WalkSpec == WalkInit /\ [][WalkNext]_walkVars

-----------------------------------------------------------------------------
Reached == Ancestors(deps, start)
HasCycle == \E x \in Reached : \E y \in deps[x] : x \in Ancestors(deps, y)

(* The walk ends with the task's ancestors, each once and after all it     *)
(* depends on, exactly when none of them is missing or on a cycle; and the *)
(* error it raises otherwise is a true one.  However the stored graph is   *)
(* damaged, the recursion is never deeper than there are tasks: a cycle    *)
(* ends it, and is not followed until Python's recursion limit does.       *)
WalkAnswers ==
    /\ Len(stack) <= Cardinality(Keys)
    /\ outcome = "DEPENDENCY_CYCLE" => HasCycle
    /\ outcome = "DEPENDENCY_MISSING" => Missing \in Reached
    /\ outcome = "done" =>
          /\ ~ HasCycle /\ Missing \notin Reached
          /\ ToSet(ordered) = Reached
          /\ Len(ordered) = Cardinality(Reached)
          /\ \A i \in DOMAIN ordered :
                deps[ordered[i]] \subseteq {ordered[j] : j \in 1..(i - 1)}
=============================================================================
