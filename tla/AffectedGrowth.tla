---------------------------- MODULE AffectedGrowth ----------------------------
(***************************************************************************)
(* core.affected_tasks round by round (src/src/proofops_casework/core.py): *)
(* from the tasks of one scope, add every task with a parent already in,   *)
(* until a round adds none.  Checked against TaskGraph's least closed set  *)
(* and against the walk the other way, core.ancestors.                     *)
(***************************************************************************)
EXTENDS Naturals, TaskGraph

CONSTANT Newest  \* tasks are 1..Newest, numbered as they were registered

ASSUME NewestAssumption == Newest \in Nat

VARIABLES
    graph,   \* the graph: register_task takes only parents already there
    dirty,   \* the tasks of the scope that changed
    result,  \* affected_tasks' local set
    done

growthVars == <<graph, dirty, result, done>>

Registered == 1..Newest

GrowthInit ==
    /\ graph \in {g \in [Registered -> SUBSET Registered] : \A k \in Registered : g[k] \subseteq 1..(k - 1)}
    /\ dirty \in SUBSET Registered
    /\ result = dirty
    /\ done = FALSE

(* [mutant] parents looked up in the scope's own tasks only *)
Added_OneHop == {k \in Registered \ result : graph[k] \cap dirty # {}}

Added == {k \in Registered \ result : graph[k] \cap result # {}}

Round ==
    /\ ~ done
    /\ result' = result \cup Added
    /\ done' = (Added = {})
    /\ UNCHANGED <<graph, dirty>>

GrowthSpec == GrowthInit /\ [][Round]_growthVars

-----------------------------------------------------------------------------
(* Propagation reaches a task exactly when the evaluation of that task     *)
(* would look back on a task of the scope: no READY task can rest on a     *)
(* changed one that propagation missed, and none is disturbed for nothing. *)
GrowthMeetsAncestors ==
    done => \A k \in Registered : k \in result <=> Ancestors(graph, k) \cap dirty # {}
=============================================================================
