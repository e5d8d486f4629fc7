------------------------------ MODULE TaskGraph ------------------------------
(***************************************************************************)
(* The dependency graph of casework tasks, as pure operators.              *)
(*                                                                         *)
(* deps is a function: deps[x] is the set of tasks x depends on.  Both     *)
(* closures are stated by what they are (least closed sets) and not by how *)
(* core.py computes them; AncestorsWalk and AffectedGrowth model the two   *)
(* computations of core.py, which are shown to meet these definitions.     *)
(***************************************************************************)

(* S holds, with a task, everything the task depends on. *)
ClosedUnderParents(deps, S) == \A x \in S : deps[x] \subseteq S

(* S holds, with a task, every task that depends on it. *)
ClosedUnderChildren(deps, S) ==
    \A x \in DOMAIN deps : deps[x] \cap S # {} => x \in S

(* core.ancestors: t and everything it depends on, transitively. *)
Ancestors(deps, t) ==
    {x \in DOMAIN deps :
        \A S \in SUBSET DOMAIN deps :
            t \in S /\ ClosedUnderParents(deps, S) => x \in S}

(* The fixed point of core.affected_tasks: D and everything that depends   *)
(* on a member of D, transitively.                                         *)
Dependents(deps, D) ==
    {x \in DOMAIN deps :
        \A S \in SUBSET DOMAIN deps :
            D \subseteq S /\ ClosedUnderChildren(deps, S) => x \in S}
=============================================================================
