--------------------------- MODULE TaskGraphProofs ---------------------------
(***************************************************************************)
(* Facts about the two closures of TaskGraph, for every graph: the upward  *)
(* walk of core.ancestors and the downward walk of core.affected_tasks     *)
(* agree on who depends on whom.                                           *)
(***************************************************************************)
EXTENDS TaskGraph, TLAPS

(* A task is in its own closure, and so is all it depends on: a policy     *)
(* evaluation looks at the task itself and at its direct dependencies.     *)
LEMMA AncestorsContain ==
    ASSUME NEW U, NEW deps \in [U -> SUBSET U], NEW t \in U
    PROVE  /\ Ancestors(deps, t) \subseteq U
           /\ t \in Ancestors(deps, t)
           /\ deps[t] \subseteq Ancestors(deps, t)
  BY DEF Ancestors, ClosedUnderParents

(* The closure of a task's ancestor lies inside the task's closure:        *)
(* core.ancestors has no hop limit.                                        *)
LEMMA AncestorsTransitive ==
    ASSUME NEW U, NEW deps \in [U -> SUBSET U], NEW t \in U,
           NEW x \in Ancestors(deps, t)
    PROVE  Ancestors(deps, x) \subseteq Ancestors(deps, t)
<1> SUFFICES ASSUME NEW y \in Ancestors(deps, x), NEW S \in SUBSET U,
                    t \in S, ClosedUnderParents(deps, S)
             PROVE  y \in S
  BY DEF Ancestors
<1>1. x \in S
  BY DEF Ancestors
<1>2. QED
  BY <1>1 DEF Ancestors

(* A task is reached by the downward walk from D exactly when its upward   *)
(* closure meets D: affected_tasks suspends a task if and only if          *)
(* policy_result, run on that task, would look at one of D.                *)
THEOREM Duality ==
    ASSUME NEW U, NEW deps \in [U -> SUBSET U], NEW D \in SUBSET U, NEW t \in U
    PROVE  t \in Dependents(deps, D) <=> Ancestors(deps, t) \cap D # {}
<1>1. ASSUME t \notin Dependents(deps, D) PROVE Ancestors(deps, t) \cap D = {}
  <2>1. PICK S \in SUBSET U : /\ D \subseteq S
                              /\ ClosedUnderChildren(deps, S)
                              /\ t \notin S
    BY <1>1 DEF Dependents
  <2> DEFINE Rest == U \ S
  <2>2. ClosedUnderParents(deps, Rest)
    BY <2>1 DEF ClosedUnderParents, ClosedUnderChildren
  <2>3. Ancestors(deps, t) \subseteq Rest
    BY <2>1, <2>2 DEF Ancestors
  <2>4. QED
    BY <2>1, <2>3
<1>2. ASSUME t \in Dependents(deps, D) PROVE Ancestors(deps, t) \cap D # {}
  <2> DEFINE Reaches == {x \in U : Ancestors(deps, x) \cap D # {}}
  <2>1. D \subseteq Reaches
    BY AncestorsContain
  <2>2. ASSUME NEW x \in U, deps[x] \cap Reaches # {} PROVE x \in Reaches
    <3>1. PICK y \in deps[x] : Ancestors(deps, y) \cap D # {}
      BY <2>2
    <3>2. y \in Ancestors(deps, x)
      BY AncestorsContain
    <3>3. Ancestors(deps, y) \subseteq Ancestors(deps, x)
      BY <3>2, AncestorsTransitive
    <3>4. QED
      BY <3>1, <3>3
  <2>3. ClosedUnderChildren(deps, Reaches)
    BY <2>2 DEF ClosedUnderChildren
  <2>4. t \in Reaches
    BY <1>2, <2>1, <2>3 DEF Dependents
  <2>5. QED
    BY <2>4
<1>3. QED
  BY <1>1, <1>2

(* Registering a task nobody depends on yet leaves the closure of every    *)
(* other task as it was: register_task never widens an old decision.       *)
LEMMA AncestorsStable ==
    ASSUME NEW U, NEW deps \in [U -> SUBSET U], NEW new \in [U -> SUBSET U],
           NEW t \in U,
           \A x \in U : t \notin deps[x],
           \A x \in U \ {t} : new[x] = deps[x],
           NEW x \in U \ {t}
    PROVE  /\ Ancestors(new, x) = Ancestors(deps, x)
           /\ t \notin Ancestors(deps, x)
<1>1. ASSUME NEW f \in [U -> SUBSET U], NEW g \in [U -> SUBSET U],
             \A y \in U \ {t} : f[y] = g[y] /\ t \notin f[y],
             NEW y \in Ancestors(g, x)
      PROVE  y \in Ancestors(f, x) /\ y # t
  <2>1. ASSUME NEW S \in SUBSET U, x \in S, ClosedUnderParents(f, S)
        PROVE  y \in S \ {t}
    <3>1. ClosedUnderParents(g, S \ {t})
      BY <1>1, <2>1 DEF ClosedUnderParents
    <3>2. QED
      BY <2>1, <3>1 DEF Ancestors
  <2>2. y \in U
    BY DEF Ancestors
  <2>3. ClosedUnderParents(f, U) /\ x \in U
    BY DEF ClosedUnderParents
  <2>4. QED
    BY <2>1, <2>2, <2>3 DEF Ancestors
<1>2. \A y \in U \ {t} : new[y] = deps[y] /\ t \notin new[y]
  OBVIOUS
<1>3. Ancestors(new, x) \subseteq Ancestors(deps, x)
  BY <1>1
<1>4. /\ Ancestors(deps, x) \subseteq Ancestors(new, x)
      /\ t \notin Ancestors(deps, x)
  BY <1>1, <1>2
<1>5. QED
  BY <1>3, <1>4
=============================================================================
