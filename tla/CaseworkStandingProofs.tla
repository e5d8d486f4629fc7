----------------------- MODULE CaseworkStandingProofs -----------------------
(***************************************************************************)
(* What the standing of a task rests on, for every set of tasks, cases,    *)
(* scopes, people and registries: a READY task is within its limits, a     *)
(* decision whose basis has moved never becomes current again, and one     *)
(* whose basis is current and unexpired passes the whole policy again.     *)
(***************************************************************************)
EXTENDS CaseworkProofs, WellFoundedInduction

-----------------------------------------------------------------------------
(* The invariants *)

(* A registered task has a real scope. *)
Scoped == \A t \in Tasks : task[t].scope \in Scopes

(* No two tasks depend on one another: a task depends only on tasks that   *)
(* were registered before it.                                              *)
Acyclic ==
    \A x, y \in TaskIds : x \in Closure(task, y) /\ y \in Closure(task, x) => x = y

(* A dependency stays within one subject. *)
DepsOfOneSubject ==
    \A x \in TaskIds : \A p \in task[x].dependsOn :
        SubjectOf[task[p].scope] = SubjectOf[task[x].scope]

GraphInv == ReachInv /\ Scoped /\ Acyclic /\ DepsOfOneSubject

(* The counters of basis B have reached those of basis C at most: the same *)
(* tasks and scopes, no decision, baseline or case version beyond C's.     *)
AtMost(m, n) == m \in Nat /\ n \in Nat /\ m <= n

Older(B, C) ==
    /\ DOMAIN B.tasks = DOMAIN C.tasks
    /\ \A x \in DOMAIN B.tasks :
          AtMost(B.tasks[x].parentDecision, C.tasks[x].parentDecision)
    /\ DOMAIN B.baselines = DOMAIN C.baselines
    /\ \A s \in DOMAIN B.baselines : AtMost(B.baselines[s].version, C.baselines[s].version)
    /\ DOMAIN B.cases \subseteq DOMAIN C.cases
    /\ \A c \in DOMAIN B.cases : AtMost(B.cases[c].version, C.cases[c].version)

(* C has moved on from B for good. *)
Newer(B, C) == Older(B, C) /\ ~ Older(C, B)

(* B is C, or C has moved on from B for good. *)
Precedes(B, C) == Older(B, C) /\ (Older(C, B) => B = C)

(* The basis of a decision is the present one, or one the workspace has    *)
(* left for good.                                                          *)
BasesPrecede == \A t \in Tasks : Precedes(decision[t].basis, TaskBasis(task, t))

(* What a READY decision found stays true while its basis is current: for  *)
(* every task of the closure, the grant, and for every ancestor, a         *)
(* standing at least as durable.                                           *)
Rests(t) ==
    /\ Blockers(task, case, t) = {}
    /\ \A x \in Closure(task, t) :
          /\ baseline[task[x].scope].version > 0
          /\ task[x].amount <= baseline[task[x].scope].limit
          /\ decision[t].expires <= baseline[task[x].scope].expires
    /\ \A x \in Closure(task, t) \ {t} :
          /\ status[x] = "READY" /\ taints[x] = {}
          /\ decision[x].verdict = "READY"
          /\ decision[t].expires <= decision[x].expires
          /\ decision[x].basis = TaskBasis(task, x)

FreshRests ==
    \A t \in Tasks :
        decision[t].verdict = "READY" /\ decision[t].basis = TaskBasis(task, t) => Rests(t)

(* A READY standing comes from a READY decision; decisions expire. *)
ReadyByDecision ==
    \A t \in TaskIds : /\ decision[t].expires \in Nat
                       /\ status[t] = "READY" => decision[t].verdict = "READY"

-----------------------------------------------------------------------------
(* The dependency graph *)

(* The commands that move what a task rests on. *)
LEMMA StandingMovesBySix ==
    ASSUME [Next]_vars
    PROVE  \/ UNCHANGED <<task, taints, status, decision, baseline, case>>
           \/ \E a \in Actors, s \in Scopes, limit \in Limits, expires \in Expiries :
                 SetBaseline(a, s, limit, expires)
           \/ \E a \in Actors, t \in TaskIds, s \in Scopes, amount \in Amounts,
                  parents \in SUBSET Tasks : RegisterTask(a, t, s, amount, parents)
           \/ \E a \in Actors, t \in TaskIds, explicitReview \in BOOLEAN :
                 Evaluate(a, t, explicitReview)
           \/ \E a \in Actors, c \in CaseIds, s \in Scopes, kind \in Kinds :
                 OpenCase(a, c, s, kind)
           \/ \E a \in Actors, c \in CaseIds : ReopenCase(a, c)
           \/ \E a \in Actors : \E h \in handoffs : ResolveCase(a, h)
<1> DEFINE Still == UNCHANGED <<task, taints, status, decision, baseline, case>>
<1>1. ASSUME NEW a \in Actors, NEW t \in TaskIds, PrepareReview(a, t) PROVE Still
  BY <1>1 DEF PrepareReview, standingVars
<1>2. ASSUME NEW a \in Actors, NEW c \in CaseIds, StartInvestigation(a, c) PROVE Still
  BY <1>2 DEF StartInvestigation, standingVars
<1>3. ASSUME NEW r \in inflight, FinishInvestigation(r) PROVE Still
  BY <1>3 DEF FinishInvestigation, standingVars
<1>4. ASSUME NEW a \in Actors, NEW b \in Actors, NEW r \in reports, HandOff(a, r, b)
      PROVE  Still
  BY <1>4 DEF HandOff, standingVars
<1>5. ASSUME NEW a \in Actors, NEW h \in handoffs, AcceptHandoff(a, h) PROVE Still
  BY <1>5 DEF AcceptHandoff, standingVars
<1>6. ASSUME Tick PROVE Still
  BY <1>6 DEF Tick, standingVars
<1>7. ASSUME NEW newRegistry \in Registries, Restart(newRegistry) PROVE Still
  BY <1>7 DEF Restart, standingVars
<1>8. ASSUME UNCHANGED vars PROVE Still
  BY <1>8 DEF vars, standingVars
<1>9. QED
  BY <1>1, <1>2, <1>3, <1>4, <1>5, <1>6, <1>7, <1>8 DEF Next

LEMMA DepsTyped ==
    ASSUME TypeOK
    PROVE  /\ Deps(task) \in [TaskIds -> SUBSET TaskIds]
           /\ \A x \in TaskIds : Deps(task)[x] = task[x].dependsOn
  BY DEF Deps, TypeOK

(* A closure holds its task, the task's dependencies, and their closures. *)
LEMMA ClosureFacts ==
    ASSUME TypeOK, NEW t \in TaskIds
    PROVE  /\ Closure(task, t) \subseteq TaskIds
           /\ t \in Closure(task, t)
           /\ \A x \in Closure(task, t) : Closure(task, x) \subseteq Closure(task, t)
<1> DEFINE deps == Deps(task)
<1>1. deps \in [TaskIds -> SUBSET TaskIds]
  BY DepsTyped
<1> HIDE DEF deps
<1>2. Ancestors(deps, t) \subseteq TaskIds /\ t \in Ancestors(deps, t)
  BY <1>1, AncestorsContain
<1>3. \A x \in Ancestors(deps, t) : Ancestors(deps, x) \subseteq Ancestors(deps, t)
  BY <1>1, AncestorsTransitive
<1>4. QED
  BY <1>2, <1>3 DEF Closure, deps

(* What holds of a task, and of the dependencies of whatever it holds of,  *)
(* holds of the closure.                                                   *)
LEMMA ClosureWithin ==
    ASSUME TypeOK, NEW t \in TaskIds, NEW S \in SUBSET TaskIds, t \in S,
           \A x \in S : task[x].dependsOn \subseteq S
    PROVE  Closure(task, t) \subseteq S
<1>1. ClosedUnderParents(Deps(task), S)
  BY DepsTyped DEF ClosedUnderParents
<1>2. S \in SUBSET DOMAIN Deps(task)
  BY DepsTyped
<1>3. QED
  BY <1>1, <1>2 DEF Closure, Ancestors

LEMMA ClosureRegistered ==
    ASSUME TypeOK, DepsRegistered, NEW t \in Tasks
    PROVE  Closure(task, t) \subseteq Tasks
  BY ClosureWithin DEF DepsRegistered, Tasks

(* A closure stays within the subject of its task. *)
LEMMA ClosureOfOneSubject ==
    ASSUME TypeOK, DepsOfOneSubject, NEW t \in TaskIds, NEW x \in Closure(task, t)
    PROVE  SubjectOf[task[x].scope] = SubjectOf[task[t].scope]
<1> DEFINE S == {y \in TaskIds : SubjectOf[task[y].scope] = SubjectOf[task[t].scope]}
<1>1. \A y \in S : task[y].dependsOn \subseteq S
  BY DEF DepsOfOneSubject, TypeOK
<1>2. Closure(task, t) \subseteq S
  BY <1>1, ClosureWithin
<1>3. QED
  BY <1>2

(* Registering t leaves the closures of the others alone, and t outside. *)
LEMMA RegisterKeepsClosure ==
    ASSUME TypeOK, DepsRegistered, NEW t \in TaskIds \ Tasks,
           NEW entry \in [scope : Scopes, amount : Nat, dependsOn : SUBSET Tasks],
           NEW x \in TaskIds \ {t}
    PROVE  /\ Closure([task EXCEPT ![t] = entry], x) = Closure(task, x)
           /\ t \notin Closure(task, x)
<1> DEFINE T      == [task EXCEPT ![t] = entry]
           before == Deps(task)
           after  == Deps(T)
<1>1. /\ before \in [TaskIds -> SUBSET TaskIds]
      /\ after \in [TaskIds -> SUBSET TaskIds]
  BY DEF Deps, TypeOK, Tasks
<1>2. \A y \in TaskIds : t \notin before[y]
  BY DEF Deps, DepsRegistered
<1>3. \A y \in TaskIds \ {t} : after[y] = before[y]
  BY DEF Deps, TypeOK
<1>4. /\ Closure(T, x) = Closure(task, x)
      /\ t \notin Closure(task, x)
  <2> HIDE DEF before, after
  <2>1. Ancestors(after, x) = Ancestors(before, x) /\ t \notin Ancestors(before, x)
    BY <1>1, <1>2, <1>3, AncestorsStable
  <2>2. QED
    BY <2>1 DEF Closure, before, after
<1>5. QED
  BY <1>4

(* What a registration does to the task table. *)
LEMMA RegisterEffect ==
    ASSUME TypeOK, NEW a, NEW t \in TaskIds, NEW s \in Scopes, NEW amount \in Amounts,
           NEW parents \in SUBSET Tasks, RegisterTask(a, t, s, amount, parents)
    PROVE  LET entry == [scope |-> s, amount |-> amount, dependsOn |-> parents]
           IN  /\ t \in TaskIds \ Tasks
               /\ entry \in [scope : Scopes, amount : Nat, dependsOn : SUBSET Tasks]
               /\ task' = [task EXCEPT ![t] = entry]
               /\ task'[t] = entry
               /\ \A x \in TaskIds \ {t} : task'[x] = task[x]
               /\ Tasks' = Tasks \cup {t}
<1> DEFINE entry == [scope |-> s, amount |-> amount, dependsOn |-> parents]
<1>1. /\ t \in TaskIds \ Tasks
      /\ entry \in [scope : Scopes, amount : Nat, dependsOn : SUBSET Tasks]
      /\ task' = [task EXCEPT ![t] = entry]
  BY NumberAssumption DEF RegisterTask
<1>2. task'[t] = entry /\ \A x \in TaskIds \ {t} : task'[x] = task[x]
  BY <1>1 DEF TypeOK
<1>3. entry # NoTask
  BY ScopeAssumption DEF NoTask
<1>4. Tasks' = Tasks \cup {t}
  BY <1>1, <1>2, <1>3 DEF Tasks
<1>5. QED
  BY <1>1, <1>2, <1>4

LEMMA GraphInit == Init => GraphInv
<1> SUFFICES ASSUME Init PROVE GraphInv
  OBVIOUS
<1>1. ReachInv /\ TypeOK
  BY ReachInit, InitTypes
<1>2. \A t \in TaskIds : task[t] = NoTask /\ task[t].dependsOn = {}
  BY DEF Init, NoTask
<1>3. Scoped /\ DepsOfOneSubject
  BY <1>2 DEF Scoped, Tasks, DepsOfOneSubject
<1>4. ASSUME NEW t \in TaskIds PROVE Closure(task, t) \subseteq {t}
  <2>1. {t} \in SUBSET TaskIds /\ \A x \in {t} : task[x].dependsOn \subseteq {t}
    BY <1>2
  <2>2. QED
    BY <1>1, <2>1, ClosureWithin
<1>5. Acyclic
  BY <1>4 DEF Acyclic
<1>6. QED
  BY <1>1, <1>3, <1>5 DEF GraphInv

LEMMA GraphStep == GraphInv /\ [Next]_vars => GraphInv'
<1> SUFFICES ASSUME GraphInv, [Next]_vars PROVE GraphInv'
  OBVIOUS
<1>1. /\ TypeOK /\ DepsRegistered /\ ReachInv'
      /\ Scoped /\ Acyclic /\ DepsOfOneSubject
  BY ReachStep DEF GraphInv, ReachInv
<1>2. ASSUME task' = task PROVE Scoped' /\ Acyclic' /\ DepsOfOneSubject'
  BY <1>1, <1>2 DEF Scoped, Tasks, Acyclic, Closure, Deps, DepsOfOneSubject
<1>3. ASSUME NEW a \in Actors, NEW t \in TaskIds, NEW s \in Scopes,
             NEW amount \in Amounts, NEW parents \in SUBSET Tasks,
             RegisterTask(a, t, s, amount, parents)
      PROVE  Scoped' /\ Acyclic' /\ DepsOfOneSubject'
  <2> DEFINE entry == [scope |-> s, amount |-> amount, dependsOn |-> parents]
  <2>1. /\ t \in TaskIds \ Tasks
        /\ entry \in [scope : Scopes, amount : Nat, dependsOn : SUBSET Tasks]
        /\ task' = [task EXCEPT ![t] = entry]
        /\ task'[t] = entry
        /\ \A x \in TaskIds \ {t} : task'[x] = task[x]
        /\ Tasks' = Tasks \cup {t}
    BY <1>1, <1>3, RegisterEffect
  <2>2. Scoped'
    BY <1>1, <2>1 DEF Scoped, Tasks
  <2>3. ASSUME NEW x \in TaskIds \ {t}
        PROVE  Closure(task', x) = Closure(task, x) /\ t \notin Closure(task', x)
    <3> HIDE DEF entry
    <3>1. /\ TypeOK /\ DepsRegistered /\ t \in TaskIds \ Tasks /\ x \in TaskIds \ {t}
          /\ entry \in [scope : Scopes, amount : Nat, dependsOn : SUBSET Tasks]
      BY <1>1, <2>1, <2>3
    <3>2. /\ Closure([task EXCEPT ![t] = entry], x) = Closure(task, x)
          /\ t \notin Closure(task, x)
      BY <3>1, RegisterKeepsClosure
    <3>3. QED
      BY <2>1, <3>2
  <2>4. Acyclic'
    <3>1. ASSUME NEW x \in TaskIds, NEW y \in TaskIds,
                 x \in Closure(task', y), y \in Closure(task', x)
          PROVE  x = y
      BY <1>1, <2>3, <3>1 DEF Acyclic
    <3>2. QED
      BY <3>1 DEF Acyclic, Closure, Deps
  <2>5. \A p \in parents : SubjectOf[task[p].scope] = SubjectOf[s]
    BY <1>3 DEF RegisterTask, MayDependOn
  <2>6. ASSUME NEW x \in TaskIds, NEW p \in task'[x].dependsOn
        PROVE  SubjectOf[task'[p].scope] = SubjectOf[task'[x].scope]
    <3>1. CASE x = t
      BY <2>1, <2>5, <2>6, <3>1 DEF Tasks
    <3>2. CASE x # t
      <4>1. p \in task[x].dependsOn /\ p \in Tasks /\ p # t
        BY <1>1, <2>1, <2>6, <3>2 DEF DepsRegistered
      <4>2. QED
        BY <1>1, <2>1, <3>2, <4>1 DEF DepsOfOneSubject, Tasks
    <3>3. QED
      BY <3>1, <3>2
  <2>7. DepsOfOneSubject'
    BY <2>6 DEF DepsOfOneSubject
  <2>8. QED
    BY <2>2, <2>4, <2>7
<1>4. task' = task \/ \E a \in Actors, t \in TaskIds, s \in Scopes, amount \in Amounts,
                          parents \in SUBSET Tasks : RegisterTask(a, t, s, amount, parents)
  BY StandingMovesBySix DEF SetBaseline, Evaluate, OpenCase, ReopenCase, ResolveCase
<1>5. Scoped' /\ Acyclic' /\ DepsOfOneSubject'
  BY <1>2, <1>3, <1>4
<1>6. QED
  BY <1>1, <1>5 DEF GraphInv

-----------------------------------------------------------------------------
(* What a step does to the basis of a task *)

(* The step changes nothing that t's basis shows, and no taint of t's      *)
(* ancestors.                                                              *)
Untouched(t) ==
    /\ Closure(task', t) = Closure(task, t)
    /\ \A x \in Closure(task, t) : task'[x] = task[x]
    /\ \A x \in Closure(task, t) \ {t} :
          decision'[x] = decision[x] /\ status'[x] = status[x] /\ taints'[x] = taints[x]
    /\ \A s \in ClosureScopes(task, t) : baseline'[s] = baseline[s]
    /\ \A c \in CaseIds :
          \/ case[c].scope \in ClosureScopes(task, t)
          \/ case'[c].scope \in ClosureScopes(task, t)
          => case'[c] = case[c]

LEMMA UntouchedScopes ==
    ASSUME NEW t, Untouched(t)
    PROVE  ClosureScopes(task', t) = ClosureScopes(task, t)
  BY DEF Untouched, ClosureScopes

LEMMA UntouchedBasis ==
    ASSUME NEW t, Untouched(t)
    PROVE  TaskBasis(task, t)' = TaskBasis(task, t)
<1> DEFINE B == TaskBasis(task, t)
           scopes == ClosureScopes(task, t)
           touching == {c \in Cases : case[c].scope \in scopes}
<1>1. ClosureScopes(task', t) = scopes
  BY UntouchedScopes
<1>2. B'.tasks = B.tasks
  BY DEF Untouched, TaskBasis
<1>3. B'.baselines = B.baselines
  BY <1>1 DEF Untouched, TaskBasis
<1>4. B'.cases = B.cases
  <2>1. touching' = touching /\ \A c \in touching : case'[c] = case[c]
    BY <1>1 DEF Untouched, Cases
  <2>2. B.cases = [c \in touching |-> case[c]]
    BY DEF TaskBasis
  <2>3. B'.cases = [c \in touching' |-> case'[c]]
    BY DEF TaskBasis
  <2>4. QED
    BY <2>1, <2>2, <2>3
<1>5. /\ B = [tasks |-> B.tasks, baselines |-> B.baselines, cases |-> B.cases]
      /\ B' = [tasks |-> B'.tasks, baselines |-> B'.baselines, cases |-> B'.cases]
  BY DEF TaskBasis
<1>6. QED
  BY <1>2, <1>3, <1>4, <1>5

(* Untouched with its whole closure: so is every ancestor. *)
LEMMA UntouchedAbove ==
    ASSUME TypeOK, Acyclic, NEW t \in TaskIds, Untouched(t), NEW x \in Closure(task, t) \ {t},
           Closure(task', x) = Closure(task, x)
    PROVE  Untouched(x)
<1>1. x \in TaskIds /\ Closure(task, x) \subseteq Closure(task, t)
  BY ClosureFacts
<1>2. t \notin Closure(task, x)
  BY <1>1 DEF Acyclic
<1>3. ClosureScopes(task, x) \subseteq ClosureScopes(task, t)
  BY <1>1 DEF ClosureScopes
<1>4. QED
  BY <1>1, <1>2, <1>3 DEF Untouched

(* The counters of the workspace only advance; if one that t's basis shows *)
(* does, or a case joins it, the basis has moved on for good.              *)
LEMMA BasisAdvances ==
    ASSUME TypeOK, TypeOK', NEW t \in TaskIds, task' = task,
           \A x \in TaskIds : decision[x].id <= decision'[x].id,
           \A s \in Scopes : baseline[s].version <= baseline'[s].version,
           \A c \in Cases : /\ c \in Cases' /\ case'[c].scope = case[c].scope
                            /\ case[c].version <= case'[c].version,
           \/ \E x \in Closure(task, t) \ {t} : decision[x].id < decision'[x].id
           \/ \E s \in ClosureScopes(task, t) \cap Scopes :
                 baseline[s].version < baseline'[s].version
           \/ \E c \in Cases' : /\ case'[c].scope \in ClosureScopes(task, t)
                                /\ c \in Cases => case[c].version < case'[c].version
    PROVE  Newer(TaskBasis(task, t), TaskBasis(task, t)')
<1> DEFINE B == TaskBasis(task, t)
           scopes == ClosureScopes(task, t)
           granted == {s \in scopes : s # NoScope}
           touching == {c \in Cases : case[c].scope \in scopes}
<1>1. Closure(task, t) \subseteq TaskIds /\ Closure(task', t) = Closure(task, t)
  BY ClosureFacts
<1>2. ClosureScopes(task', t) = scopes /\ granted \subseteq Scopes
  BY <1>1 DEF ClosureScopes, TypeOK
<1>3. /\ DOMAIN B.tasks = Closure(task, t) /\ DOMAIN B'.tasks = Closure(task, t)
      /\ \A x \in Closure(task, t) :
           /\ B.tasks[x].parentDecision = IF x = t THEN 0 ELSE decision[x].id
           /\ B'.tasks[x].parentDecision = IF x = t THEN 0 ELSE decision'[x].id
  BY <1>1 DEF TaskBasis
<1>4. /\ DOMAIN B.baselines = granted /\ DOMAIN B'.baselines = granted
      /\ \A s \in granted : B.baselines[s] = baseline[s] /\ B'.baselines[s] = baseline'[s]
  BY <1>2 DEF TaskBasis
<1>5. /\ DOMAIN B.cases = touching /\ \A c \in touching : B.cases[c] = case[c]
      /\ DOMAIN B'.cases = touching' /\ \A c \in touching' : B'.cases[c] = case'[c]
  BY <1>2 DEF TaskBasis
<1>6. /\ touching' = {c \in Cases' : case'[c].scope \in scopes}
      /\ touching \subseteq touching'
  BY <1>2
<1>7. /\ \A x \in Closure(task, t) : decision[x].id \in Nat /\ decision'[x].id \in Nat
      /\ \A s \in granted : baseline[s].version \in Nat /\ baseline'[s].version \in Nat
      /\ \A c \in CaseIds : case[c].version \in Nat /\ case'[c].version \in Nat
      /\ touching \subseteq CaseIds /\ touching' \subseteq CaseIds
  BY <1>1, <1>2 DEF TypeOK, CaseRecord, Cases
<1> HIDE DEF B, scopes, granted, touching
<1>8. Older(B, B')
  <2>1. \A x \in Closure(task, t) : AtMost(B.tasks[x].parentDecision, B'.tasks[x].parentDecision)
    BY <1>1, <1>3, <1>7 DEF AtMost
  <2>2. \A s \in granted : AtMost(B.baselines[s].version, B'.baselines[s].version)
    BY <1>2, <1>4, <1>7 DEF AtMost
  <2>3. \A c \in touching : AtMost(B.cases[c].version, B'.cases[c].version)
    BY <1>5, <1>6, <1>7 DEF AtMost, touching
  <2>4. QED
    BY <1>3, <1>4, <1>5, <1>6, <2>1, <2>2, <2>3 DEF Older
<1>9. ASSUME Older(B', B) PROVE FALSE
  <2>1. ASSUME NEW x \in Closure(task, t) \ {t}, decision[x].id < decision'[x].id
        PROVE  FALSE
    BY <1>3, <1>7, <1>9, <2>1 DEF Older, AtMost
  <2>2. ASSUME NEW s \in scopes \cap Scopes, baseline[s].version < baseline'[s].version
        PROVE  FALSE
    <3>1. s \in granted
      BY ScopeAssumption DEF granted
    <3>2. QED
      BY <1>4, <1>7, <1>9, <2>2, <3>1 DEF Older, AtMost
  <2>3. ASSUME NEW c \in Cases', case'[c].scope \in scopes,
               c \in Cases => case[c].version < case'[c].version
        PROVE  FALSE
    <3>1. c \in touching'
      BY <1>6, <2>3
    <3>2. c \in touching /\ AtMost(case'[c].version, case[c].version)
      BY <1>5, <1>9, <3>1 DEF Older
    <3>3. QED
      BY <1>7, <2>3, <3>2 DEF touching, AtMost
  <2>4. CASE \E x \in Closure(task, t) \ {t} : decision[x].id < decision'[x].id
    BY <2>1, <2>4
  <2>5. CASE \E s \in scopes \cap Scopes : baseline[s].version < baseline'[s].version
    BY <2>2, <2>5
  <2>6. CASE \E c \in Cases' : /\ case'[c].scope \in scopes
                               /\ c \in Cases => case[c].version < case'[c].version
    BY <2>3, <2>6
  <2>7. QED
    BY <2>4, <2>5, <2>6 DEF scopes
<1>10. QED
  BY <1>8, <1>9 DEF Newer, B

LEMMA ScopesWithin ==
    ASSUME TypeOK, NEW t \in TaskIds, NEW x \in Closure(task, t)
    PROVE  ClosureScopes(task, x) \subseteq ClosureScopes(task, t)
  BY ClosureFacts DEF ClosureScopes

(* A registered task rests on real scopes. *)
LEMMA ScopesReal ==
    ASSUME GraphInv, NEW t \in Tasks
    PROVE  ClosureScopes(task, t) \subseteq Scopes
  BY ClosureRegistered DEF GraphInv, ReachInv, Scoped, ClosureScopes

(* A command about scope s leaves alone a task that does not rest on s. *)
LEMMA UntouchedByEvent ==
    ASSUME GraphInv, NEW t \in Tasks, task' = task, decision' = decision,
           NEW s, s \notin ClosureScopes(task, t),
           \A x \in TaskIds : s \notin ClosureScopes(task, x) =>
               taints'[x] = taints[x] /\ status'[x] = status[x],
           \A r \in Scopes \ {s} : baseline'[r] = baseline[r],
           \A c \in CaseIds : \/ case'[c] = case[c]
                              \/ case'[c].scope = s /\ case[c].scope \in {s, NoScope}
    PROVE  Untouched(t)
<1>1. TypeOK /\ t \in TaskIds
  BY DEF GraphInv, ReachInv, Tasks
<1>2. ClosureScopes(task, t) \subseteq Scopes \ {s}
  BY ScopesReal
<1>3. Closure(task', t) = Closure(task, t)
  OBVIOUS
<1>4. ASSUME NEW x \in Closure(task, t)
      PROVE  taints'[x] = taints[x] /\ status'[x] = status[x]
  <2>1. x \in TaskIds /\ s \notin ClosureScopes(task, x)
    BY <1>1, ClosureFacts, ScopesWithin
  <2>2. QED
    BY <2>1
<1>5. \A r \in ClosureScopes(task, t) : baseline'[r] = baseline[r]
  BY <1>2
<1>6. \A c \in CaseIds :
         \/ case[c].scope \in ClosureScopes(task, t)
         \/ case'[c].scope \in ClosureScopes(task, t)
         => case'[c] = case[c]
  BY <1>2, ScopeAssumption
<1>7. QED
  BY <1>3, <1>4, <1>5, <1>6 DEF Untouched

(* Suspending, and what a resolution does, reach only the tasks that rest  *)
(* on the scope of the event.                                              *)
LEMMA InvalidateReach ==
    ASSUME TypeOK, NEW s, NEW token, Invalidate(s, token), NEW x \in TaskIds
    PROVE  IF s \in ClosureScopes(task, x)
           THEN taints'[x] = taints[x] \cup {token} /\ status'[x] = "SUSPENDED"
           ELSE taints'[x] = taints[x] /\ status'[x] = status[x]
  BY AffectedIffInClosure DEF Invalidate

LEMMA ResolveReach ==
    ASSUME TypeOK, NEW a \in Actors, NEW h \in handoffs, ResolveCase(a, h), NEW x \in TaskIds
    PROVE  IF case[h.report.case].scope \in ClosureScopes(task, x)
           THEN taints[x] \subseteq taints'[x] /\ status'[x] # "READY"
           ELSE taints'[x] = taints[x] /\ status'[x] = status[x]
<1> DEFINE impacted == Affected(task, case[h.report.case].scope)
<1>1. x \in impacted <=> case[h.report.case].scope \in ClosureScopes(task, x)
  BY AffectedIffInClosure
<1>2. IF x \in impacted
      THEN taints[x] \subseteq taints'[x] /\ status'[x] # "READY"
      ELSE taints'[x] = taints[x] /\ status'[x] = status[x]
  BY DEF ResolveCase
<1>3. QED
  BY <1>1, <1>2

(* A decision about t is about t alone. *)
LEMMA DecideEffect ==
    ASSUME TypeOK, NEW T, NEW t \in TaskIds, NEW explicitReview, Decide(T, t, explicitReview)
    PROVE  LET verdict == PolicyResult(T, t, explicitReview)
           IN  /\ \A x \in TaskIds \ {t} : /\ decision'[x] = decision[x]
                                           /\ status'[x] = status[x]
                                           /\ taints'[x] = taints[x]
               /\ status'[t] = verdict
               /\ taints'[t] = TaintsAfter(T, t, explicitReview, verdict)
               /\ decision'[t].id = decision[t].id + 1
               /\ decision'[t].verdict = verdict
               /\ decision'[t].basis = TaskBasis(T, t)
               /\ decision'[t].expires = IF verdict = "READY" THEN ReadyExpiry(T, t)
                                                              ELSE now + ReadyTTL
  BY DEF Decide, TypeOK

(* A step either leaves what a task rests on alone, or moves the task's    *)
(* basis on for good: no command changes a basis without advancing a       *)
(* counter the basis shows.                                                *)
LEMMA BasisStep ==
    ASSUME GraphInv, [Next]_vars, NEW t \in Tasks
    PROVE  t \in Tasks' /\ (Untouched(t) \/ Newer(TaskBasis(task, t), TaskBasis(task, t)'))
<1>1. /\ TypeOK /\ TypeOK' /\ DepsRegistered /\ Scoped /\ Acyclic /\ t \in TaskIds
  BY GraphStep DEF GraphInv, ReachInv, Tasks
<1> DEFINE Moves == Untouched(t) \/ Newer(TaskBasis(task, t), TaskBasis(task, t)')
<1>2. ASSUME UNCHANGED <<task, taints, status, decision, baseline, case>>
      PROVE  Moves
  <2>1. Untouched(t)
    BY <1>2 DEF Untouched
  <2>2. QED
    BY <2>1
<1>3. ASSUME NEW a \in Actors, NEW s \in Scopes, NEW limit \in Limits,
             NEW expires \in Expiries, SetBaseline(a, s, limit, expires)
      PROVE  Moves
  <2>1. /\ task' = task /\ decision' = decision /\ case' = case
        /\ \A r \in Scopes \ {s} : baseline'[r] = baseline[r]
        /\ baseline'[s].version = baseline[s].version + 1
        /\ \A r \in Scopes : baseline[r].version \in Nat
    BY <1>1, <1>3 DEF SetBaseline, TypeOK
  <2>2. CASE s \in ClosureScopes(task, t)
    <3>1. /\ \A x \in TaskIds : decision[x].id <= decision'[x].id
          /\ \A r \in Scopes : baseline[r].version <= baseline'[r].version
          /\ baseline[s].version < baseline'[s].version
      BY <1>1, <2>1 DEF TypeOK
    <3>2. \A c \in Cases : /\ c \in Cases' /\ case'[c].scope = case[c].scope
                           /\ case[c].version <= case'[c].version
      BY <1>1, <2>1 DEF TypeOK, CaseRecord, Cases
    <3>3. Newer(TaskBasis(task, t), TaskBasis(task, t)')
      BY <1>1, <2>1, <2>2, <3>1, <3>2, BasisAdvances
    <3>4. QED
      BY <3>3
  <2>3. CASE s \notin ClosureScopes(task, t)
    <3>1. \A x \in TaskIds : s \notin ClosureScopes(task, x) =>
             taints'[x] = taints[x] /\ status'[x] = status[x]
      BY <1>1, <1>3, InvalidateReach DEF SetBaseline
    <3>2. Untouched(t)
      BY <2>1, <2>3, <3>1, UntouchedByEvent
    <3>3. QED
      BY <3>2
  <2>4. QED
    BY <2>2, <2>3
<1>4. ASSUME NEW a \in Actors, NEW u \in TaskIds, NEW s \in Scopes, NEW amount \in Amounts,
             NEW parents \in SUBSET Tasks, RegisterTask(a, u, s, amount, parents)
      PROVE  Moves
  <2> DEFINE entry == [scope |-> s, amount |-> amount, dependsOn |-> parents]
  <2>1. u \notin Tasks /\ t # u
    BY <1>4 DEF RegisterTask
  <2>2. /\ u \in TaskIds \ Tasks
        /\ entry \in [scope : Scopes, amount : Nat, dependsOn : SUBSET Tasks]
        /\ task' = [task EXCEPT ![u] = entry]
        /\ task'[u] = entry
        /\ \A x \in TaskIds \ {u} : task'[x] = task[x]
        /\ Tasks' = Tasks \cup {u}
    BY <1>1, <1>4, RegisterEffect
  <2>3. Closure(task', t) = Closure(task, t) /\ u \notin Closure(task, t)
    <3> HIDE DEF entry
    <3>1. t \in TaskIds \ {u}
      BY <1>1, <2>1
    <3>2. /\ Closure([task EXCEPT ![u] = entry], t) = Closure(task, t)
          /\ u \notin Closure(task, t)
      BY <1>1, <2>2, <3>1, RegisterKeepsClosure
    <3>3. QED
      BY <2>2, <3>2
  <2>4. Closure(task, t) \subseteq TaskIds \ {u}
    BY <1>1, <2>3, ClosureFacts
  <2>5. \A x \in TaskIds \ {u} :
           decision'[x] = decision[x] /\ status'[x] = status[x] /\ taints'[x] = taints[x]
    BY <1>1, <1>4, DecideEffect DEF RegisterTask
  <2>6. baseline' = baseline /\ case' = case
    BY <1>4 DEF RegisterTask
  <2>7. Untouched(t)
    BY <2>2, <2>3, <2>4, <2>5, <2>6 DEF Untouched
  <2>8. QED
    BY <2>7
<1>5. ASSUME NEW a \in Actors, NEW u \in TaskIds, NEW explicitReview \in BOOLEAN,
             Evaluate(a, u, explicitReview)
      PROVE  Moves
  <2>1. task' = task /\ baseline' = baseline /\ case' = case
    BY <1>5 DEF Evaluate
  <2>2. /\ \A x \in TaskIds \ {u} :
             decision'[x] = decision[x] /\ status'[x] = status[x] /\ taints'[x] = taints[x]
        /\ decision'[u].id = decision[u].id + 1
        /\ \A x \in TaskIds : decision[x].id \in Nat
    BY <1>1, <1>5, DecideEffect DEF Evaluate, TypeOK
  <2>3. CASE u \in Closure(task, t) \ {t}
    <3>1. /\ \A x \in TaskIds : decision[x].id <= decision'[x].id
          /\ decision[u].id < decision'[u].id
          /\ \A r \in Scopes : baseline[r].version <= baseline'[r].version
      BY <1>1, <2>1, <2>2 DEF TypeOK
    <3>2. \A c \in Cases : /\ c \in Cases' /\ case'[c].scope = case[c].scope
                           /\ case[c].version <= case'[c].version
      BY <1>1, <2>1 DEF TypeOK, CaseRecord, Cases
    <3>3. Newer(TaskBasis(task, t), TaskBasis(task, t)')
      BY <1>1, <2>1, <2>3, <3>1, <3>2, BasisAdvances
    <3>4. QED
      BY <3>3
  <2>4. CASE u \notin Closure(task, t) \ {t}
    <3>1. Closure(task, t) \ {t} \subseteq TaskIds \ {u}
      BY <1>1, <2>4, ClosureFacts
    <3>2. Untouched(t)
      BY <2>1, <2>2, <3>1 DEF Untouched
    <3>3. QED
      BY <3>2
  <2>5. QED
    BY <2>3, <2>4
<1>6. ASSUME NEW s \in Scopes, NEW c \in CaseIds, task' = task, decision' = decision,
             baseline' = baseline,
             \A d \in CaseIds \ {c} : case'[d] = case[d],
             case'[c].scope = s, case'[c] # NoCase,
             \/ case[c] = NoCase
             \/ case[c].scope = s /\ case'[c].version = case[c].version + 1,
             \A x \in TaskIds : s \notin ClosureScopes(task, x) =>
                 taints'[x] = taints[x] /\ status'[x] = status[x]
      PROVE  Moves
  <2>1. CASE s \in ClosureScopes(task, t)
    <3>1. /\ \A x \in TaskIds : decision[x].id <= decision'[x].id
          /\ \A r \in Scopes : baseline[r].version <= baseline'[r].version
          /\ \A d \in CaseIds : case[d].version \in Nat
      BY <1>1, <1>6 DEF TypeOK, CaseRecord
    <3>2. \A d \in Cases : /\ d \in Cases' /\ case'[d].scope = case[d].scope
                           /\ case[d].version <= case'[d].version
      BY <1>6, <3>1 DEF Cases
    <3>3. /\ c \in Cases' /\ case'[c].scope \in ClosureScopes(task, t)
          /\ c \in Cases => case[c].version < case'[c].version
      BY <1>6, <2>1, <3>1 DEF Cases
    <3>4. Newer(TaskBasis(task, t), TaskBasis(task, t)')
      BY <1>1, <1>6, <3>1, <3>2, <3>3, BasisAdvances
    <3>5. QED
      BY <3>4
  <2>2. CASE s \notin ClosureScopes(task, t)
    <3>1. \A d \in CaseIds : \/ case'[d] = case[d]
                             \/ case'[d].scope = s /\ case[d].scope \in {s, NoScope}
      BY <1>6 DEF NoCase
    <3>2. Untouched(t)
      BY <1>6, <2>2, <3>1, UntouchedByEvent
    <3>3. QED
      BY <3>2
  <2>3. QED
    BY <2>1, <2>2
<1>7. ASSUME NEW a \in Actors, NEW c \in CaseIds, NEW s \in Scopes, NEW kind \in Kinds,
             OpenCase(a, c, s, kind)
      PROVE  Moves
  <2>1. /\ task' = task /\ decision' = decision /\ baseline' = baseline
        /\ \A d \in CaseIds \ {c} : case'[d] = case[d]
        /\ case'[c].scope = s /\ case'[c].version = 1 /\ case[c] = NoCase
    BY <1>1, <1>7 DEF OpenCase, TypeOK, Cases
  <2>2. case'[c] # NoCase
    BY <2>1 DEF NoCase
  <2>3. \A x \in TaskIds : s \notin ClosureScopes(task, x) =>
           taints'[x] = taints[x] /\ status'[x] = status[x]
    BY <1>1, <1>7, InvalidateReach DEF OpenCase
  <2>4. QED
    BY <2>1, <2>2, <2>3, <1>6
<1>8. ASSUME NEW a \in Actors, NEW c \in CaseIds, ReopenCase(a, c) PROVE Moves
  <2>1. case[c] \in CaseRecord /\ case[c] # NoCase
    BY <1>1, <1>8 DEF ReopenCase, SeesCase, Cases, TypeOK
  <2>2. /\ task' = task /\ decision' = decision /\ baseline' = baseline
        /\ \A d \in CaseIds \ {c} : case'[d] = case[d]
        /\ case'[c] = Reopened(a, c)
    BY <1>1, <1>8 DEF ReopenCase, TypeOK
  <2>3. /\ case'[c].scope = case[c].scope /\ case'[c].version = case[c].version + 1
        /\ case'[c].status = "OPEN"
    BY <2>1, <2>2 DEF Reopened, CaseRecord
  <2>4. case'[c] # NoCase
    BY <2>3 DEF NoCase
  <2>5. \A x \in TaskIds : case[c].scope \notin ClosureScopes(task, x) =>
           taints'[x] = taints[x] /\ status'[x] = status[x]
    BY <1>1, <1>8, InvalidateReach DEF ReopenCase
  <2>6. CASE case[c].scope \in Scopes
    BY <2>2, <2>3, <2>4, <2>5, <2>6, <1>6
  <2>7. CASE case[c].scope = NoScope
    <3>1. NoScope \notin ClosureScopes(task, t)
      BY ScopesReal, ScopeAssumption
    <3>2. \A d \in CaseIds : \/ case'[d] = case[d]
                             \/ case'[d].scope = NoScope /\ case[d].scope \in {NoScope}
      BY <2>2, <2>3, <2>7
    <3>3. Untouched(t)
      BY <2>2, <2>5, <2>7, <3>1, <3>2, UntouchedByEvent
    <3>4. QED
      BY <3>3
  <2>8. QED
    BY <2>1, <2>6, <2>7 DEF CaseRecord
<1>9. ASSUME NEW a \in Actors, NEW h \in handoffs, ResolveCase(a, h) PROVE Moves
  <2> DEFINE c == h.report.case
  <2>1. c \in CaseIds /\ case[c] \in CaseRecord /\ case[c].status = "OPEN"
    BY <1>1, <1>9 DEF ResolveCase, ValidReport, TypeOK
  <2>2. /\ task' = task /\ decision' = decision /\ baseline' = baseline
        /\ \A d \in CaseIds \ {c} : case'[d] = case[d]
        /\ case'[c] = Resolved(a, c)
    BY <1>1, <1>9, <2>1 DEF ResolveCase, TypeOK
  <2>3. /\ case'[c].scope = case[c].scope /\ case'[c].version = case[c].version + 1
        /\ case'[c].status = "RESOLVED"
    BY <2>1, <2>2 DEF Resolved, CaseRecord
  <2>4. case'[c] # NoCase
    BY <2>3 DEF NoCase
  <2>5. \A x \in TaskIds : case[c].scope \notin ClosureScopes(task, x) =>
           taints'[x] = taints[x] /\ status'[x] = status[x]
    BY <1>1, <1>9, ResolveReach
  <2> HIDE DEF c
  <2>6. CASE case[c].scope \in Scopes
    BY <2>1, <2>2, <2>3, <2>4, <2>5, <2>6, <1>6
  <2>7. CASE case[c].scope = NoScope
    <3>1. NoScope \notin ClosureScopes(task, t)
      BY ScopesReal, ScopeAssumption
    <3>2. \A d \in CaseIds : \/ case'[d] = case[d]
                             \/ case'[d].scope = NoScope /\ case[d].scope \in {NoScope}
      BY <2>2, <2>3, <2>7
    <3>3. Untouched(t)
      BY <2>2, <2>5, <2>7, <3>1, <3>2, UntouchedByEvent
    <3>4. QED
      BY <3>3
  <2>8. QED
    BY <2>1, <2>6, <2>7 DEF CaseRecord
<1>10. Moves
  BY <1>2, <1>3, <1>4, <1>5, <1>7, <1>8, <1>9, StandingMovesBySix
<1>11. t \in Tasks'
  <2>1. task'[t] = task[t]
    <3>1. ASSUME NEW a \in Actors, NEW u \in TaskIds, NEW s \in Scopes,
                 NEW amount \in Amounts, NEW parents \in SUBSET Tasks,
                 RegisterTask(a, u, s, amount, parents)
          PROVE  task'[t] = task[t]
      BY <1>1, <3>1, RegisterEffect
    <3>2. QED
      BY <3>1, StandingMovesBySix DEF SetBaseline, Evaluate, OpenCase, ReopenCase, ResolveCase
  <2>2. QED
    BY <2>1 DEF Tasks
<1>12. QED
  BY <1>10, <1>11

-----------------------------------------------------------------------------
(* One subject per step *)

(* A command moves the standing of tasks of one subject only: the walk     *)
(* from the event's scope (_invalidate, resolve_case) and the record of a  *)
(* decision stay within it, because register_task compares subjects.       *)
THEOREM StandingOfOneSubject == Spec => OneSubjectPerStep
<1> DEFINE Moved(t) == <<taints[t], status[t]>> # <<taints'[t], status'[t]>>
           Kept == \A t, u \in TaskIds :
                      Moved(t) /\ Moved(u) =>
                          SubjectOf[task'[t].scope] = SubjectOf[task'[u].scope]
<1>1. ASSUME GraphInv, [Next]_vars PROVE Kept
  <2>1. TypeOK /\ DepsOfOneSubject
    BY <1>1 DEF GraphInv, ReachInv
  <2>2. ASSUME NEW s, task' = task,
               \A x \in TaskIds : s \notin ClosureScopes(task, x) => ~ Moved(x)
        PROVE  Kept
    <3>1. ASSUME NEW x \in TaskIds, Moved(x)
          PROVE  SubjectOf[task[x].scope] = SubjectOf[s]
      <4>1. PICK y \in Closure(task, x) : task[y].scope = s
        BY <2>2, <3>1 DEF ClosureScopes
      <4>2. QED
        BY <2>1, <4>1, ClosureOfOneSubject
    <3>2. QED
      BY <2>2, <3>1
  <2>3. ASSUME NEW t \in TaskIds, \A x \in TaskIds \ {t} : ~ Moved(x) PROVE Kept
    BY <2>3
  <2>4. ASSUME NEW a \in Actors, NEW s \in Scopes,
               \/ \E limit \in Limits, expires \in Expiries : SetBaseline(a, s, limit, expires)
               \/ \E c \in CaseIds, kind \in Kinds : OpenCase(a, c, s, kind)
        PROVE  Kept
    <3>1. task' = task /\ \E token : Invalidate(s, token)
      BY <2>4 DEF SetBaseline, OpenCase
    <3>2. \A x \in TaskIds : s \notin ClosureScopes(task, x) => ~ Moved(x)
      BY <2>1, <3>1, InvalidateReach
    <3>3. QED
      BY <2>2, <3>1, <3>2
  <2>5. ASSUME NEW a \in Actors, NEW c \in CaseIds, ReopenCase(a, c) PROVE Kept
    <3>1. task' = task /\ \E token : Invalidate(case[c].scope, token)
      BY <2>5 DEF ReopenCase
    <3>2. \A x \in TaskIds : case[c].scope \notin ClosureScopes(task, x) => ~ Moved(x)
      BY <2>1, <3>1, InvalidateReach
    <3>3. QED
      BY <2>2, <3>1, <3>2
  <2>6. ASSUME NEW a \in Actors, NEW h \in handoffs, ResolveCase(a, h) PROVE Kept
    <3>1. task' = task
      BY <2>6 DEF ResolveCase
    <3>2. \A x \in TaskIds : case[h.report.case].scope \notin ClosureScopes(task, x) => ~ Moved(x)
      BY <2>1, <2>6, ResolveReach
    <3>3. QED
      BY <2>2, <3>1, <3>2
  <2>7. ASSUME NEW a \in Actors, NEW t \in TaskIds, NEW s \in Scopes, NEW amount \in Amounts,
               NEW parents \in SUBSET Tasks, RegisterTask(a, t, s, amount, parents)
        PROVE  Kept
    <3>1. \A x \in TaskIds \ {t} : ~ Moved(x)
      BY <2>1, <2>7, DecideEffect DEF RegisterTask
    <3>2. QED
      BY <2>3, <3>1
  <2>8. ASSUME NEW a \in Actors, NEW t \in TaskIds, NEW explicitReview \in BOOLEAN,
               Evaluate(a, t, explicitReview)
        PROVE  Kept
    <3>1. \A x \in TaskIds \ {t} : ~ Moved(x)
      BY <2>1, <2>8, DecideEffect DEF Evaluate
    <3>2. QED
      BY <2>3, <3>1
  <2>9. CASE UNCHANGED <<task, taints, status, decision, baseline, case>>
    BY <2>9
  <2>10. QED
    BY <1>1, <2>4, <2>5, <2>6, <2>7, <2>8, <2>9, StandingMovesBySix
<1>2. GraphInv /\ [Next]_vars =>
        [\A t, u \in TaskIds :
            /\ <<taints[t], status[t]>> # <<taints'[t], status'[t]>>
            /\ <<taints[u], status[u]>> # <<taints'[u], status'[u]>>
            => SubjectOf[task'[t].scope] = SubjectOf[task'[u].scope]]_vars
  BY <1>1
<1>3. QED
  BY GraphInit, GraphStep, <1>2, PTL DEF Spec, OneSubjectPerStep

-----------------------------------------------------------------------------
(* Stale decisions *)

LEMMA OlderTransitive ==
    ASSUME NEW A, NEW B, NEW C, Older(A, B), Older(B, C)
    PROVE  Older(A, C)
  BY DEF Older, AtMost

LEMMA PrecedesNewer ==
    ASSUME NEW A, NEW B, NEW C, Precedes(A, B), Newer(B, C)
    PROVE  Precedes(A, C) /\ A # C
<1>1. Older(A, B) /\ Older(B, C) /\ ~ Older(C, B)
  BY DEF Precedes, Newer
<1>2. Older(A, C) /\ ~ Older(C, A)
  BY <1>1, OlderTransitive
<1>3. QED
  BY <1>1, <1>2 DEF Precedes

(* A task's decision stays, or is taken anew in this step, by an           *)
(* evaluation or by the task's registration.                               *)
LEMMA DecisionStep ==
    ASSUME TypeOK, [Next]_vars, NEW t \in Tasks'
    PROVE  \/ t \in Tasks /\ decision'[t] = decision[t]
           \/ \E a \in Actors, explicitReview \in BOOLEAN : Evaluate(a, t, explicitReview)
           \/ \E a \in Actors, s \in Scopes, amount \in Amounts, parents \in SUBSET Tasks :
                 RegisterTask(a, t, s, amount, parents)
<1>1. t \in TaskIds
  BY DEF Tasks
<1> DEFINE Stays == t \in Tasks /\ decision'[t] = decision[t]
<1>2. ASSUME task' = task, decision' = decision PROVE Stays
  BY <1>2 DEF Tasks
<1>3. ASSUME NEW a \in Actors, NEW u \in TaskIds, NEW s \in Scopes, NEW amount \in Amounts,
             NEW parents \in SUBSET Tasks, RegisterTask(a, u, s, amount, parents), t # u
      PROVE  Stays
  <2>1. \A x \in TaskIds \ {u} : decision'[x] = decision[x]
    BY <1>3 DEF RegisterTask, Decide, TypeOK
  <2>2. Tasks' = Tasks \cup {u}
    BY <1>3, RegisterEffect
  <2>3. QED
    BY <1>1, <1>3, <2>1, <2>2
<1>4. ASSUME NEW a \in Actors, NEW u \in TaskIds, NEW explicitReview \in BOOLEAN,
             Evaluate(a, u, explicitReview), t # u
      PROVE  Stays
  <2>1. \A x \in TaskIds \ {u} : decision'[x] = decision[x]
    BY <1>4 DEF Evaluate, Decide, TypeOK
  <2>2. Tasks' = Tasks
    BY <1>4 DEF Evaluate, Tasks
  <2>3. QED
    BY <1>1, <1>4, <2>1, <2>2
<1>5. CASE \E a \in Actors, u \in TaskIds, s \in Scopes, amount \in Amounts,
              parents \in SUBSET Tasks : RegisterTask(a, u, s, amount, parents)
  BY <1>3, <1>5
<1>6. CASE \E a \in Actors, u \in TaskIds, explicitReview \in BOOLEAN :
              Evaluate(a, u, explicitReview)
  <2>1. PICK a \in Actors, u \in TaskIds, explicitReview \in BOOLEAN :
           Evaluate(a, u, explicitReview)
    BY <1>6, Zenon
  <2>2. CASE t = u
    BY <2>1, <2>2, Zenon
  <2>3. CASE t # u
    BY <1>4, <2>1, <2>3, Zenon
  <2>4. QED
    BY <2>2, <2>3
<1>7. CASE task' = task /\ decision' = decision
  BY <1>2, <1>7
<1>8. ASSUME \/ UNCHANGED <<task, taints, status, decision, baseline, case>>
             \/ \E a \in Actors, s \in Scopes, limit \in Limits, expires \in Expiries :
                   SetBaseline(a, s, limit, expires)
             \/ \E a \in Actors, c \in CaseIds, s \in Scopes, kind \in Kinds :
                   OpenCase(a, c, s, kind)
             \/ \E a \in Actors, c \in CaseIds : ReopenCase(a, c)
             \/ \E a \in Actors : \E h \in handoffs : ResolveCase(a, h)
      PROVE  task' = task /\ decision' = decision
  BY <1>8 DEF SetBaseline, OpenCase, ReopenCase, ResolveCase
<1>9. QED
  BY <1>5, <1>6, <1>7, <1>8, StandingMovesBySix

(* A new decision records the basis the task has when it is recorded. *)
LEMMA DecideBasis ==
    ASSUME TypeOK, NEW t \in TaskIds, NEW T, task' = T, NEW explicitReview,
           Decide(T, t, explicitReview), baseline' = baseline, case' = case
    PROVE  decision'[t].basis = TaskBasis(task, t)'
<1>1. /\ decision'[t].basis = TaskBasis(T, t)
      /\ \A x \in TaskIds \ {t} : decision'[x] = decision[x] /\ status'[x] = status[x]
  BY DecideEffect
<1>2. Closure(T, t) \subseteq TaskIds
  BY DEF Closure, Ancestors, Deps
<1>3. Cases' = Cases
  BY DEF Cases
<1>4. TaskBasis(task, t)' = TaskBasis(T, t)
  BY <1>1, <1>2, <1>3 DEF TaskBasis
<1>5. QED
  BY <1>1, <1>4

LEMMA NewDecisionBasis ==
    ASSUME TypeOK, NEW t \in TaskIds,
           \/ \E a \in Actors, explicitReview \in BOOLEAN : Evaluate(a, t, explicitReview)
           \/ \E a \in Actors, s \in Scopes, amount \in Amounts, parents \in SUBSET Tasks :
                 RegisterTask(a, t, s, amount, parents)
    PROVE  /\ decision'[t].basis = TaskBasis(task, t)'
           /\ decision'[t].id = decision[t].id + 1
<1>1. ASSUME NEW a \in Actors, NEW explicitReview \in BOOLEAN, Evaluate(a, t, explicitReview)
      PROVE  /\ decision'[t].basis = TaskBasis(task, t)'
             /\ decision'[t].id = decision[t].id + 1
  <2>1. /\ Decide(task, t, explicitReview) /\ task' = task
        /\ baseline' = baseline /\ case' = case
    BY <1>1 DEF Evaluate
  <2>2. QED
    BY <2>1, DecideBasis, DecideEffect
<1>2. ASSUME NEW a \in Actors, NEW s \in Scopes, NEW amount \in Amounts,
             NEW parents \in SUBSET Tasks, RegisterTask(a, t, s, amount, parents)
      PROVE  /\ decision'[t].basis = TaskBasis(task, t)'
             /\ decision'[t].id = decision[t].id + 1
  <2>1. Decide(task', t, FALSE) /\ baseline' = baseline /\ case' = case
    BY <1>2 DEF RegisterTask
  <2>2. QED
    BY <2>1, DecideBasis, DecideEffect
<1>3. QED
  BY <1>1, <1>2

(* A basis made of counters is no older than itself. *)
LEMMA PrecedesItself ==
    ASSUME NEW B,
           \A x \in DOMAIN B.tasks : B.tasks[x].parentDecision \in Nat,
           \A s \in DOMAIN B.baselines : B.baselines[s].version \in Nat,
           \A c \in DOMAIN B.cases : B.cases[c].version \in Nat
    PROVE  Precedes(B, B)
  BY DEF Precedes, Older, AtMost

BasesInv == GraphInv /\ BasesPrecede

LEMMA BasesStep == BasesInv /\ [Next]_vars => BasesInv'
<1> SUFFICES ASSUME BasesInv, [Next]_vars PROVE BasesInv'
  OBVIOUS
<1>1. GraphInv /\ GraphInv' /\ TypeOK /\ TypeOK' /\ BasesPrecede
  BY GraphStep DEF BasesInv, GraphInv, ReachInv
<1>2. ASSUME NEW t \in Tasks'
      PROVE  Precedes(decision'[t].basis, TaskBasis(task, t)')
  <2> DEFINE B == TaskBasis(task, t)'
  <2>1. t \in TaskIds
    BY DEF Tasks
  <2>2. CASE decision'[t].basis = B
    <3>1. \A x \in DOMAIN B.tasks : B.tasks[x].parentDecision \in Nat
      BY <1>1 DEF TaskBasis, TypeOK, Closure, Ancestors, Deps
    <3>2. \A s \in DOMAIN B.baselines : B.baselines[s].version \in Nat
      <4>1. ClosureScopes(task', t) \subseteq Scopes \cup {NoScope}
        BY <1>1 DEF ClosureScopes, TypeOK, Closure, Ancestors, Deps
      <4>2. QED
        BY <1>1, <4>1 DEF TaskBasis, TypeOK
    <3>3. \A c \in DOMAIN B.cases : B.cases[c].version \in Nat
      BY <1>1 DEF TaskBasis, TypeOK, Cases, CaseRecord
    <3> HIDE DEF B
    <3>4. QED
      BY <2>2, <3>1, <3>2, <3>3, PrecedesItself DEF B
  <2>3. CASE t \in Tasks /\ decision'[t] = decision[t]
    <3>1. Precedes(decision[t].basis, TaskBasis(task, t))
      BY <1>1, <2>3 DEF BasesPrecede
    <3>2. Untouched(t) \/ Newer(TaskBasis(task, t), B)
      BY <1>1, <2>3, BasisStep
    <3>3. CASE Untouched(t)
      BY <2>3, <3>1, <3>3, UntouchedBasis
    <3>4. CASE Newer(TaskBasis(task, t), B)
      BY <2>3, <3>1, <3>4, PrecedesNewer
    <3>5. QED
      BY <3>2, <3>3, <3>4
  <2>4. QED
    BY <1>1, <2>1, <2>2, <2>3, DecisionStep, NewDecisionBasis
<1>3. QED
  BY <1>1, <1>2 DEF BasesInv, BasesPrecede

LEMMA BasesInit == Init => BasesInv
<1> SUFFICES ASSUME Init PROVE BasesInv
  OBVIOUS
<1>1. Tasks = {}
  BY DEF Init, Tasks
<1>2. QED
  BY <1>1, GraphInit DEF BasesInv, BasesPrecede

(* decision_validity never takes a decision for current again once the     *)
(* workspace has left its basis: every change of a basis advances a        *)
(* version or a decision identity the basis shows.                         *)
THEOREM StaleDecisionsStayStale == Spec => StaleStaysStale
<1>1. BasesInv /\ [Next]_vars =>
        [\A t \in Tasks :
            /\ decision[t].basis # TaskBasis(task, t)
            /\ decision'[t].id = decision[t].id
            => decision'[t].basis # TaskBasis(task, t)']_vars
  <2> SUFFICES ASSUME BasesInv, [Next]_vars, NEW t \in Tasks,
                      decision[t].basis # TaskBasis(task, t),
                      decision'[t].id = decision[t].id
               PROVE  decision'[t].basis # TaskBasis(task, t)'
    OBVIOUS
  <2>1. /\ GraphInv /\ TypeOK /\ t \in TaskIds /\ decision[t].id \in Nat
        /\ Precedes(decision[t].basis, TaskBasis(task, t))
    BY DEF BasesInv, BasesPrecede, GraphInv, ReachInv, Tasks, TypeOK
  <2>2. t \in Tasks' /\ (Untouched(t) \/ Newer(TaskBasis(task, t), TaskBasis(task, t)'))
    BY <2>1, BasisStep
  <2>3. decision'[t] = decision[t]
    BY <2>1, <2>2, DecisionStep, NewDecisionBasis
  <2>4. CASE Untouched(t)
    BY <2>3, <2>4, UntouchedBasis
  <2>5. CASE Newer(TaskBasis(task, t), TaskBasis(task, t)')
    BY <2>1, <2>3, <2>5, PrecedesNewer
  <2>6. QED
    BY <2>2, <2>4, <2>5
<1>2. QED
  BY BasesInit, BasesStep, <1>1, PTL DEF Spec, StaleStaysStale

-----------------------------------------------------------------------------
(* READY within the limits *)

(* A task READY after a step that did not decide about it was READY        *)
(* before, and neither its taints nor the grants it rests on moved.        *)
LEMMA ReadyKept ==
    ASSUME GraphInv, [Next]_vars, NEW t \in Tasks, decision'[t] = decision[t],
           status'[t] = "READY"
    PROVE  /\ status[t] = "READY" /\ taints'[t] = taints[t]
           /\ Closure(task', t) = Closure(task, t)
           /\ \A x \in Closure(task, t) :
                 task'[x] = task[x] /\ baseline'[task[x].scope] = baseline[task[x].scope]
<1>1. /\ TypeOK /\ DepsRegistered /\ t \in TaskIds
      /\ decision[t].id \in Nat
  BY DEF GraphInv, ReachInv, Tasks, TypeOK
<1> DEFINE Kept == /\ status[t] = "READY" /\ taints'[t] = taints[t]
                   /\ Closure(task', t) = Closure(task, t)
                   /\ \A x \in Closure(task, t) :
                         task'[x] = task[x] /\ baseline'[task[x].scope] = baseline[task[x].scope]
<1>2. CASE UNCHANGED <<task, taints, status, decision, baseline, case>>
  BY <1>2
<1>3. ASSUME NEW a \in Actors, NEW s \in Scopes, NEW limit \in Limits,
             NEW expires \in Expiries, SetBaseline(a, s, limit, expires)
      PROVE  Kept
  <2>1. s \notin ClosureScopes(task, t) /\ status[t] = "READY" /\ taints'[t] = taints[t]
    BY <1>1, <1>3, InvalidateReach DEF SetBaseline
  <2>2. ClosureScopes(task, t) \subseteq Scopes \ {s}
    BY <2>1, ScopesReal
  <2>3. task' = task /\ \A r \in Scopes \ {s} : baseline'[r] = baseline[r]
    BY <1>1, <1>3 DEF SetBaseline, TypeOK
  <2>4. QED
    BY <2>1, <2>2, <2>3 DEF ClosureScopes
<1>4. ASSUME NEW a \in Actors, NEW u \in TaskIds, NEW s \in Scopes, NEW amount \in Amounts,
             NEW parents \in SUBSET Tasks, RegisterTask(a, u, s, amount, parents)
      PROVE  Kept
  <2> DEFINE entry == [scope |-> s, amount |-> amount, dependsOn |-> parents]
  <2>1. u \notin Tasks /\ t \in TaskIds \ {u}
    BY <1>1, <1>4 DEF RegisterTask
  <2>2. /\ u \in TaskIds \ Tasks
        /\ entry \in [scope : Scopes, amount : Nat, dependsOn : SUBSET Tasks]
        /\ task' = [task EXCEPT ![u] = entry]
        /\ task'[u] = entry
        /\ \A x \in TaskIds \ {u} : task'[x] = task[x]
        /\ Tasks' = Tasks \cup {u}
    BY <1>1, <1>4, RegisterEffect
  <2>3. Closure(task', t) = Closure(task, t) /\ u \notin Closure(task, t)
    <3> HIDE DEF entry
    <3>1. /\ Closure([task EXCEPT ![u] = entry], t) = Closure(task, t)
          /\ u \notin Closure(task, t)
      BY <1>1, <2>1, <2>2, RegisterKeepsClosure
    <3>2. QED
      BY <2>2, <3>1
  <2>4. Closure(task, t) \subseteq TaskIds \ {u}
    BY <1>1, <2>3, ClosureFacts
  <2>5. /\ status'[t] = status[t] /\ taints'[t] = taints[t]
        /\ baseline' = baseline
    BY <1>1, <1>4, <2>1, DecideEffect DEF RegisterTask
  <2>6. QED
    BY <2>2, <2>3, <2>4, <2>5
<1>5. ASSUME NEW a \in Actors, NEW u \in TaskIds, NEW explicitReview \in BOOLEAN,
             Evaluate(a, u, explicitReview)
      PROVE  Kept
  <2>1. task' = task /\ baseline' = baseline
    BY <1>5 DEF Evaluate
  <2>2. u # t
    <3>1. decision'[u].id = decision[u].id + 1
      BY <1>1, <1>5 DEF Evaluate, Decide, TypeOK
    <3>2. QED
      BY <1>1, <3>1
  <2>3. status'[t] = status[t] /\ taints'[t] = taints[t]
    BY <1>1, <1>5, <2>2, DecideEffect DEF Evaluate
  <2>4. QED
    BY <2>1, <2>3
<1>6. ASSUME task' = task, baseline' = baseline, NEW s, NEW token, Invalidate(s, token)
      PROVE  Kept
  BY <1>1, <1>6, InvalidateReach
<1>7. ASSUME NEW a \in Actors, NEW c \in CaseIds, NEW s \in Scopes, NEW kind \in Kinds,
             OpenCase(a, c, s, kind)
      PROVE  Kept
  BY <1>6, <1>7 DEF OpenCase
<1>8. ASSUME NEW a \in Actors, NEW c \in CaseIds, ReopenCase(a, c) PROVE Kept
  BY <1>6, <1>8 DEF ReopenCase
<1>9. ASSUME NEW a \in Actors, NEW h \in handoffs, ResolveCase(a, h) PROVE Kept
  <2>1. task' = task /\ baseline' = baseline
    BY <1>9 DEF ResolveCase
  <2>2. status[t] = "READY" /\ taints'[t] = taints[t]
    BY <1>1, <1>9, ResolveReach
  <2>3. QED
    BY <2>1, <2>2
<1>10. QED
  BY <1>2, <1>3, <1>4, <1>5, <1>7, <1>8, <1>9, StandingMovesBySix

(* What a decision that ends READY has found. *)
LEMMA DecideReady ==
    ASSUME TypeOK, NEW T, NEW t \in TaskIds, NEW explicitReview, Decide(T, t, explicitReview),
           PolicyResult(T, t, explicitReview) = "READY"
    PROVE  /\ Blockers(T, case, t) = {} /\ taints'[t] = {}
           /\ \A x \in Closure(T, t) : WithinBaseline(T, x)
           /\ \A x \in Closure(T, t) \ {t} : AncestorCleared(T, x)
<1>1. /\ Blockers(T, case, t) = {}
      /\ \A x \in Closure(T, t) : WithinBaseline(T, x)
      /\ \A x \in Closure(T, t) \ {t} : AncestorCleared(T, x)
      /\ taints[t] = {} \/ explicitReview
  BY DEF PolicyResult
<1>2. taints'[t] = TaintsAfter(T, t, explicitReview, "READY")
  BY DecideEffect
<1>3. TaintsAfter(T, t, explicitReview, "READY") = {}
  BY <1>1 DEF TaintsAfter, Blockers
<1>4. QED
  BY <1>1, <1>2, <1>3

(* What ReadyWithinLimits says of t. *)
Granted(t) ==
    /\ taints[t] = {}
    /\ \A x \in Closure(task, t) :
          /\ baseline[task[x].scope].version > 0
          /\ task[x].amount <= baseline[task[x].scope].limit

LEMMA DecidedGranted ==
    ASSUME TypeOK, NEW t \in TaskIds, NEW T, task' = T, NEW explicitReview,
           Decide(T, t, explicitReview), baseline' = baseline, status'[t] = "READY"
    PROVE  Granted(t)'
<1>1. PolicyResult(T, t, explicitReview) = "READY"
  BY DEF Decide, TypeOK
<1>2. taints'[t] = {} /\ \A x \in Closure(T, t) : WithinBaseline(T, x)
  BY <1>1, DecideReady
<1>3. QED
  BY <1>2 DEF Granted, WithinBaseline

LimitsInv == GraphInv /\ ReadyWithinLimits

LEMMA LimitsStep == LimitsInv /\ [Next]_vars => LimitsInv'
<1> SUFFICES ASSUME LimitsInv, [Next]_vars PROVE LimitsInv'
  OBVIOUS
<1>1. GraphInv /\ GraphInv' /\ TypeOK /\ ReadyWithinLimits
  BY GraphStep DEF LimitsInv, GraphInv, ReachInv
<1>2. ASSUME NEW t \in Tasks', status'[t] = "READY" PROVE Granted(t)'
  <2>1. t \in TaskIds
    BY DEF Tasks
  <2>2. CASE t \in Tasks /\ decision'[t] = decision[t]
    <3>1. /\ status[t] = "READY" /\ taints'[t] = taints[t]
          /\ Closure(task', t) = Closure(task, t)
          /\ \A x \in Closure(task, t) :
                task'[x] = task[x] /\ baseline'[task[x].scope] = baseline[task[x].scope]
      BY <1>1, <1>2, <2>2, ReadyKept
    <3>2. Granted(t)
      BY <1>1, <2>2, <3>1 DEF ReadyWithinLimits, Granted
    <3>3. QED
      BY <3>1, <3>2 DEF Granted
  <2>3. ASSUME NEW a \in Actors, NEW explicitReview \in BOOLEAN, Evaluate(a, t, explicitReview)
        PROVE  Granted(t)'
    BY <1>1, <1>2, <2>1, <2>3, DecidedGranted DEF Evaluate
  <2>4. ASSUME NEW a \in Actors, NEW s \in Scopes, NEW amount \in Amounts,
               NEW parents \in SUBSET Tasks, RegisterTask(a, t, s, amount, parents)
        PROVE  Granted(t)'
    BY <1>1, <1>2, <2>1, <2>4, DecidedGranted DEF RegisterTask
  <2>5. QED
    BY <1>1, <2>2, <2>3, <2>4, DecisionStep
<1>3. QED
  BY <1>1, <1>2 DEF LimitsInv, ReadyWithinLimits, Granted

LEMMA LimitsInit == Init => LimitsInv
<1> SUFFICES ASSUME Init PROVE LimitsInv
  OBVIOUS
<1>1. Tasks = {}
  BY DEF Init, Tasks
<1>2. QED
  BY <1>1, GraphInit DEF LimitsInv, ReadyWithinLimits

(* No READY task carries an unreviewed event or exceeds a limit now in     *)
(* force, for itself or anything it depends on.                            *)
THEOREM ReadyTasksAreWithinLimits == Spec => []ReadyWithinLimits
<1>1. LimitsInv => ReadyWithinLimits
  BY DEF LimitsInv
<1>2. QED
  BY LimitsInit, LimitsStep, <1>1, PTL DEF Spec

-----------------------------------------------------------------------------
(* Clean reviews *)

(* When nothing blocks t, its whole closure is within baseline and its     *)
(* ancestors are cleared, each of them could itself go to review.          *)
LEMMA AncestorsPreparable ==
    ASSUME TypeOK, Acyclic, NEW t \in TaskIds, Blockers(task, case, t) = {},
           \A x \in Closure(task, t) : WithinBaseline(task, x),
           \A x \in Closure(task, t) \ {t} : AncestorCleared(task, x),
           NEW x \in Closure(task, t) \ {t}
    PROVE  Preparable(x)
<1>1. x \in TaskIds /\ Closure(task, x) \subseteq Closure(task, t)
  BY ClosureFacts
<1>2. t \notin Closure(task, x)
  BY <1>1 DEF Acyclic
<1>3. Blockers(task, case, x) = {}
  BY ScopesWithin DEF Blockers
<1>4. PolicyResult(task, x, FALSE) = "READY"
  BY <1>1, <1>2, <1>3 DEF PolicyResult, AncestorCleared
<1>5. QED
  BY <1>4 DEF Preparable, AncestorCleared

(* Only an explicit review that ends READY drops a taint. *)
LEMMA TaintsDropped ==
    ASSUME TypeOK, [Next]_vars, NEW t \in TaskIds, ~ (taints[t] \subseteq taints'[t])
    PROVE  \E a \in Actors : /\ Evaluate(a, t, TRUE)
                             /\ PolicyResult(task, t, TRUE) = "READY"
<1>1. CASE UNCHANGED <<task, taints, status, decision, baseline, case>>
  BY <1>1
<1>2. ASSUME NEW s, NEW token, Invalidate(s, token) PROVE FALSE
  BY <1>2, InvalidateReach
<1>3. ASSUME NEW a \in Actors, NEW h \in handoffs, ResolveCase(a, h) PROVE FALSE
  BY <1>3, ResolveReach
<1>4. ASSUME NEW T, NEW u \in TaskIds, NEW e \in BOOLEAN, Decide(T, u, e)
      PROVE  u = t /\ e /\ PolicyResult(T, u, e) = "READY"
  <2>1. u = t
    BY <1>4, DecideEffect
  <2>2. taints'[t] = TaintsAfter(T, t, e, PolicyResult(T, t, e))
    BY <1>4, <2>1 DEF Decide, TypeOK
  <2>3. QED
    BY <2>1, <2>2 DEF TaintsAfter
<1>5. ASSUME NEW a \in Actors, NEW u \in TaskIds, NEW s \in Scopes, NEW amount \in Amounts,
             NEW parents \in SUBSET Tasks, RegisterTask(a, u, s, amount, parents)
      PROVE  FALSE
  <2>1. Decide(task', u, FALSE)
    BY <1>5 DEF RegisterTask
  <2>2. QED
    BY <2>1, <1>4
<1>6. ASSUME NEW a \in Actors, NEW u \in TaskIds, NEW e \in BOOLEAN, Evaluate(a, u, e)
      PROVE  /\ Evaluate(a, t, TRUE)
             /\ PolicyResult(task, t, TRUE) = "READY"
  <2>1. Decide(task, u, e)
    BY <1>6 DEF Evaluate
  <2>2. u = t /\ e = TRUE /\ PolicyResult(task, u, e) = "READY"
    BY <2>1, <1>4
  <2>3. QED
    BY <1>6, <2>2
<1>7. ASSUME NEW a \in Actors, NEW s \in Scopes,
             \/ \E limit \in Limits, expires \in Expiries : SetBaseline(a, s, limit, expires)
             \/ \E c \in CaseIds, kind \in Kinds : OpenCase(a, c, s, kind)
      PROVE  FALSE
  BY <1>2, <1>7 DEF SetBaseline, OpenCase
<1>8. ASSUME NEW a \in Actors, NEW c \in CaseIds, ReopenCase(a, c) PROVE FALSE
  BY <1>2, <1>8 DEF ReopenCase
<1>9. QED
  BY <1>1, <1>3, <1>5, <1>6, <1>7, <1>8, StandingMovesBySix

(* The events a task must be reconsidered for are forgotten all at once,   *)
(* and only by a reviewer's decision over a closure that is clear.         *)
THEOREM TaintsClearedByCleanReview == Spec => TaintsClearedOnlyByCleanReview
<1>1. GraphInv /\ [Next]_vars =>
        [\A t \in TaskIds :
            ~ (taints[t] \subseteq taints'[t])
            => /\ taints'[t] = {} /\ status'[t] = "READY"
               /\ decision'[t].id > decision[t].id
               /\ Blockers(task, case, t) = {}
               /\ \A x \in Closure(task, t) \ {t} : Preparable(x)
               /\ \E a \in Actors : HasRole(a, {"reviewer"}) /\ SeesTask(a, t)]_vars
  <2> SUFFICES ASSUME GraphInv, [Next]_vars, NEW t \in TaskIds,
                      ~ (taints[t] \subseteq taints'[t])
               PROVE  /\ taints'[t] = {} /\ status'[t] = "READY"
                      /\ decision'[t].id > decision[t].id
                      /\ Blockers(task, case, t) = {}
                      /\ \A x \in Closure(task, t) \ {t} : Preparable(x)
                      /\ \E a \in Actors : HasRole(a, {"reviewer"}) /\ SeesTask(a, t)
    OBVIOUS
  <2>1. TypeOK /\ Acyclic /\ decision[t].id \in Nat
    BY DEF GraphInv, ReachInv, TypeOK
  <2>2. PICK a \in Actors : Evaluate(a, t, TRUE) /\ PolicyResult(task, t, TRUE) = "READY"
    BY <2>1, TaintsDropped
  <2>3. HasRole(a, {"reviewer"}) /\ SeesTask(a, t) /\ Decide(task, t, TRUE)
    BY <2>2 DEF Evaluate
  <2>4. status'[t] = "READY" /\ decision'[t].id > decision[t].id
    <3>1. status'[t] = PolicyResult(task, t, TRUE)
      BY <2>1, <2>3 DEF Decide, TypeOK
    <3>2. decision'[t].id = decision[t].id + 1
      BY <2>1, <2>3 DEF Decide, TypeOK
    <3>3. status'[t] = "READY"
      BY <2>2, <3>1, Zenon
    <3>4. QED
      BY <2>1, <3>2, <3>3
  <2>5. /\ Blockers(task, case, t) = {} /\ taints'[t] = {}
        /\ \A x \in Closure(task, t) : WithinBaseline(task, x)
        /\ \A x \in Closure(task, t) \ {t} : AncestorCleared(task, x)
    BY <2>1, <2>2, <2>3, DecideReady
  <2>6. \A x \in Closure(task, t) \ {t} : Preparable(x)
    BY <2>1, <2>5, AncestorsPreparable
  <2>7. QED
    BY <2>3, <2>4, <2>5, <2>6
<1>2. QED
  BY GraphInit, GraphStep, <1>1, PTL DEF Spec, TaintsClearedOnlyByCleanReview

-----------------------------------------------------------------------------
(* Fresh decisions *)

(* Min, of naturals: the code's min() over expiry times.                   *)
LEMMA MinOfNaturals ==
    ASSUME NEW S \in SUBSET Nat, S # {}
    PROVE  Min(S) \in S /\ \A y \in S : Min(S) <= y
<1> DEFINE Less == {p \in Nat \X Nat : p[1] < p[2]}
<1>1. Less = OpToRel(<, Nat)
  BY DEF OpToRel
<1>2. IsWellFoundedOn(Less, Nat)
  BY <1>1, NatLessThanWellFounded
<1> HIDE DEF Less
<1>3. PICK x \in S : \A y \in S : ~ (<<y, x>> \in Less)
  BY <1>2, WFMin
<1>4. ASSUME NEW y \in S, y < x PROVE FALSE
  <2>1. <<y, x>> \in Nat \X Nat /\ <<y, x>>[1] < <<y, x>>[2]
    BY <1>4
  <2>2. <<y, x>> \in Less
    BY <2>1, Zenon DEF Less
  <2>3. QED
    BY <1>3, <2>2
<1>5. \E z \in S : \A y \in S : z =< y
  BY <1>4
<1>6. QED
  BY <1>5, Zenon DEF Min

(* A READY decision outlives nothing it rests on. *)
LEMMA ReadyExpiryBounds ==
    ASSUME TypeOK, NEW T, NEW t, ClosureScopes(T, t) \subseteq Scopes,
           Closure(T, t) \subseteq TaskIds, \A x \in TaskIds : decision[x].expires \in Nat
    PROVE  /\ ReadyExpiry(T, t) \in Nat
           /\ \A s \in ClosureScopes(T, t) : ReadyExpiry(T, t) <= baseline[s].expires
           /\ \A x \in Closure(T, t) \ {t} : ReadyExpiry(T, t) <= decision[x].expires
<1> DEFINE S == {now + ReadyTTL} \cup {baseline[s].expires : s \in ClosureScopes(T, t)}
                  \cup {decision[x].expires : x \in Closure(T, t) \ {t}}
<1>1. now + ReadyTTL \in Nat
  BY NumberAssumption DEF TypeOK
<1>2. \A s \in ClosureScopes(T, t) : baseline[s].expires \in Nat
  BY DEF TypeOK
<1>3. S \in SUBSET Nat /\ S # {}
  BY <1>1, <1>2
<1>4. ReadyExpiry(T, t) = Min(S)
  BY DEF ReadyExpiry
<1>5. Min(S) \in S /\ \A y \in S : Min(S) <= y
  BY <1>3, MinOfNaturals
<1>6. /\ \A s \in ClosureScopes(T, t) : baseline[s].expires \in S
      /\ \A x \in Closure(T, t) \ {t} : decision[x].expires \in S
  OBVIOUS
<1> HIDE DEF S
<1>7. QED
  BY <1>3, <1>4, <1>5, <1>6

(* A registration or a decision leaves the closures of the other tasks     *)
(* alone.                                                                  *)
LEMMA ClosureStep ==
    ASSUME GraphInv, [Next]_vars, NEW x \in Tasks
    PROVE  Closure(task', x) = Closure(task, x)
<1>1. TypeOK /\ DepsRegistered /\ x \in TaskIds
  BY DEF GraphInv, ReachInv, Tasks
<1>2. ASSUME NEW a \in Actors, NEW u \in TaskIds, NEW s \in Scopes, NEW amount \in Amounts,
             NEW parents \in SUBSET Tasks, RegisterTask(a, u, s, amount, parents)
      PROVE  Closure(task', x) = Closure(task, x)
  <2> DEFINE entry == [scope |-> s, amount |-> amount, dependsOn |-> parents]
  <2>1. u \notin Tasks /\ x \in TaskIds \ {u}
    BY <1>1, <1>2 DEF RegisterTask
  <2>2. /\ u \in TaskIds \ Tasks
        /\ entry \in [scope : Scopes, amount : Nat, dependsOn : SUBSET Tasks]
        /\ task' = [task EXCEPT ![u] = entry]
        /\ task'[u] = entry
        /\ \A y \in TaskIds \ {u} : task'[y] = task[y]
        /\ Tasks' = Tasks \cup {u}
    BY <1>1, <1>2, RegisterEffect
  <2> HIDE DEF entry
  <2>3. Closure([task EXCEPT ![u] = entry], x) = Closure(task, x)
    <3>1. /\ TypeOK /\ DepsRegistered /\ u \in TaskIds \ Tasks /\ x \in TaskIds \ {u}
          /\ entry \in [scope : Scopes, amount : Nat, dependsOn : SUBSET Tasks]
      BY <1>1, <2>1, <2>2
    <3>2. QED
      BY <3>1, RegisterKeepsClosure
  <2>4. QED
    BY <2>2, <2>3
<1>3. CASE task' = task
  BY <1>3
<1>4. QED
  BY <1>2, <1>3, StandingMovesBySix
  DEF SetBaseline, Evaluate, OpenCase, ReopenCase, ResolveCase

(* Scopes and closures of the next state are real too. *)
LEMMA ClosuresReal ==
    GraphInv => \A t \in Tasks : /\ ClosureScopes(task, t) \subseteq Scopes
                                 /\ Closure(task, t) \subseteq TaskIds
  BY ScopesReal, ClosureFacts DEF GraphInv, ReachInv, Tasks

(* What a new READY decision rests on. *)
LEMMA DecidedRests ==
    ASSUME TypeOK, Acyclic', NEW t \in TaskIds, NEW T, task' = T, NEW explicitReview,
           Decide(T, t, explicitReview), baseline' = baseline, case' = case,
           \A x \in TaskIds : decision[x].expires \in Nat,
           ClosureScopes(T, t) \subseteq Scopes, decision'[t].verdict = "READY"
    PROVE  Rests(t)'
<1>1. PolicyResult(T, t, explicitReview) = "READY"
  BY DEF Decide, TypeOK
<1>2. /\ Blockers(T, case, t) = {}
      /\ \A x \in Closure(T, t) : WithinBaseline(T, x)
      /\ \A x \in Closure(T, t) \ {t} : AncestorCleared(T, x)
  BY <1>1, DecideReady
<1>3. Closure(T, t) \subseteq TaskIds
  BY DEF Closure, Ancestors, Deps
<1>4. /\ \A x \in TaskIds \ {t} : /\ decision'[x] = decision[x]
                                  /\ status'[x] = status[x]
                                  /\ taints'[x] = taints[x]
      /\ decision'[t].expires = ReadyExpiry(T, t)
  BY <1>1 DEF Decide, TypeOK
<1>5. /\ \A s \in ClosureScopes(T, t) : ReadyExpiry(T, t) <= baseline[s].expires
      /\ \A x \in Closure(T, t) \ {t} : ReadyExpiry(T, t) <= decision[x].expires
  BY <1>3, ReadyExpiryBounds
<1>6. Blockers(task, case, t)' = {}
  BY <1>2 DEF Blockers
<1>7. ASSUME NEW x \in Closure(T, t)
      PROVE  /\ baseline'[T[x].scope].version > 0
             /\ T[x].amount <= baseline'[T[x].scope].limit
             /\ decision'[t].expires <= baseline'[T[x].scope].expires
  BY <1>2, <1>4, <1>5 DEF WithinBaseline, ClosureScopes
<1>8. ASSUME NEW x \in Closure(T, t) \ {t}
      PROVE  TaskBasis(task, x)' = TaskBasis(T, x)
  <2>1. x \in TaskIds /\ t \notin Closure(T, x)
    BY <1>3 DEF Acyclic
  <2>2. Closure(T, x) \subseteq TaskIds \ {t}
    BY <2>1 DEF Closure, Ancestors, Deps
  <2>3. Cases' = Cases
    BY DEF Cases
  <2>4. QED
    BY <1>4, <2>2, <2>3 DEF TaskBasis
<1>9. ASSUME NEW x \in Closure(T, t) \ {t}
      PROVE  /\ status'[x] = "READY" /\ taints'[x] = {}
             /\ decision'[x].verdict = "READY"
             /\ decision'[t].expires <= decision'[x].expires
             /\ decision'[x].basis = TaskBasis(task, x)'
  BY <1>2, <1>3, <1>4, <1>5, <1>8 DEF AncestorCleared
<1>10. QED
  BY <1>6, <1>7, <1>9 DEF Rests

(* What a decision rests on is untouched with its basis. *)
LEMMA RestsUntouched ==
    ASSUME GraphInv, [Next]_vars, NEW t \in Tasks, Untouched(t), Rests(t),
           decision'[t] = decision[t]
    PROVE  Rests(t)'
<1>1. /\ TypeOK /\ DepsRegistered /\ Acyclic /\ t \in TaskIds
      /\ Closure(task, t) \subseteq Tasks
  BY ClosureRegistered DEF GraphInv, ReachInv, Tasks
<1>2. /\ Closure(task', t) = Closure(task, t)
      /\ ClosureScopes(task', t) = ClosureScopes(task, t)
  BY UntouchedScopes DEF Untouched
<1>3. Blockers(task, case, t)' = {}
  BY <1>2 DEF Blockers, Untouched, Rests
<1>4. ASSUME NEW x \in Closure(task, t)
      PROVE  task'[x] = task[x] /\ baseline'[task[x].scope] = baseline[task[x].scope]
  BY DEF Untouched, ClosureScopes
<1>5. ASSUME NEW x \in Closure(task, t) \ {t}
      PROVE  TaskBasis(task, x)' = TaskBasis(task, x)
  <2>1. Closure(task', x) = Closure(task, x)
    BY <1>1, ClosureStep
  <2>2. Untouched(x)
    BY <1>1, <2>1, UntouchedAbove
  <2>3. QED
    BY <2>2, UntouchedBasis
<1>6. \A x \in Closure(task, t) \ {t} :
         decision'[x] = decision[x] /\ status'[x] = status[x] /\ taints'[x] = taints[x]
  BY DEF Untouched
<1>7. QED
  BY <1>2, <1>3, <1>4, <1>5, <1>6 DEF Rests

LEMMA ClosuresRealNext ==
    GraphInv' => (\A t \in Tasks : /\ ClosureScopes(task, t) \subseteq Scopes
                                   /\ Closure(task, t) \subseteq TaskIds)'
  BY ClosuresReal, PTL

FreshInv == BasesInv /\ ReadyWithinLimits /\ FreshRests /\ ReadyByDecision

LEMMA ReadyByDecisionStep ==
    ASSUME GraphInv, GraphInv', ReadyByDecision, [Next]_vars
    PROVE  ReadyByDecision'
<1>1. TypeOK
  BY DEF GraphInv, ReachInv
<1>2. ASSUME decision' = decision, \A t \in TaskIds : status'[t] = "READY" => status[t] = "READY"
      PROVE  ReadyByDecision'
  BY <1>2 DEF ReadyByDecision
<1>3. ASSUME NEW u \in TaskIds, NEW T, NEW e, Decide(T, u, e),
             ClosureScopes(T, u) \subseteq Scopes
      PROVE  ReadyByDecision'
  <2>1. /\ \A x \in TaskIds \ {u} : decision'[x] = decision[x] /\ status'[x] = status[x]
        /\ status'[u] = decision'[u].verdict
        /\ decision'[u].expires \in {ReadyExpiry(T, u), now + ReadyTTL}
    BY <1>1, <1>3 DEF Decide, TypeOK
  <2>2. Closure(T, u) \subseteq TaskIds
    BY DEF Closure, Ancestors, Deps
  <2>3. ReadyExpiry(T, u) \in Nat /\ now + ReadyTTL \in Nat
    BY <1>1, <1>3, <2>2, ReadyExpiryBounds, NumberAssumption DEF ReadyByDecision, TypeOK
  <2>4. QED
    BY <2>1, <2>3 DEF ReadyByDecision
<1>4. ASSUME NEW a \in Actors, NEW u \in TaskIds, NEW s \in Scopes, NEW amount \in Amounts,
             NEW parents \in SUBSET Tasks, RegisterTask(a, u, s, amount, parents)
      PROVE  ReadyByDecision'
  <2>1. Decide(task', u, FALSE)
    BY <1>4 DEF RegisterTask
  <2>2. u \in Tasks'
    <3>1. Tasks' = Tasks \cup {u}
      BY <1>1, <1>4, RegisterEffect
    <3>2. QED
      BY <3>1
  <2>3. ClosureScopes(task', u) \subseteq Scopes
    BY <2>2, ClosuresRealNext
  <2>4. QED
    BY <2>1, <2>3, <1>3
<1>5. ASSUME NEW a \in Actors, NEW u \in TaskIds, NEW e \in BOOLEAN, Evaluate(a, u, e)
      PROVE  ReadyByDecision'
  <2>1. Decide(task, u, e) /\ u \in Tasks
    BY <1>5 DEF Evaluate, SeesTask
  <2>2. ClosureScopes(task, u) \subseteq Scopes
    BY <2>1, ScopesReal
  <2>3. QED
    BY <2>1, <2>2, <1>3
<1>6. ASSUME decision' = decision, NEW s, NEW token, Invalidate(s, token)
      PROVE  ReadyByDecision'
  BY <1>1, <1>2, <1>6, InvalidateReach
<1>7. ASSUME NEW a \in Actors, NEW s \in Scopes,
             \/ \E limit \in Limits, expires \in Expiries : SetBaseline(a, s, limit, expires)
             \/ \E c \in CaseIds, kind \in Kinds : OpenCase(a, c, s, kind)
      PROVE  ReadyByDecision'
  BY <1>6, <1>7 DEF SetBaseline, OpenCase
<1>8. ASSUME NEW a \in Actors, NEW c \in CaseIds, ReopenCase(a, c) PROVE ReadyByDecision'
  BY <1>6, <1>8 DEF ReopenCase
<1>9. ASSUME NEW a \in Actors, NEW h \in handoffs, ResolveCase(a, h) PROVE ReadyByDecision'
  <2>1. \A t \in TaskIds : status'[t] = "READY" => status[t] = "READY"
    BY <1>1, <1>9, ResolveReach
  <2>2. QED
    BY <1>2, <1>9, <2>1 DEF ResolveCase
<1>10. CASE UNCHANGED <<task, taints, status, decision, baseline, case>>
  BY <1>2, <1>10
<1>11. QED
  BY <1>4, <1>5, <1>7, <1>8, <1>9, <1>10, StandingMovesBySix

LEMMA FreshStep == FreshInv /\ [Next]_vars => FreshInv'
<1> SUFFICES ASSUME FreshInv, [Next]_vars PROVE FreshInv'
  OBVIOUS
<1>1. /\ BasesInv /\ BasesInv' /\ GraphInv /\ GraphInv' /\ TypeOK /\ Acyclic'
      /\ BasesPrecede /\ FreshRests /\ ReadyByDecision
      /\ ReadyWithinLimits'
  BY BasesStep, LimitsStep DEF FreshInv, BasesInv, GraphInv, ReachInv, LimitsInv
<1>2. ReadyByDecision'
  BY <1>1, ReadyByDecisionStep
<1>3. \A x \in TaskIds : decision[x].expires \in Nat
  BY <1>1 DEF ReadyByDecision
<1>4. ASSUME NEW t \in Tasks', decision'[t].verdict = "READY",
             decision'[t].basis = TaskBasis(task, t)'
      PROVE  Rests(t)'
  <2>1. t \in TaskIds /\ ClosureScopes(task', t) \subseteq Scopes
    BY <1>1, ClosuresRealNext DEF Tasks
  <2>2. CASE t \in Tasks /\ decision'[t] = decision[t]
    <3>1. Precedes(decision[t].basis, TaskBasis(task, t))
      BY <1>1, <2>2 DEF BasesPrecede
    <3>2. ~ Newer(TaskBasis(task, t), TaskBasis(task, t)')
      BY <1>4, <2>2, <3>1, PrecedesNewer
    <3>3. Untouched(t)
      BY <1>1, <2>2, <3>2, BasisStep
    <3>4. Rests(t)
      BY <1>1, <1>4, <2>2, <3>3, UntouchedBasis DEF FreshRests
    <3>5. QED
      BY <1>1, <2>2, <3>3, <3>4, RestsUntouched
  <2>3. ASSUME NEW a \in Actors, NEW e \in BOOLEAN, Evaluate(a, t, e)
        PROVE  Rests(t)'
    <3>1. /\ Decide(task, t, e) /\ task' = task
          /\ baseline' = baseline /\ case' = case
      BY <2>3 DEF Evaluate
    <3>2. QED
      BY <1>1, <1>3, <1>4, <2>1, <3>1, DecidedRests
  <2>4. ASSUME NEW a \in Actors, NEW s \in Scopes, NEW amount \in Amounts,
               NEW parents \in SUBSET Tasks, RegisterTask(a, t, s, amount, parents)
        PROVE  Rests(t)'
    <3>1. Decide(task', t, FALSE) /\ baseline' = baseline /\ case' = case
      BY <2>4 DEF RegisterTask
    <3>2. QED
      BY <1>1, <1>3, <1>4, <2>1, <3>1, DecidedRests
  <2>5. QED
    BY <1>1, <2>2, <2>3, <2>4, DecisionStep
<1>5. FreshRests'
  BY <1>4 DEF FreshRests
<1>6. QED
  BY <1>1, <1>2, <1>5 DEF FreshInv

LEMMA FreshInit == Init => FreshInv
<1> SUFFICES ASSUME Init PROVE FreshInv
  OBVIOUS
<1>1. BasesInv /\ ReadyWithinLimits
  BY BasesInit, LimitsInit DEF LimitsInv
<1>2. Tasks = {} /\ ReadyByDecision
  BY DEF Init, Tasks, ReadyByDecision, NoDecision
<1>3. QED
  BY <1>1, <1>2 DEF FreshInv, FreshRests

(* A READY decision that has not expired and whose basis is still current  *)
(* passes the whole policy again, for its task and for every ancestor:     *)
(* comparing one digest and one clock (decision_validity, prepare_review)  *)
(* is as good as judging the whole closure anew.                           *)
THEOREM FreshDecisionsAreLive == Spec => []FreshProofIsLive
<1>1. FreshInv => FreshProofIsLive
  <2> SUFFICES ASSUME FreshInv, NEW t \in Tasks, status[t] = "READY",
                      decision[t].expires > now,
                      decision[t].basis = TaskBasis(task, t),
                      NEW x \in Closure(task, t)
               PROVE  Preparable(x)
    BY DEF FreshProofIsLive
  <2>1. /\ GraphInv /\ TypeOK /\ Acyclic /\ t \in TaskIds /\ now \in Nat
        /\ ReadyWithinLimits /\ FreshRests /\ ReadyByDecision
    BY DEF FreshInv, BasesInv, GraphInv, ReachInv, Tasks, TypeOK
  <2>2. decision[t].verdict = "READY" /\ Rests(t) /\ taints[t] = {}
    BY <2>1 DEF ReadyByDecision, FreshRests, ReadyWithinLimits
  <2>3. /\ ClosureScopes(task, t) \subseteq Scopes /\ Closure(task, t) \subseteq TaskIds
        /\ decision[t].expires \in Nat
    BY <2>1, ScopesReal, ClosureFacts DEF ReadyByDecision
  <2>4. Blockers(task, case, t) = {}
    BY <2>2 DEF Rests
  <2>5. ASSUME NEW y \in Closure(task, t) PROVE WithinBaseline(task, y)
    <3>1. task[y].scope \in Scopes /\ baseline[task[y].scope].expires \in Nat
      BY <2>1, <2>3 DEF ClosureScopes, TypeOK
    <3>2. QED
      BY <2>1, <2>2, <2>3, <3>1 DEF WithinBaseline, Rests
  <2>6. ASSUME NEW y \in Closure(task, t) \ {t} PROVE AncestorCleared(task, y)
    <3>1. decision[y].expires \in Nat
      BY <2>1, <2>3 DEF ReadyByDecision
    <3>2. QED
      BY <2>1, <2>2, <2>3, <3>1 DEF AncestorCleared, Rests
  <2>7. CASE x = t
    <3>1. PolicyResult(task, t, FALSE) = "READY"
      BY <2>2, <2>4, <2>5, <2>6 DEF PolicyResult
    <3>2. QED
      BY <2>2, <2>7, <3>1 DEF Preparable
  <2>8. CASE x # t
    BY <2>1, <2>4, <2>5, <2>6, <2>8, AncestorsPreparable
  <2>9. QED
    BY <2>7, <2>8
<1>2. QED
  BY FreshInit, FreshStep, <1>1, PTL DEF Spec

-----------------------------------------------------------------------------
(* Reviews and reports *)

(* A history is only ever added to. *)
LEMMA HistoriesOnlyGrow ==
    ASSUME HistoryInv, [Next]_vars, NEW c \in CaseIds, NEW i \in 1 .. Len(caseHistory[c])
    PROVE  i \in 1 .. Len(caseHistory'[c]) /\ caseHistory'[c][i] = caseHistory[c][i]
<1> DEFINE Grown == i \in 1 .. Len(caseHistory'[c]) /\ caseHistory'[c][i] = caseHistory[c][i]
<1>1. TypeOK /\ \A d \in CaseIds : caseHistory[d] \in Seq(CaseRecord)
  BY DEF HistoryInv, HistoryOf
<1>2. ASSUME NEW d \in CaseIds, NEW entry \in CaseRecord, Record(d, entry) PROVE Grown
  <2>1. caseHistory'[c] = IF c = d THEN Append(caseHistory[c], entry) ELSE caseHistory[c]
    BY <1>1, <1>2 DEF Record, TypeOK
  <2>2. QED
    BY <1>1, <2>1
<1>3. ASSUME NEW a \in Actors, NEW d \in CaseIds, NEW s \in Scopes, NEW kind \in Kinds,
             OpenCase(a, d, s, kind)
      PROVE  Grown
  <2> DEFINE entry == [version |-> 1, status |-> "OPEN", scope |-> s, kind |-> kind,
                       openedBy |-> a, resolvedBy |-> "NONE"]
  <2>1. Record(d, entry) /\ entry \in CaseRecord
    BY <1>1, <1>3 DEF OpenCase, TypeOK, CaseRecord
  <2> HIDE DEF entry
  <2>2. QED
    BY <1>2, <2>1
<1>4. ASSUME NEW a \in Actors, NEW d \in CaseIds, ReopenCase(a, d) PROVE Grown
  <2>1. Record(d, Reopened(a, d)) /\ Reopened(a, d) \in CaseRecord
    BY <1>1, <1>4, CaseChangeTypes DEF ReopenCase, TypeOK
  <2>2. QED
    BY <1>2, <2>1
<1>5. ASSUME NEW a \in Actors, NEW h \in handoffs, ResolveCase(a, h) PROVE Grown
  <2> DEFINE d == h.report.case
  <2>1. d \in CaseIds /\ Resolved(a, d) \in CaseRecord
    BY <1>1, CaseChangeTypes DEF TypeOK
  <2>2. Record(d, Resolved(a, d))
    BY <1>1, <1>5, <2>1 DEF ResolveCase, TypeOK
  <2> HIDE DEF d
  <2>3. QED
    BY <1>2, <2>1, <2>2
<1>6. QED
  BY <1>3, <1>4, <1>5, CaseMovesByThree

(* What seen, a version of case c, must have gone through: it is on record *)
(* as resolved, on an accepted handoff, by someone independent.            *)
Cleared(c, seen) ==
    /\ seen.status = "RESOLVED"
    /\ seen.version \in 1 .. Len(caseHistory[c]) /\ caseHistory[c][seen.version] = seen
    /\ \E h \in handoffs :
          /\ h.accepted /\ h.report.case = c
          /\ h.version = seen.version - 1 /\ h.report.version = h.version
          /\ h.reviewer = seen.resolvedBy
          /\ seen.resolvedBy \notin {seen.openedBy, h.report.investigator}

ClearedInvariant ==
    \A r \in reviews : \A c \in DOMAIN r.decision.basis.cases :
        c \in CaseIds /\ Cleared(c, r.decision.basis.cases[c])

(* A case that is not open was closed by an independent resolution.        *)
LEMMA ResolvedIsCleared ==
    ASSUME IndependenceInv, NEW c \in Cases, case[c].status # "OPEN"
    PROVE  c \in CaseIds /\ Cleared(c, case[c])
<1>1. /\ c \in CaseIds /\ case[c] # NoCase /\ TypeOK /\ HistoryOf(c)
      /\ IndependentIn(c)
  BY DEF IndependenceInv, HistoryInv, Cases
<1> DEFINE n == case[c].version
<1>2. n \in Nat \ {0} /\ case[c].status = "RESOLVED"
  BY <1>1, StatusByVersion DEF StatusAt
<1>3. n \in 1 .. Len(caseHistory[c]) /\ caseHistory[c][n] = case[c]
  BY <1>1, <1>2 DEF HistoryOf
<1>4. ResolvedIndependently(c, n)
  BY <1>1, <1>2, <1>3 DEF IndependentIn
<1>5. QED
  BY <1>1, <1>2, <1>3, <1>4 DEF ResolvedIndependently, Cleared

(* Only prepare_review adds an artifact, for the standing decision.        *)
LEMMA ReviewsByOne ==
    ASSUME [Next]_vars
    PROVE  \/ UNCHANGED reviews
           \/ \E a \in Actors, t \in TaskIds : PrepareReview(a, t)
<1>1. ASSUME NEW a \in Actors, NEW s \in Scopes,
             \/ \E limit \in Limits, expires \in Expiries : SetBaseline(a, s, limit, expires)
             \/ \E t \in TaskIds, amount \in Amounts, parents \in SUBSET Tasks :
                   RegisterTask(a, t, s, amount, parents)
             \/ \E c \in CaseIds, kind \in Kinds : OpenCase(a, c, s, kind)
      PROVE  UNCHANGED reviews
  BY <1>1 DEF SetBaseline, RegisterTask, OpenCase
<1>2. ASSUME NEW a \in Actors, NEW t \in TaskIds, NEW e \in BOOLEAN, Evaluate(a, t, e)
      PROVE  UNCHANGED reviews
  BY <1>2 DEF Evaluate
<1>3. ASSUME NEW a \in Actors, NEW c \in CaseIds, ReopenCase(a, c) \/ StartInvestigation(a, c)
      PROVE  UNCHANGED reviews
  BY <1>3 DEF ReopenCase, StartInvestigation
<1>4. ASSUME NEW r \in inflight, FinishInvestigation(r) PROVE UNCHANGED reviews
  BY <1>4 DEF FinishInvestigation
<1>5. ASSUME NEW a \in Actors, NEW b \in Actors, NEW r \in reports, HandOff(a, r, b)
      PROVE  UNCHANGED reviews
  BY <1>5 DEF HandOff
<1>6. ASSUME NEW a \in Actors, NEW h \in handoffs, AcceptHandoff(a, h) \/ ResolveCase(a, h)
      PROVE  UNCHANGED reviews
  BY <1>6 DEF AcceptHandoff, ResolveCase
<1>7. ASSUME Tick \/ \E newRegistry \in Registries : Restart(newRegistry)
      PROVE  UNCHANGED reviews
  BY <1>7 DEF Tick, Restart
<1>8. ASSUME UNCHANGED vars PROVE UNCHANGED reviews
  BY <1>8 DEF vars
<1>9. QED
  BY <1>1, <1>2, <1>3, <1>4, <1>5, <1>6, <1>7, <1>8 DEF Next

(* What was cleared stays on record: histories and accepted handoffs are   *)
(* only added to.  And what a new artifact rests on was cleared.           *)
LEMMA ClearedStep == IndependenceInv /\ ClearedInvariant /\ [Next]_vars => ClearedInvariant'
<1> SUFFICES ASSUME IndependenceInv, ClearedInvariant, [Next]_vars PROVE ClearedInvariant'
  OBVIOUS
<1>1. HistoryInv /\ TypeOK /\ HandedOffByAuthor
  BY DEF IndependenceInv, HistoryInv
<1>2. \A h \in handoffs : h.accepted => h \in handoffs'
  BY <1>1, HandoffsKept
<1>3. ASSUME NEW c \in CaseIds, NEW seen, Cleared(c, seen) PROVE Cleared(c, seen)'
  <2>1. /\ seen.version \in 1 .. Len(caseHistory'[c])
        /\ caseHistory'[c][seen.version] = seen
    BY <1>1, <1>3, HistoriesOnlyGrow DEF Cleared
  <2>2. QED
    BY <1>2, <1>3, <2>1 DEF Cleared
<1>4. CASE UNCHANGED reviews
  BY <1>3, <1>4 DEF ClearedInvariant
<1>5. ASSUME NEW a \in Actors, NEW t \in TaskIds, PrepareReview(a, t)
      PROVE  ClearedInvariant'
  <2>1. /\ Preparable(t)
        /\ reviews' = reviews \cup {[task |-> t, decision |-> decision[t]]}
    BY <1>5 DEF PrepareReview
  <2>2. decision[t].basis = TaskBasis(task, t) /\ Blockers(task, case, t) = {}
    BY <2>1 DEF Preparable, PolicyResult
  <2> DEFINE seen == decision[t].basis.cases
  <2>3. seen = [c \in {c \in Cases : case[c].scope \in ClosureScopes(task, t)} |-> case[c]]
    BY <2>2 DEF TaskBasis
  <2>4. ASSUME NEW c \in DOMAIN seen PROVE c \in CaseIds /\ Cleared(c, seen[c])
    <3>1. c \in Cases /\ seen[c] = case[c] /\ case[c].scope \in ClosureScopes(task, t)
      BY <2>3
    <3>2. case[c].status # "OPEN"
      BY <2>2, <3>1 DEF Blockers, Cases
    <3>3. QED
      BY <3>1, <3>2, ResolvedIsCleared
  <2> HIDE DEF seen
  <2>5. \A r \in reviews' \ reviews : r.decision.basis.cases = seen
    BY <2>1 DEF seen
  <2>6. QED
    BY <1>3, <2>4, <2>5 DEF ClearedInvariant
<1>6. QED
  BY <1>4, <1>5, ReviewsByOne

(* No task is put up for review over a risk that was cleared by whoever    *)
(* raised or investigated it, or on a handoff about another case or        *)
(* another version of it.                                                  *)
THEOREM ReviewsRestOnClearedRisks == Spec => []ReviewedRisksCleared
<1>1. Init => IndependenceInv /\ ClearedInvariant
  <2>1. Init => reviews = {}
    BY DEF Init
  <2>2. QED
    BY <2>1, IndependenceInit DEF ClearedInvariant
<1>2. IndependenceInv /\ ClearedInvariant => ReviewedRisksCleared
  <2> SUFFICES ASSUME IndependenceInv, ClearedInvariant
               PROVE  ReviewedRisksCleared
    OBVIOUS
  <2>1. \A c \in CaseIds : DOMAIN caseHistory[c] = 1 .. Len(caseHistory[c])
    BY DEF IndependenceInv, HistoryInv, HistoryOf
  <2>2. QED
    BY <2>1 DEF ClearedInvariant, Cleared, ReviewedRisksCleared
<1>3. QED
  BY <1>1, <1>2, IndependenceStep, ClearedStep, PTL DEF Spec

(* _valid_report computes the basis of the investigation again, precedents *)
(* included: the guidance of a report that still counts is current.        *)
THEOREM GuidanceIsCurrent == Spec => []PrecedentsCurrent
<1>1. PrecedentsCurrent
  BY DEF PrecedentsCurrent, ValidReport, InvestigationBasis, ActivePrecedents
<1>2. QED
  BY <1>1, PTL
=============================================================================
