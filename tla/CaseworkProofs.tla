--------------------------- MODULE CaseworkProofs ---------------------------
(***************************************************************************)
(* Theorems about Casework for every set of tasks, cases, scopes, people   *)
(* and registries, and every bound.                                        *)
(***************************************************************************)
EXTENDS Casework, TaskGraphProofs

-----------------------------------------------------------------------------
(* Type correctness *)

(* The standing a decision gives a task is well typed. *)
LEMMA DecideTypes ==
    ASSUME TypeOK, NEW T, NEW t \in TaskIds, NEW explicitReview \in BOOLEAN,
           Decide(T, t, explicitReview)
    PROVE  /\ taints' \in [TaskIds -> SUBSET Taint]
           /\ status' \in [TaskIds -> Verdicts \cup {"SUSPENDED"}]
           /\ DOMAIN decision' = TaskIds
           /\ \A x \in TaskIds : /\ decision'[x].id \in Nat
                                 /\ decision'[x].verdict \in Verdicts \cup {"NONE"}
<1> DEFINE verdict == PolicyResult(T, t, explicitReview)
<1>1. verdict \in Verdicts
  BY DEF PolicyResult, Verdicts
<1>2. TaintsAfter(T, t, explicitReview, verdict) \in SUBSET Taint
  BY DEF TaintsAfter, Blockers, Taint, TypeOK, CaseRecord
<1>3. taints' \in [TaskIds -> SUBSET Taint]
  BY <1>2 DEF Decide, TypeOK
<1>4. status' \in [TaskIds -> Verdicts \cup {"SUSPENDED"}]
  BY <1>1 DEF Decide, TypeOK
<1>5. /\ DOMAIN decision' = TaskIds
      /\ \A x \in TaskIds \ {t} : decision'[x] = decision[x]
      /\ decision'[t].id = decision[t].id + 1
      /\ decision'[t].verdict = verdict
  BY DEF Decide, TypeOK
<1>6. QED
  BY <1>1, <1>3, <1>4, <1>5 DEF TypeOK

(* Suspending what an event reaches is well typed. *)
LEMMA InvalidateTypes ==
    ASSUME TypeOK, NEW s, NEW token \in Taint, Invalidate(s, token)
    PROVE  /\ taints' \in [TaskIds -> SUBSET Taint]
           /\ status' \in [TaskIds -> Verdicts \cup {"SUSPENDED"}]
  BY DEF Invalidate, TypeOK

(* Reopening and resolving keep a case record a case record. *)
LEMMA CaseChangeTypes ==
    ASSUME TypeOK, NEW a \in Actors, NEW c \in CaseIds
    PROVE  Reopened(a, c) \in CaseRecord /\ Resolved(a, c) \in CaseRecord
<1>1. case[c] \in CaseRecord
  BY DEF TypeOK
<1>2. case[c].version + 1 \in Nat
  BY <1>1 DEF CaseRecord
<1>3. Reopened(a, c) \in CaseRecord
  BY <1>1, <1>2 DEF Reopened, CaseRecord
<1>4. Resolved(a, c) \in CaseRecord
  BY <1>1, <1>2 DEF Resolved, CaseRecord
<1>5. QED
  BY <1>3, <1>4

LEMMA InitTypes == Init => TypeOK
  BY NumberAssumption DEF Init, TypeOK, NoTask, NoDecision, NoBaseline, NoCase, Verdicts, CaseRecord

LEMMA NextTypes == TypeOK /\ [Next]_vars => TypeOK'
<1> SUFFICES ASSUME TypeOK, [Next]_vars PROVE TypeOK'
  OBVIOUS
<1> USE NumberAssumption
<1>1. ASSUME NEW a \in Actors, NEW s \in Scopes, NEW limit \in Limits,
             NEW expires \in Expiries, SetBaseline(a, s, limit, expires)
      PROVE  TypeOK'
  <2>1. baseline' \in [Scopes -> [version : Nat, limit : Nat, expires : Nat]]
    BY <1>1 DEF SetBaseline, TypeOK
  <2>2. [kind |-> "baseline", of |-> s, version |-> baseline'[s].version] \in Taint
    BY <2>1 DEF Taint
  <2>3. /\ taints' \in [TaskIds -> SUBSET Taint]
        /\ status' \in [TaskIds -> Verdicts \cup {"SUSPENDED"}]
    BY <1>1, <2>2, InvalidateTypes DEF SetBaseline
  <2>4. QED
    BY <1>1, <2>1, <2>3 DEF SetBaseline, TypeOK, reviewVars
<1>2. ASSUME NEW a \in Actors, NEW t \in TaskIds, NEW s \in Scopes,
             NEW amount \in Amounts, NEW parents \in SUBSET Tasks,
             RegisterTask(a, t, s, amount, parents)
      PROVE  TypeOK'
  <2>1. task' \in [TaskIds -> [scope : Scopes \cup {NoScope}, amount : Nat,
                               dependsOn : SUBSET TaskIds]]
    BY <1>2 DEF RegisterTask, TypeOK, Tasks
  <2>2. Decide(task', t, FALSE)
    BY <1>2 DEF RegisterTask
  <2>3. QED
    BY <1>2, <2>1, <2>2, DecideTypes DEF RegisterTask, TypeOK, reviewVars
<1>3. ASSUME NEW a \in Actors, NEW t \in TaskIds, NEW explicitReview \in BOOLEAN,
             Evaluate(a, t, explicitReview)
      PROVE  TypeOK'
  <2>1. Decide(task, t, explicitReview)
    BY <1>3 DEF Evaluate
  <2>2. /\ taints' \in [TaskIds -> SUBSET Taint]
        /\ status' \in [TaskIds -> Verdicts \cup {"SUSPENDED"}]
        /\ DOMAIN decision' = TaskIds
        /\ \A x \in TaskIds : /\ decision'[x].id \in Nat
                              /\ decision'[x].verdict \in Verdicts \cup {"NONE"}
    BY <2>1, DecideTypes
  <2>3. QED
    BY <1>3, <2>2 DEF Evaluate, TypeOK, reviewVars
<1>4. ASSUME NEW a \in Actors, NEW c \in CaseIds, NEW s \in Scopes, NEW kind \in Kinds,
             OpenCase(a, c, s, kind)
      PROVE  TypeOK'
  <2>1. /\ taints' \in [TaskIds -> SUBSET Taint]
        /\ status' \in [TaskIds -> Verdicts \cup {"SUSPENDED"}]
    BY <1>4, InvalidateTypes DEF OpenCase, Taint
  <2>2. case' \in [CaseIds -> CaseRecord]
    BY <1>4 DEF OpenCase, TypeOK, CaseRecord
  <2>3. QED
    BY <1>4, <2>1, <2>2 DEF OpenCase, Record, TypeOK, reviewVars
<1>5. ASSUME NEW a \in Actors, NEW c \in CaseIds, ReopenCase(a, c)
      PROVE  TypeOK'
  <2>1. Reopened(a, c) \in CaseRecord
    BY CaseChangeTypes DEF TypeOK
  <2>2. case'[c].version \in Nat
    BY <1>5, <2>1 DEF ReopenCase, TypeOK, CaseRecord
  <2>3. /\ taints' \in [TaskIds -> SUBSET Taint]
        /\ status' \in [TaskIds -> Verdicts \cup {"SUSPENDED"}]
    BY <1>5, <2>2, InvalidateTypes DEF ReopenCase, Taint
  <2>4. QED
    BY <1>5, <2>1, <2>3 DEF ReopenCase, Record, TypeOK, reviewVars
<1>6. ASSUME NEW a \in Actors, NEW h \in handoffs, ResolveCase(a, h)
      PROVE  TypeOK'
  <2> DEFINE c        == h.report.case
             resolved == [case EXCEPT ![c] = Resolved(a, c)]
             token    == [kind |-> "resolution", of |-> c, version |-> resolved[c].version]
  <2>1. c \in CaseIds
    BY DEF TypeOK
  <2>2. resolved \in [CaseIds -> CaseRecord]
    <3>1. Resolved(a, c) \in CaseRecord
      BY <2>1, CaseChangeTypes DEF TypeOK
    <3>2. QED
      BY <2>1, <3>1 DEF TypeOK
  <2>3. token \in Taint
    BY <2>1, <2>2 DEF Taint, CaseRecord
  <2>4. taints' \in [TaskIds -> SUBSET Taint]
    BY <1>6, <2>3 DEF ResolveCase, TypeOK
  <2>5. status' \in [TaskIds -> Verdicts \cup {"SUSPENDED"}]
    BY <1>6 DEF ResolveCase, TypeOK, Verdicts
  <2>6. case' = resolved
    BY <1>6 DEF ResolveCase
  <2>7. QED
    BY <1>6, <2>2, <2>4, <2>5, <2>6 DEF ResolveCase, Record, TypeOK
<1>7. ASSUME NEW a \in Actors, NEW c \in CaseIds, StartInvestigation(a, c)
      PROVE  TypeOK'
  BY <1>7 DEF StartInvestigation, TypeOK, standingVars, reviewVars
<1>8. ASSUME NEW r \in inflight, FinishInvestigation(r)
      PROVE  TypeOK'
  BY <1>8 DEF FinishInvestigation, TypeOK, standingVars
<1>9. ASSUME NEW a \in Actors, NEW b \in Actors, NEW r \in reports, HandOff(a, r, b)
      PROVE  TypeOK'
  <2>1. case[r.case].version \in Nat
    BY DEF TypeOK, CaseRecord
  <2>2. handoffs' \subseteq [report : reports, version : Nat, reviewer : Actors,
                             investigator : Actors, accepted : BOOLEAN]
    <3>1. [report |-> r, version |-> case[r.case].version, reviewer |-> b,
           investigator |-> a, accepted |-> FALSE]
            \in [report : reports, version : Nat, reviewer : Actors,
                investigator : Actors, accepted : BOOLEAN]
      BY <2>1
    <3>2. handoffs \subseteq [report : reports, version : Nat, reviewer : Actors,
                              investigator : Actors, accepted : BOOLEAN]
      BY DEF TypeOK
    <3>3. QED
      BY <1>9, <3>1, <3>2 DEF HandOff
  <2>3. QED
    BY <1>9, <2>2 DEF HandOff, TypeOK, standingVars
<1>10. ASSUME NEW a \in Actors, NEW h \in handoffs, AcceptHandoff(a, h)
       PROVE  TypeOK'
  BY <1>10 DEF AcceptHandoff, TypeOK, standingVars
<1>11. ASSUME NEW a \in Actors, NEW t \in TaskIds, PrepareReview(a, t)
       PROVE  TypeOK'
  BY <1>11 DEF PrepareReview, TypeOK, standingVars, reviewVars
<1>12. CASE Tick
  BY <1>12 DEF Tick, TypeOK, standingVars, reviewVars
<1>13. ASSUME NEW newRegistry \in Registries, Restart(newRegistry)
       PROVE  TypeOK'
  BY <1>13 DEF Restart, TypeOK, standingVars, reviewVars
<1>14. CASE UNCHANGED vars
  BY <1>14 DEF vars, TypeOK, standingVars, reviewVars
<1>15. QED
  BY <1>1, <1>2, <1>3, <1>4, <1>5, <1>6, <1>7, <1>8, <1>9, <1>10, <1>11, <1>12,
     <1>13, <1>14 DEF Next

(* Every reachable workspace is well typed: no command stores a status,    *)
(* verdict, taint, case or report field of a kind the model of the record  *)
(* does not allow.                                                         *)
THEOREM TypeCorrect == Spec => []TypeOK
  BY InitTypes, NextTypes, PTL DEF Spec

-----------------------------------------------------------------------------
(* No READY under an open risk *)

(* Tasks only depend on registered tasks. *)
DepsRegistered == \A t \in TaskIds : task[t].dependsOn \subseteq Tasks

(* ReadyNoOpenRisk, also of identities not registered yet. *)
ReadyClear ==
    \A t \in TaskIds : status[t] = "READY" => Blockers(task, case, t) = {}

(* ReadyNoOpenRisk is not inductive by itself: registration must not       *)
(* change what an older task depends on.                                   *)
ReachInv == TypeOK /\ DepsRegistered /\ ReadyClear

(* An event in scope s reaches exactly the tasks whose policy evaluation   *)
(* would look at s.                                                        *)
LEMMA AffectedIffInClosure ==
    ASSUME TypeOK, NEW s, NEW t \in TaskIds
    PROVE  t \in Affected(task, s) <=> s \in ClosureScopes(task, t)
<1> DEFINE hit == {x \in TaskIds : task[x].scope = s}
<1>1. Deps(task) \in [TaskIds -> SUBSET TaskIds]
  BY DEF Deps, TypeOK
<1>2. t \in Dependents(Deps(task), hit) <=> Ancestors(Deps(task), t) \cap hit # {}
  BY <1>1, Duality
<1>3. Ancestors(Deps(task), t) \subseteq TaskIds
  BY <1>1, AncestorsContain
<1>4. Ancestors(Deps(task), t) \cap hit # {} <=> s \in ClosureScopes(task, t)
  BY <1>3 DEF ClosureScopes, Closure
<1>5. QED
  BY <1>2, <1>4 DEF Affected

(* Registering t leaves the scopes every other task rests on unchanged. *)
LEMMA RegisterKeepsClosures ==
    ASSUME TypeOK, DepsRegistered, NEW t \in TaskIds \ Tasks,
           NEW entry \in [scope : Scopes, amount : Nat, dependsOn : SUBSET Tasks],
           NEW x \in TaskIds \ {t}
    PROVE  ClosureScopes([task EXCEPT ![t] = entry], x) = ClosureScopes(task, x)
<1> DEFINE T      == [task EXCEPT ![t] = entry]
           before == Deps(task)
           after  == Deps(T)
<1>1. /\ before \in [TaskIds -> SUBSET TaskIds]
      /\ after \in [TaskIds -> SUBSET TaskIds]
  BY DEF Deps, TypeOK, Tasks
<1>2. \A y \in TaskIds : t \notin before[y]
  BY DEF Deps, DepsRegistered
<1>3. \A y \in TaskIds \ {t} : after[y] = before[y]
  BY DEF Deps, TypeOK
<1>4. /\ Closure(T, x) = Closure(task, x)
      /\ t \notin Closure(task, x)
      /\ Closure(task, x) \subseteq TaskIds
  <2> HIDE DEF before, after
  <2>1. Ancestors(after, x) = Ancestors(before, x) /\ t \notin Ancestors(before, x)
    BY <1>1, <1>2, <1>3, AncestorsStable
  <2>2. Ancestors(before, x) \subseteq TaskIds
    BY <1>1, AncestorsContain
  <2>3. QED
    BY <2>1, <2>2 DEF Closure, before, after
<1>5. \A y \in Closure(task, x) : T[y].scope = task[y].scope
  BY <1>4 DEF TypeOK
<1>6. QED
  BY <1>4, <1>5 DEF ClosureScopes

(* A decision makes a task READY only if nothing blocks it, and leaves the *)
(* standing of every other task alone.                                     *)
LEMMA DecideClear ==
    ASSUME TypeOK, NEW T, NEW t \in TaskIds, NEW explicitReview,
           Decide(T, t, explicitReview)
    PROVE  /\ status'[t] = "READY" => Blockers(T, case, t) = {}
           /\ \A x \in TaskIds \ {t} : status'[x] = status[x]
<1>1. status' = [status EXCEPT ![t] = PolicyResult(T, t, explicitReview)]
  BY DEF Decide
<1>2. PolicyResult(T, t, explicitReview) = "READY" => Blockers(T, case, t) = {}
  BY DEF PolicyResult
<1>3. QED
  BY <1>1, <1>2 DEF TypeOK

(* Opening or reopening one case in scope s, with everything Affected      *)
(* suspended, leaves no READY task under an open case.                     *)
LEMMA InvalidateClear ==
    ASSUME TypeOK, ReadyClear, NEW s, NEW token, NEW c \in CaseIds,
           Invalidate(s, token), task' = task,
           case' \in [CaseIds -> CaseRecord], case'[c].scope = s,
           \A d \in CaseIds \ {c} : case'[d] = case[d]
    PROVE  ReadyClear'
<1> SUFFICES ASSUME NEW t \in TaskIds, status'[t] = "READY", NEW d \in CaseIds,
                    case'[d].status = "OPEN",
                    case'[d].scope \in ClosureScopes(task, t)
             PROVE  FALSE
  BY DEF ReadyClear, Blockers
<1>1. t \notin Affected(task, s) /\ status[t] = "READY"
  BY DEF Invalidate, TypeOK
<1>2. s \notin ClosureScopes(task, t)
  BY <1>1, AffectedIffInClosure
<1>3. d # c
  BY <1>2
<1>4. d \in Blockers(task, case, t)
  BY <1>3 DEF Blockers
<1>5. QED
  BY <1>1, <1>4 DEF ReadyClear

(* A step that registers no task, opens no case and makes no task READY    *)
(* preserves ReadyClear.                                                   *)
LEMMA NoNewRisk ==
    ASSUME ReadyClear, task' = task,
           \A t \in TaskIds : status'[t] = "READY" => status[t] = "READY",
           \A d \in CaseIds : case'[d].status = "OPEN" => case'[d] = case[d]
    PROVE  ReadyClear'
  BY DEF ReadyClear, Blockers

LEMMA ReachInit == Init => ReachInv
<1> SUFFICES ASSUME Init PROVE ReachInv
  OBVIOUS
<1>1. TypeOK
  BY InitTypes
<1>2. DepsRegistered
  BY DEF Init, DepsRegistered, NoTask
<1>3. ReadyClear
  BY DEF Init, ReadyClear
<1>4. QED
  BY <1>1, <1>2, <1>3 DEF ReachInv

LEMMA ReachStep == ReachInv /\ [Next]_vars => ReachInv'
<1> SUFFICES ASSUME ReachInv, [Next]_vars PROVE ReachInv'
  OBVIOUS
<1>1. TypeOK /\ DepsRegistered /\ ReadyClear /\ TypeOK'
  BY NextTypes DEF ReachInv
<1>2. ASSUME task' = task PROVE DepsRegistered'
  BY <1>1, <1>2 DEF DepsRegistered, Tasks
<1>3. ASSUME UNCHANGED <<task, status, case>> PROVE ReadyClear'
  BY <1>1, <1>3, NoNewRisk
<1>4. ASSUME NEW a \in Actors, NEW s \in Scopes, NEW limit \in Limits,
             NEW expires \in Expiries, SetBaseline(a, s, limit, expires)
      PROVE  DepsRegistered' /\ ReadyClear'
  <2>1. \A t \in TaskIds : status'[t] = "READY" => status[t] = "READY"
    BY <1>4 DEF SetBaseline, Invalidate
  <2>2. QED
    BY <1>1, <1>2, <1>4, <2>1, NoNewRisk DEF SetBaseline
<1>5. ASSUME NEW a \in Actors, NEW t \in TaskIds, NEW s \in Scopes,
             NEW amount \in Amounts, NEW parents \in SUBSET Tasks,
             RegisterTask(a, t, s, amount, parents)
      PROVE  DepsRegistered' /\ ReadyClear'
  <2> DEFINE entry == [scope |-> s, amount |-> amount, dependsOn |-> parents]
  <2>1. /\ t \in TaskIds \ Tasks
        /\ entry \in [scope : Scopes, amount : Nat, dependsOn : SUBSET Tasks]
        /\ task' = [task EXCEPT ![t] = entry]
        /\ case' = case
        /\ Decide(task', t, FALSE)
    BY <1>5, NumberAssumption DEF RegisterTask
  <2>2. entry # NoTask
    BY ScopeAssumption DEF NoTask
  <2>3. Tasks' = Tasks \cup {t}
    BY <1>1, <2>1, <2>2 DEF Tasks, TypeOK
  <2>4. DepsRegistered'
    BY <1>1, <2>1, <2>3 DEF DepsRegistered, TypeOK
  <2>5. /\ status'[t] = "READY" => Blockers(task', case, t) = {}
        /\ \A x \in TaskIds \ {t} : status'[x] = status[x]
    BY <1>1, <2>1, DecideClear
  <2>6. \A x \in TaskIds \ {t} : ClosureScopes(task', x) = ClosureScopes(task, x)
    BY <1>1, <2>1, RegisterKeepsClosures
  <2>7. \A x \in TaskIds \ {t} : Blockers(task', case, x) = Blockers(task, case, x)
    BY <2>6 DEF Blockers
  <2>8. ASSUME NEW x \in TaskIds, status'[x] = "READY"
        PROVE  Blockers(task', case', x) = {}
    BY <1>1, <2>1, <2>5, <2>7, <2>8 DEF ReadyClear
  <2>9. QED
    BY <2>4, <2>8 DEF ReadyClear
<1>6. ASSUME NEW a \in Actors, NEW t \in TaskIds, NEW explicitReview \in BOOLEAN,
             Evaluate(a, t, explicitReview)
      PROVE  DepsRegistered' /\ ReadyClear'
  <2>1. /\ task' = task /\ case' = case
        /\ Decide(task, t, explicitReview)
    BY <1>6 DEF Evaluate
  <2>2. /\ status'[t] = "READY" => Blockers(task, case, t) = {}
        /\ \A x \in TaskIds \ {t} : status'[x] = status[x]
    BY <1>1, <2>1, DecideClear
  <2>3. QED
    BY <1>1, <1>2, <2>1, <2>2 DEF ReadyClear
<1>7. ASSUME NEW a \in Actors, NEW c \in CaseIds, NEW s \in Scopes, NEW kind \in Kinds,
             OpenCase(a, c, s, kind)
      PROVE  DepsRegistered' /\ ReadyClear'
  <2>1. /\ task' = task
        /\ case' \in [CaseIds -> CaseRecord] /\ case'[c].scope = s
        /\ \A d \in CaseIds \ {c} : case'[d] = case[d]
    BY <1>1, <1>7 DEF OpenCase, TypeOK
  <2>2. QED
    BY <1>1, <1>2, <1>7, <2>1, InvalidateClear DEF OpenCase
<1>8. ASSUME NEW a \in Actors, NEW c \in CaseIds, ReopenCase(a, c)
      PROVE  DepsRegistered' /\ ReadyClear'
  <2>1. case[c] \in CaseRecord
    BY <1>1 DEF TypeOK
  <2>2. /\ task' = task
        /\ case' = [case EXCEPT ![c] = Reopened(a, c)]
        /\ case' \in [CaseIds -> CaseRecord]
    BY <1>1, <1>8 DEF ReopenCase, TypeOK
  <2>3. /\ case'[c].scope = case[c].scope
        /\ \A d \in CaseIds \ {c} : case'[d] = case[d]
    BY <1>1, <2>1, <2>2 DEF Reopened, TypeOK, CaseRecord
  <2>4. QED
    BY <1>1, <1>2, <1>8, <2>1, <2>2, <2>3, InvalidateClear DEF ReopenCase
<1>9. ASSUME NEW a \in Actors, NEW h \in handoffs, ResolveCase(a, h)
      PROVE  DepsRegistered' /\ ReadyClear'
  <2> DEFINE c == h.report.case
  <2>1. \A t \in TaskIds : status'[t] = "READY" => status[t] = "READY"
    BY <1>9 DEF ResolveCase
  <2>2. c \in CaseIds /\ case[c] \in CaseRecord
    BY <1>1 DEF TypeOK
  <2>3. Resolved(a, c).status = "RESOLVED"
    BY <2>2 DEF Resolved, CaseRecord
  <2>4. \A d \in CaseIds : case'[d].status = "OPEN" => case'[d] = case[d]
    BY <1>1, <1>9, <2>2, <2>3 DEF ResolveCase, TypeOK
  <2>5. QED
    BY <1>1, <1>2, <1>9, <2>1, <2>4, NoNewRisk DEF ResolveCase
<1>10. ASSUME NEW a \in Actors, NEW c \in CaseIds, StartInvestigation(a, c)
       PROVE  DepsRegistered' /\ ReadyClear'
  BY <1>2, <1>3, <1>10 DEF StartInvestigation, standingVars
<1>11. ASSUME NEW r \in inflight, FinishInvestigation(r)
       PROVE  DepsRegistered' /\ ReadyClear'
  BY <1>2, <1>3, <1>11 DEF FinishInvestigation, standingVars
<1>12. ASSUME NEW a \in Actors, NEW b \in Actors, NEW r \in reports, HandOff(a, r, b)
       PROVE  DepsRegistered' /\ ReadyClear'
  BY <1>2, <1>3, <1>12 DEF HandOff, standingVars
<1>13. ASSUME NEW a \in Actors, NEW h \in handoffs, AcceptHandoff(a, h)
       PROVE  DepsRegistered' /\ ReadyClear'
  BY <1>2, <1>3, <1>13 DEF AcceptHandoff, standingVars
<1>14. ASSUME NEW a \in Actors, NEW t \in TaskIds, PrepareReview(a, t)
       PROVE  DepsRegistered' /\ ReadyClear'
  BY <1>2, <1>3, <1>14 DEF PrepareReview, standingVars
<1>15. ASSUME Tick PROVE DepsRegistered' /\ ReadyClear'
  BY <1>2, <1>3, <1>15 DEF Tick, standingVars
<1>16. ASSUME NEW newRegistry \in Registries, Restart(newRegistry)
       PROVE  DepsRegistered' /\ ReadyClear'
  BY <1>2, <1>3, <1>16 DEF Restart, standingVars
<1>17. ASSUME UNCHANGED vars PROVE DepsRegistered' /\ ReadyClear'
  BY <1>2, <1>3, <1>17 DEF vars, standingVars
<1>18. DepsRegistered' /\ ReadyClear'
  BY <1>4, <1>5, <1>6, <1>7, <1>8, <1>9, <1>10, <1>11, <1>12, <1>13, <1>14, <1>15,
     <1>16, <1>17 DEF Next
<1>19. QED
  BY <1>1, <1>18 DEF ReachInv

(* However the dependency graph, the cases and the people are chosen, no   *)
(* reachable workspace holds a READY task with a risk case open anywhere   *)
(* in the scopes it depends on.                                            *)
THEOREM ReadyTasksHaveNoOpenRisk == Spec => []ReadyNoOpenRisk
<1>1. ReachInv => ReadyNoOpenRisk
  BY DEF ReachInv, ReadyClear, ReadyNoOpenRisk, Tasks
<1>2. QED
  BY ReachInit, ReachStep, <1>1, PTL DEF Spec

-----------------------------------------------------------------------------
(* The history of a case *)

StatusAt(i) == IF i % 2 = 1 THEN "OPEN" ELSE "RESOLVED"

(* CaseHistoryIntact, of a case not opened yet as well: its history is     *)
(* empty, its version 0.                                                   *)
HistoryOf(c) ==
    /\ caseHistory[c] \in Seq(CaseRecord)
    /\ Len(caseHistory[c]) = case[c].version
    /\ case[c].version = 0 => case[c] = NoCase
    /\ case[c].version > 0 => caseHistory[c][case[c].version] = case[c]
    /\ \A i \in 1 .. Len(caseHistory[c]) :
          /\ caseHistory[c][i].version = i
          /\ caseHistory[c][i].status = StatusAt(i)

HistoryInv == TypeOK /\ \A c \in CaseIds : HistoryOf(c)

LEMMA Parity ==
    ASSUME NEW n \in Nat
    PROVE  /\ n % 2 \in {0, 1}
           /\ n % 2 = 1 => (n + 1) % 2 = 0
           /\ n % 2 = 0 => (n + 1) % 2 = 1
  OBVIOUS

(* The case and its last entry have the same status. *)
LEMMA StatusByVersion ==
    ASSUME NEW c \in CaseIds, TypeOK, HistoryOf(c), case[c] # NoCase
    PROVE  case[c].version \in Nat \ {0} /\ case[c].status = StatusAt(case[c].version)
<1>1. case[c].version \in Nat /\ case[c].version > 0
  BY DEF TypeOK, CaseRecord, HistoryOf
<1>2. QED
  BY <1>1 DEF HistoryOf

(* Recording the next version, with the other status, keeps a history      *)
(* intact; so does leaving case and history alone.                         *)
LEMMA HistoryGrows ==
    ASSUME TypeOK, NEW c \in CaseIds, HistoryOf(c), NEW entry \in CaseRecord,
           case' = [case EXCEPT ![c] = entry], Record(c, entry),
           entry.version = case[c].version + 1,
           entry.status = StatusAt(entry.version)
    PROVE  HistoryOf(c)'
<1> DEFINE h == caseHistory[c]
           n == case[c].version
<1>1. n \in Nat /\ h \in Seq(CaseRecord) /\ Len(h) = n
  BY DEF TypeOK, CaseRecord, HistoryOf
<1>2. case'[c] = entry /\ caseHistory'[c] = Append(h, entry)
  BY DEF TypeOK, Record
<1>3. /\ caseHistory'[c] \in Seq(CaseRecord) /\ Len(caseHistory'[c]) = n + 1
      /\ caseHistory'[c][n + 1] = entry
      /\ \A i \in 1 .. n : caseHistory'[c][i] = h[i]
  BY <1>1, <1>2
<1>4. ASSUME NEW i \in 1 .. Len(caseHistory'[c])
      PROVE  /\ caseHistory'[c][i].version = i
             /\ caseHistory'[c][i].status = StatusAt(i)
  <2>1. CASE i = n + 1
    BY <1>3, <2>1
  <2>2. CASE i \in 1 .. n
    BY <1>1, <1>3, <2>2 DEF HistoryOf
  <2>3. QED
    BY <1>1, <1>3, <2>1, <2>2
<1>5. QED
  BY <1>1, <1>2, <1>3, <1>4 DEF HistoryOf

(* Only three commands move a case or its history. *)
LEMMA CaseMovesByThree ==
    ASSUME [Next]_vars
    PROVE  \/ UNCHANGED <<case, caseHistory>>
           \/ \E a \in Actors, c \in CaseIds, s \in Scopes, kind \in Kinds :
                 OpenCase(a, c, s, kind)
           \/ \E a \in Actors, c \in CaseIds : ReopenCase(a, c)
           \/ \E a \in Actors : \E h \in handoffs : ResolveCase(a, h)
<1>1. ASSUME NEW a \in Actors, NEW s \in Scopes, NEW limit \in Limits,
             NEW expires \in Expiries, SetBaseline(a, s, limit, expires)
      PROVE  UNCHANGED <<case, caseHistory>>
  BY <1>1 DEF SetBaseline
<1>2. ASSUME NEW a \in Actors, NEW t \in TaskIds, NEW s \in Scopes,
             NEW amount \in Amounts, NEW parents \in SUBSET Tasks,
             RegisterTask(a, t, s, amount, parents)
      PROVE  UNCHANGED <<case, caseHistory>>
  BY <1>2 DEF RegisterTask
<1>3. ASSUME NEW a \in Actors, NEW t \in TaskIds,
             \/ \E explicitReview \in BOOLEAN : Evaluate(a, t, explicitReview)
             \/ PrepareReview(a, t)
      PROVE  UNCHANGED <<case, caseHistory>>
  BY <1>3 DEF Evaluate, PrepareReview
<1>4. ASSUME NEW a \in Actors, NEW c \in CaseIds, StartInvestigation(a, c)
      PROVE  UNCHANGED <<case, caseHistory>>
  BY <1>4 DEF StartInvestigation
<1>5. ASSUME NEW r \in inflight, FinishInvestigation(r)
      PROVE  UNCHANGED <<case, caseHistory>>
  BY <1>5 DEF FinishInvestigation
<1>6. ASSUME NEW a \in Actors, NEW b \in Actors, NEW r \in reports, HandOff(a, r, b)
      PROVE  UNCHANGED <<case, caseHistory>>
  BY <1>6 DEF HandOff
<1>7. ASSUME NEW a \in Actors, NEW h \in handoffs, AcceptHandoff(a, h)
      PROVE  UNCHANGED <<case, caseHistory>>
  BY <1>7 DEF AcceptHandoff
<1>8. ASSUME Tick PROVE UNCHANGED <<case, caseHistory>>
  BY <1>8 DEF Tick
<1>9. ASSUME NEW newRegistry \in Registries, Restart(newRegistry)
      PROVE  UNCHANGED <<case, caseHistory>>
  BY <1>9 DEF Restart
<1>10. ASSUME UNCHANGED vars PROVE UNCHANGED <<case, caseHistory>>
  BY <1>10 DEF vars
<1>11. QED
  BY <1>1, <1>2, <1>3, <1>4, <1>5, <1>6, <1>7, <1>8, <1>9, <1>10 DEF Next

LEMMA HistoryInit == Init => HistoryInv
<1> SUFFICES ASSUME Init, NEW c \in CaseIds PROVE HistoryOf(c)
  BY InitTypes DEF HistoryInv
<1>1. caseHistory[c] = <<>> /\ case[c] = NoCase
  BY DEF Init
<1>2. QED
  BY <1>1 DEF HistoryOf, NoCase

LEMMA HistoryStep == HistoryInv /\ [Next]_vars => HistoryInv'
<1> SUFFICES ASSUME HistoryInv, [Next]_vars PROVE HistoryInv'
  OBVIOUS
<1>1. TypeOK /\ TypeOK' /\ \A c \in CaseIds : HistoryOf(c)
  BY NextTypes DEF HistoryInv
<1> DEFINE Kept == \A c \in CaseIds : HistoryOf(c)'
<1>2. ASSUME UNCHANGED <<case, caseHistory>> PROVE Kept
  BY <1>1, <1>2 DEF HistoryOf
<1>3. ASSUME NEW c \in CaseIds, NEW entry \in CaseRecord,
             case' = [case EXCEPT ![c] = entry], Record(c, entry),
             entry.version = case[c].version + 1,
             entry.status = StatusAt(entry.version)
      PROVE  Kept
  <2>1. HistoryOf(c)'
    BY <1>1, <1>3, HistoryGrows
  <2>2. \A d \in CaseIds \ {c} : case'[d] = case[d] /\ caseHistory'[d] = caseHistory[d]
    BY <1>1, <1>3 DEF TypeOK, Record
  <2>3. \A d \in CaseIds \ {c} : HistoryOf(d)'
    BY <1>1, <2>2 DEF HistoryOf
  <2>4. QED
    BY <2>1, <2>3
<1>4. ASSUME NEW a \in Actors, NEW c \in CaseIds, NEW s \in Scopes, NEW kind \in Kinds,
             OpenCase(a, c, s, kind)
      PROVE  Kept
  <2> DEFINE entry == [version |-> 1, status |-> "OPEN", scope |-> s, kind |-> kind,
                       openedBy |-> a, resolvedBy |-> "NONE"]
  <2>1. case' = [case EXCEPT ![c] = entry] /\ case'[c] = entry /\ Record(c, entry)
    BY <1>1, <1>4 DEF OpenCase, TypeOK
  <2>2. entry \in CaseRecord
    BY DEF CaseRecord
  <2>3. case[c].version = 0
    BY <1>4 DEF OpenCase, Cases, NoCase
  <2>4. entry.version = case[c].version + 1 /\ entry.status = StatusAt(entry.version)
    BY <2>3 DEF StatusAt
  <2> HIDE DEF entry
  <2>5. QED
    BY <2>1, <2>2, <2>4, <1>3
<1>5. ASSUME NEW a \in Actors, NEW c \in CaseIds, ReopenCase(a, c) PROVE Kept
  <2>1. Reopened(a, c) \in CaseRecord
    BY <1>1, CaseChangeTypes
  <2>2. /\ case' = [case EXCEPT ![c] = Reopened(a, c)]
        /\ Record(c, Reopened(a, c))
    BY <1>1, <1>5 DEF ReopenCase, TypeOK
  <2>3. case[c] \in CaseRecord /\ case[c] # NoCase /\ case[c].status = "RESOLVED"
    BY <1>1, <1>5 DEF ReopenCase, SeesCase, Cases, TypeOK
  <2>4. /\ Reopened(a, c).version = case[c].version + 1
        /\ Reopened(a, c).status = "OPEN"
    BY <2>3 DEF Reopened, CaseRecord
  <2>5. Reopened(a, c).status = StatusAt(case[c].version + 1)
    BY <1>1, <2>3, <2>4, StatusByVersion, Parity DEF StatusAt
  <2>6. QED
    BY <2>1, <2>2, <2>4, <2>5, <1>3
<1>6. ASSUME NEW a \in Actors, NEW h \in handoffs, ResolveCase(a, h) PROVE Kept
  <2> DEFINE c == h.report.case
  <2>1. c \in CaseIds /\ Resolved(a, c) \in CaseRecord
    BY <1>1, CaseChangeTypes DEF TypeOK
  <2>2. case' = [case EXCEPT ![c] = Resolved(a, c)] /\ Record(c, Resolved(a, c))
    BY <1>1, <1>6, <2>1 DEF ResolveCase, TypeOK
  <2>3. case[c] \in CaseRecord /\ case[c] # NoCase /\ case[c].status = "OPEN"
    BY <1>1, <1>6, <2>1 DEF ResolveCase, ValidReport, SeesCase, Cases, TypeOK
  <2>4. /\ Resolved(a, c).version = case[c].version + 1
        /\ Resolved(a, c).status = "RESOLVED"
    BY <2>3 DEF Resolved, CaseRecord
  <2>5. Resolved(a, c).status = StatusAt(case[c].version + 1)
    BY <1>1, <2>1, <2>3, <2>4, StatusByVersion, Parity DEF StatusAt
  <2> HIDE DEF c
  <2>6. QED
    BY <2>1, <2>2, <2>4, <2>5, <1>3
<1>7. QED
  <2>1. Kept
    BY <1>2, <1>4, <1>5, <1>6, CaseMovesByThree
  <2>2. QED
    BY <1>1, <2>1 DEF HistoryInv

(* The history of a case is never out of step with the case, whoever opens,*)
(* resolves and reopens it, in whatever order.                             *)
THEOREM HistoriesStayIntact == Spec => []CaseHistoryIntact
<1>1. HistoryInv => CaseHistoryIntact
  <2> SUFFICES ASSUME HistoryInv, NEW c \in Cases
               PROVE  /\ Len(caseHistory[c]) = case[c].version
                      /\ caseHistory[c][case[c].version] = case[c]
                      /\ \A i \in DOMAIN caseHistory[c] :
                            /\ caseHistory[c][i].version = i
                            /\ caseHistory[c][i].status = StatusAt(i)
    BY DEF CaseHistoryIntact, StatusAt
  <2>1. TypeOK /\ c \in CaseIds /\ case[c] # NoCase /\ HistoryOf(c)
    BY DEF HistoryInv, Cases
  <2>2. case[c].version \in Nat \ {0}
    BY <2>1, StatusByVersion
  <2>3. QED
    BY <2>1, <2>2 DEF HistoryOf
<1>2. QED
  BY HistoryInit, HistoryStep, <1>1, PTL DEF Spec

-----------------------------------------------------------------------------
(* Who resolved a case *)

(* What IndependentResolution says of entry i of the history of c. *)
ResolvedIndependently(c, i) ==
    /\ i > 1
    /\ caseHistory[c][i].resolvedBy # caseHistory[c][i].openedBy
    /\ \E h \in handoffs :
          /\ h.accepted /\ h.reviewer = caseHistory[c][i].resolvedBy
          /\ h.investigator # caseHistory[c][i].resolvedBy
          /\ h.report.investigator = h.investigator
          /\ h.report.case = c
          /\ h.report.version = h.version /\ h.version = i - 1
          /\ h.report.basis.case = caseHistory[c][i - 1]
          /\ caseHistory[c][i - 1].status = "OPEN"

IndependentIn(c) ==
    \A i \in 1 .. Len(caseHistory[c]) :
        caseHistory[c][i].status = "RESOLVED" => ResolvedIndependently(c, i)

(* Only the investigator who filed a report hands it off, and for the      *)
(* version of the case it was written about.                               *)
HandedOffByAuthor ==
    \A h \in handoffs : /\ h.report.investigator = h.investigator
                         /\ h.report.version = h.version

IndependenceInv ==
    HistoryInv /\ HandedOffByAuthor /\ \A c \in CaseIds : IndependentIn(c)

(* A history whose entries were resolved independently stays so while no   *)
(* accepted handoff is lost.                                               *)
LEMMA IndependenceKept ==
    ASSUME NEW c \in CaseIds, IndependentIn(c), caseHistory'[c] = caseHistory[c],
           \A h \in handoffs : h.accepted => h \in handoffs'
    PROVE  IndependentIn(c)'
  BY DEF IndependentIn, ResolvedIndependently

(* Recording an entry that is open, or resolved by a reviewer who neither  *)
(* opened nor investigated, keeps all entries independent.                 *)
LEMMA IndependenceGrows ==
    ASSUME TypeOK, NEW c \in CaseIds, HistoryOf(c), IndependentIn(c),
           NEW entry \in CaseRecord, Record(c, entry), handoffs' = handoffs,
           entry.status = "RESOLVED" =>
              /\ case[c].version > 0 /\ case[c].status = "OPEN"
              /\ entry.resolvedBy # entry.openedBy
              /\ \E h \in handoffs :
                    /\ h.accepted /\ h.reviewer = entry.resolvedBy
                    /\ h.investigator # entry.resolvedBy
                    /\ h.report.investigator = h.investigator
                    /\ h.report.case = c
                    /\ h.report.version = h.version /\ h.version = case[c].version
                    /\ h.report.basis.case = case[c]
    PROVE  IndependentIn(c)'
<1> DEFINE n == case[c].version
<1>1. /\ n \in Nat /\ caseHistory[c] \in Seq(CaseRecord) /\ Len(caseHistory[c]) = n
      /\ n > 0 => caseHistory[c][n] = case[c]
  BY DEF TypeOK, CaseRecord, HistoryOf
<1>2. caseHistory'[c] = Append(caseHistory[c], entry)
  BY DEF TypeOK, Record
<1>3. /\ Len(caseHistory'[c]) = n + 1 /\ caseHistory'[c][n + 1] = entry
      /\ \A i \in 1 .. n : caseHistory'[c][i] = caseHistory[c][i]
  BY <1>1, <1>2
<1> SUFFICES ASSUME NEW i \in 1 .. n + 1, caseHistory'[c][i].status = "RESOLVED"
             PROVE  ResolvedIndependently(c, i)'
  BY <1>3 DEF IndependentIn
<1>4. CASE i = n + 1
  <2>1. entry.status = "RESOLVED" /\ caseHistory'[c][i] = entry
    BY <1>3, <1>4
  <2>2. n \in 1 .. n /\ i - 1 = n /\ i > 1
    BY <1>1, <1>4, <2>1
  <2>3. caseHistory'[c][i - 1] = case[c]
    BY <1>1, <1>3, <2>2
  <2>4. QED
    BY <2>1, <2>2, <2>3 DEF ResolvedIndependently
<1>5. CASE i \in 1 .. n
  <2>1. ResolvedIndependently(c, i)
    BY <1>1, <1>3, <1>5 DEF IndependentIn
  <2>2. i - 1 \in 1 .. n
    BY <1>1, <1>5, <2>1 DEF ResolvedIndependently
  <2>3. caseHistory'[c][i] = caseHistory[c][i] /\ caseHistory'[c][i - 1] = caseHistory[c][i - 1]
    BY <1>3, <1>5, <2>2
  <2>4. QED
    BY <2>1, <2>3 DEF ResolvedIndependently
<1>6. QED
  BY <1>1, <1>4, <1>5

(* A step that leaves the cases alone drops no accepted handoff, and adds  *)
(* none but the author's.                                                  *)
LEMMA HandoffsByTwo ==
    ASSUME [Next]_vars
    PROVE  \/ UNCHANGED handoffs
           \/ \E a, b \in Actors : \E r \in reports : HandOff(a, r, b)
           \/ \E a \in Actors : \E h \in handoffs : AcceptHandoff(a, h)
<1>1. ASSUME NEW a \in Actors, NEW s \in Scopes, NEW limit \in Limits,
             NEW expires \in Expiries, SetBaseline(a, s, limit, expires)
      PROVE  UNCHANGED handoffs
  BY <1>1 DEF SetBaseline, reviewVars
<1>2. ASSUME NEW a \in Actors, NEW t \in TaskIds, NEW s \in Scopes,
             NEW amount \in Amounts, NEW parents \in SUBSET Tasks,
             RegisterTask(a, t, s, amount, parents)
      PROVE  UNCHANGED handoffs
  BY <1>2 DEF RegisterTask, reviewVars
<1>3. ASSUME NEW a \in Actors, NEW t \in TaskIds,
             \/ \E explicitReview \in BOOLEAN : Evaluate(a, t, explicitReview)
             \/ PrepareReview(a, t)
      PROVE  UNCHANGED handoffs
  BY <1>3 DEF Evaluate, PrepareReview, reviewVars
<1>4. ASSUME NEW a \in Actors, NEW c \in CaseIds,
             \/ \E s \in Scopes, kind \in Kinds : OpenCase(a, c, s, kind)
             \/ ReopenCase(a, c)
             \/ StartInvestigation(a, c)
      PROVE  UNCHANGED handoffs
  BY <1>4 DEF OpenCase, ReopenCase, StartInvestigation, reviewVars
<1>5. ASSUME NEW r \in inflight, FinishInvestigation(r)
      PROVE  UNCHANGED handoffs
  BY <1>5 DEF FinishInvestigation
<1>6. ASSUME NEW a \in Actors, NEW h \in handoffs, ResolveCase(a, h)
      PROVE  UNCHANGED handoffs
  BY <1>6 DEF ResolveCase
<1>7. ASSUME Tick PROVE UNCHANGED handoffs
  BY <1>7 DEF Tick, reviewVars
<1>8. ASSUME NEW newRegistry \in Registries, Restart(newRegistry)
      PROVE  UNCHANGED handoffs
  BY <1>8 DEF Restart, reviewVars
<1>9. ASSUME UNCHANGED vars PROVE UNCHANGED handoffs
  BY <1>9 DEF vars, reviewVars
<1>10. QED
  BY <1>1, <1>2, <1>3, <1>4, <1>5, <1>6, <1>7, <1>8, <1>9 DEF Next

LEMMA HandoffsKept ==
    ASSUME TypeOK, HandedOffByAuthor, [Next]_vars
    PROVE  /\ HandedOffByAuthor'
           /\ \A h \in handoffs : h.accepted => h \in handoffs'
<1>1. ASSUME NEW a \in Actors, NEW b \in Actors, NEW r \in reports, HandOff(a, r, b)
      PROVE  /\ HandedOffByAuthor' /\ handoffs \subseteq handoffs'
  BY <1>1 DEF HandOff, ValidReport, HandedOffByAuthor
<1>2. ASSUME NEW a \in Actors, NEW h \in handoffs, AcceptHandoff(a, h)
      PROVE  /\ HandedOffByAuthor'
             /\ \A k \in handoffs : k.accepted => k \in handoffs'
  <2> DEFINE g == [h EXCEPT !.accepted = TRUE]
  <2>1. h \in [report : reports, version : Nat, reviewer : Actors,
               investigator : Actors, accepted : BOOLEAN]
    BY DEF TypeOK
  <2>2. /\ g.report = h.report /\ g.investigator = h.investigator /\ g.version = h.version
        /\ h.accepted => g = h
    BY <2>1
  <2>3. handoffs' = (handoffs \ {h}) \cup {g}
    BY <1>2 DEF AcceptHandoff
  <2> HIDE DEF g
  <2>4. QED
    BY <2>2, <2>3 DEF HandedOffByAuthor
<1>3. ASSUME UNCHANGED handoffs
      PROVE  HandedOffByAuthor' /\ handoffs \subseteq handoffs'
  BY <1>3 DEF HandedOffByAuthor
<1>4. QED
  BY <1>1, <1>2, <1>3, HandoffsByTwo

LEMMA IndependenceStep == IndependenceInv /\ [Next]_vars => IndependenceInv'
<1> SUFFICES ASSUME IndependenceInv, [Next]_vars PROVE IndependenceInv'
  OBVIOUS
<1>1. /\ HistoryInv /\ HistoryInv' /\ TypeOK /\ HandedOffByAuthor
      /\ \A c \in CaseIds : HistoryOf(c) /\ IndependentIn(c)
  BY HistoryStep DEF IndependenceInv, HistoryInv
<1>2. HandedOffByAuthor' /\ \A h \in handoffs : h.accepted => h \in handoffs'
  BY <1>1, HandoffsKept
<1> DEFINE Kept == \A c \in CaseIds : IndependentIn(c)'
<1>3. ASSUME UNCHANGED <<case, caseHistory>> PROVE Kept
  BY <1>1, <1>2, <1>3, IndependenceKept
<1>4. ASSUME NEW c \in CaseIds, NEW entry, Record(c, entry), IndependentIn(c)'
      PROVE  Kept
  <2>1. \A d \in CaseIds \ {c} : caseHistory'[d] = caseHistory[d]
    BY <1>1, <1>4 DEF Record, TypeOK
  <2>2. \A d \in CaseIds \ {c} : IndependentIn(d)'
    BY <1>1, <1>2, <2>1, IndependenceKept
  <2>3. QED
    BY <1>4, <2>2
<1>5. ASSUME NEW a \in Actors, NEW c \in CaseIds, NEW s \in Scopes, NEW kind \in Kinds,
             OpenCase(a, c, s, kind)
      PROVE  Kept
  <2> DEFINE entry == [version |-> 1, status |-> "OPEN", scope |-> s, kind |-> kind,
                       openedBy |-> a, resolvedBy |-> "NONE"]
  <2>1. Record(c, entry) /\ handoffs' = handoffs
    BY <1>1, <1>5 DEF OpenCase, TypeOK, reviewVars
  <2>2. entry \in CaseRecord /\ entry.status # "RESOLVED"
    BY DEF CaseRecord
  <2> HIDE DEF entry
  <2>3. IndependentIn(c)'
    BY <1>1, <2>1, <2>2, IndependenceGrows
  <2>4. QED
    BY <2>1, <2>3, <1>4
<1>6. ASSUME NEW a \in Actors, NEW c \in CaseIds, ReopenCase(a, c) PROVE Kept
  <2>1. Reopened(a, c) \in CaseRecord
    BY <1>1, CaseChangeTypes
  <2>2. Record(c, Reopened(a, c)) /\ handoffs' = handoffs
    BY <1>1, <1>6 DEF ReopenCase, TypeOK, reviewVars
  <2>3. Reopened(a, c).status # "RESOLVED"
    BY <1>1 DEF Reopened, CaseRecord, TypeOK
  <2>4. IndependentIn(c)'
    BY <1>1, <2>1, <2>2, <2>3, IndependenceGrows
  <2>5. QED
    BY <2>2, <2>4, <1>4
<1>7. ASSUME NEW a \in Actors, NEW h \in handoffs, ResolveCase(a, h) PROVE Kept
  <2> DEFINE c == h.report.case
  <2>1. c \in CaseIds /\ Resolved(a, c) \in CaseRecord /\ case[c] \in CaseRecord
    BY <1>1, CaseChangeTypes DEF TypeOK
  <2>2. Record(c, Resolved(a, c)) /\ handoffs' = handoffs
    BY <1>1, <1>7, <2>1 DEF ResolveCase, TypeOK
  <2>3. /\ h.accepted /\ h.reviewer = a
        /\ a \notin {case[c].openedBy, h.investigator}
        /\ h.report.investigator = h.investigator
        /\ h.report.case = c
        /\ h.report.version = h.version /\ h.version = case[c].version
    BY <1>1, <1>7 DEF ResolveCase, HandedOffByAuthor
  <2>4. case[c].status = "OPEN" /\ h.report.basis.case = case[c]
    <3>1. ValidReport(h.report)
      BY <1>7 DEF ResolveCase
    <3>2. case[c].status = "OPEN" /\ h.report.basis = InvestigationBasis(c)
      BY <3>1 DEF ValidReport
    <3>3. QED
      BY <3>2 DEF InvestigationBasis
  <2>5. case[c].version > 0
    <3>1. case[c] # NoCase
      BY <2>4 DEF NoCase
    <3>2. QED
      BY <1>1, <2>1, <3>1, StatusByVersion
  <2>6. Resolved(a, c).resolvedBy = a /\ Resolved(a, c).openedBy = case[c].openedBy
    BY <2>1 DEF Resolved, CaseRecord
  <2> HIDE DEF c
  <2>7. IndependentIn(c)'
    BY <1>1, <2>1, <2>2, <2>3, <2>4, <2>5, <2>6, IndependenceGrows
  <2>8. QED
    BY <2>1, <2>2, <2>7, <1>4
<1>8. Kept
  BY <1>3, <1>5, <1>6, <1>7, CaseMovesByThree
<1>9. QED
  BY <1>1, <1>2, <1>8 DEF IndependenceInv

LEMMA IndependenceInit == Init => IndependenceInv
<1> SUFFICES ASSUME Init PROVE IndependenceInv
  OBVIOUS
<1>1. handoffs = {} /\ \A c \in CaseIds : caseHistory[c] = <<>>
  BY DEF Init
<1>2. QED
  BY <1>1, HistoryInit DEF IndependenceInv, HandedOffByAuthor, IndependentIn

(* Every resolution ever recorded was made on an accepted handoff, by      *)
(* someone who neither opened that episode nor investigated it.            *)
THEOREM ResolutionsAreIndependent == Spec => []IndependentResolution
<1>1. IndependenceInv => IndependentResolution
  BY DEF IndependenceInv, HistoryInv, HistoryOf, IndependentIn, ResolvedIndependently,
         IndependentResolution
<1>2. QED
  BY <1>1, IndependenceInit, IndependenceStep, PTL DEF Spec
=============================================================================
