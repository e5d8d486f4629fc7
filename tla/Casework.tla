------------------------------ MODULE Casework ------------------------------
(***************************************************************************)
(* The casework of one tenant: spending tasks that depend on one another,  *)
(* owner-attested baselines, risk cases, and the review that clears a case *)
(* (src/src/proofops_casework/service.py and core.py).                     *)
(*                                                                         *)
(* Every command of CaseworkService runs inside CaseworkService._mutate:   *)
(* under the tenant's lock it loads the workspace, checks, changes it and  *)
(* saves it.  Here one command is one atomic action; module WorkspaceStore *)
(* justifies that (locking, revisions, idempotency, crashes).  The         *)
(* exception is investigate, which reads the workspace, lets the lock go,  *)
(* and commits later: it is two actions.                                   *)
(*                                                                         *)
(* A digest is modelled by the value it digests: equal digests, equal      *)
(* values.  Superseded decisions are kept by the code only for replay and  *)
(* auditing, so a task here carries its current decision alone.  The       *)
(* deployment modelled has no evidence desk and no model planner.          *)
(***************************************************************************)
EXTENDS Integers, FiniteSets, FiniteSetsExt, Sequences, TaskGraph

CONSTANTS
    TaskIds,      \* identities tasks can be registered under
    CaseIds,      \* identities cases can be opened under
    Actors,       \* identities in the credential registry
    Scopes,       \* what a task spends on: (subject, chain, target, method)
    Subjects,     \* whom the spending is for
    SubjectOf,    \* SubjectOf[s]: the subject of scope s
    Kinds,        \* kinds of risk: dispute, revocation
    Amounts,      \* amounts a task asks for
    Limits,       \* limits a baseline grants
    Registries,   \* credential registries a process can be started with
    NoScope       \* the scope of a task not registered yet

CONSTANTS
    ReadyTTL,     \* default life of a decision (10 minutes), in ticks
    LockWait,     \* how stale the clock read of set_baseline may be at commit
    Expiries,     \* expiry times an owner gives a baseline
    MaxTime,      \* bound on the clock
    MaxBaselines, \* bound on the versions of a baseline
    MaxEpisodes,  \* bound on the versions of a case
    MaxDecisions, \* bound on the decisions of a task
    MaxReports,   \* bound on the reports, filed or in preparation
    MaxReviews    \* bound on the review artifacts

Roles     == {"owner", "investigator", "reviewer", "viewer"}
Operators == {"owner", "investigator"}
Verdicts  == {"READY", "DENY", "NEEDS_HUMAN"}

ASSUME ScopeAssumption ==
    /\ SubjectOf \in [Scopes -> Subjects]
    /\ NoScope \notin Scopes
ASSUME RegistryAssumption ==
    Registries \subseteq [Actors -> [role : Roles, subjects : SUBSET Subjects]]
ASSUME NumberAssumption ==
    /\ Amounts \subseteq Nat /\ Limits \subseteq Nat /\ Expiries \subseteq Nat
    /\ ReadyTTL \in Nat \ {0}
    /\ {LockWait, MaxTime, MaxBaselines, MaxEpisodes, MaxDecisions, MaxReports,
        MaxReviews} \subseteq Nat

VARIABLES
    now,         \* the clock
    registry,    \* the registry of the running process
    task,        \* task[t]: what was asked for; never changes once registered
    taints,      \* taints[t]: events t must be reconsidered for
    status,      \* status[t]
    decision,    \* decision[t]: the current decision
    baseline,    \* baseline[s]: version 0 when the owner has set none
    case,        \* case[c]: version 0 when c is not opened
    caseHistory, \* caseHistory[c]: one entry per version of c
    reports,     \* reports filed
    handoffs,    \* reports handed to a reviewer
    lessons,     \* what past resolutions taught
    reviews,     \* review artifacts prepared, each with the decision it names
    inflight     \* investigations that have read the workspace, not yet filed

standingVars == <<taints, status, decision>>
reviewVars   == <<reports, handoffs, lessons>>
vars == <<now, registry, task, standingVars, baseline, case, caseHistory,
          reviewVars, reviews, inflight>>

NoTask     == [scope |-> NoScope, amount |-> 0, dependsOn |-> {}]
NoDecision == [id |-> 0, verdict |-> "NONE", basis |-> "NONE", expires |-> 0]
NoBaseline == [version |-> 0, limit |-> 0, expires |-> 0]
NoCase     == [version |-> 0, status |-> "NONE", scope |-> NoScope,
               kind |-> "NONE", openedBy |-> "NONE", resolvedBy |-> "NONE"]

Tasks == {t \in TaskIds : task[t] # NoTask}
Cases == {c \in CaseIds : case[c] # NoCase}

-----------------------------------------------------------------------------
(* What the rules read.  T is the task table: the one stored, or the one   *)
(* being built by register_task.                                           *)

Deps(T)             == [x \in TaskIds |-> T[x].dependsOn]
Closure(T, t)       == Ancestors(Deps(T), t)
ClosureScopes(T, t) == {T[x].scope : x \in Closure(T, t)}

(* [mutant] the tasks of the scope alone *)
Affected_OwnScope(T, s) == {x \in TaskIds : T[x].scope = s}

Affected(T, s)      == Dependents(Deps(T), {x \in TaskIds : T[x].scope = s})

(* Everything a decision about t rests on, except t's own decision and     *)
(* status.                                                                 *)
TaskBasis(T, t) ==
    [tasks |-> [x \in Closure(T, t) |->
                  [asked |-> T[x],
                   parentDecision |-> IF x = t THEN 0 ELSE decision[x].id,
                   parentStatus |-> IF x = t THEN "OWN" ELSE status[x]]],
     baselines |-> [s \in {s \in ClosureScopes(T, t) : s # NoScope} |-> baseline[s]],
     cases |-> [c \in {c \in Cases : case[c].scope \in ClosureScopes(T, t)} |->
                  case[c]]]

ActivePrecedents(c) ==
    {l \in lessons :
        /\ l.case # c
        /\ case[l.case].status = "RESOLVED"
        /\ case[l.case].version = l.version
        /\ l.scope = case[c].scope
        /\ l.kind = case[c].kind}

InvestigationBasis(c) ==
    [case |-> case[c],
     affected |-> [t \in Affected(task, case[c].scope) |-> TaskBasis(task, t)],
     precedents |-> ActivePrecedents(c)]

-----------------------------------------------------------------------------
(* core.policy_result, a rule at a time. *)

Blockers(T, C, t) ==
    {c \in CaseIds : C[c].status = "OPEN" /\ C[c].scope \in ClosureScopes(T, t)}

WithinBaseline(T, x) ==
    LET b == baseline[T[x].scope]
    IN  b.version > 0 /\ b.expires > now /\ T[x].amount <= b.limit

AncestorCleared(T, x) ==
    /\ status[x] = "READY"
    /\ taints[x] = {}
    /\ decision[x].verdict = "READY"
    /\ decision[x].expires > now
    /\ decision[x].basis = TaskBasis(T, x)

(* [mutant] a reason code returned in the verdict's place *)
PolicyResult_ReasonFirst(T, t, explicitReview) ==
    IF Blockers(T, case, t) # {} THEN "OPEN_RISK_RECALLED" ELSE "NEEDS_HUMAN"

PolicyResult(T, t, explicitReview) ==
    IF Blockers(T, case, t) # {} THEN "DENY"
    ELSE IF /\ \A x \in Closure(T, t) : WithinBaseline(T, x)
            /\ \A x \in Closure(T, t) \ {t} : AncestorCleared(T, x)
            /\ taints[t] = {} \/ explicitReview
         THEN "READY"
         ELSE "NEEDS_HUMAN"

(* [mutant] the child's own life alone *)
ReadyExpiry_OwnLife(T, t) == now + ReadyTTL

(* A READY decision expires no later than anything it rests on. *)
ReadyExpiry(T, t) ==
    Min({now + ReadyTTL}
          \cup {baseline[s].expires : s \in ClosureScopes(T, t)}
          \cup {decision[x].expires : x \in Closure(T, t) \ {t}})

(* decision_validity and prepare_review ask the same question. *)
Preparable(t) ==
    /\ status[t] = "READY"
    /\ decision[t].verdict = "READY"
    /\ PolicyResult(task, t, FALSE) = "READY"
    /\ decision[t].expires > now
    /\ decision[t].basis = TaskBasis(task, t)

-----------------------------------------------------------------------------
(* Who may do what. *)

HasRole(a, roles)  == registry[a].role \in roles
Sees(a, s)         == SubjectOf[s] \in registry[a].subjects
SeesTask(a, t)     == t \in Tasks /\ Sees(a, task[t].scope)
SeesCase(a, c)     == c \in Cases /\ Sees(a, case[c].scope)

-----------------------------------------------------------------------------
Init ==
    /\ now = 0
    /\ registry \in Registries
    /\ task = [t \in TaskIds |-> NoTask]
    /\ taints = [t \in TaskIds |-> {}]
    /\ status = [t \in TaskIds |-> "NEEDS_HUMAN"]
    /\ decision = [t \in TaskIds |-> NoDecision]
    /\ baseline = [s \in Scopes |-> NoBaseline]
    /\ case = [c \in CaseIds |-> NoCase]
    /\ caseHistory = [c \in CaseIds |-> <<>>]
    /\ reports = {} /\ handoffs = {} /\ lessons = {}
    /\ reviews = {} /\ inflight = {}

(* [mutant] taint without suspending *)
Invalidate_TaintOnly(s, token) ==
    /\ taints' = [t \in TaskIds |-> IF t \in Affected(task, s)
                                    THEN taints[t] \cup {token} ELSE taints[t]]
    /\ UNCHANGED status

(* _invalidate: suspend everything the event can reach. *)
Invalidate(s, token) ==
    /\ taints' = [t \in TaskIds |-> IF t \in Affected(task, s)
                                    THEN taints[t] \cup {token} ELSE taints[t]]
    /\ status' = [t \in TaskIds |-> IF t \in Affected(task, s)
                                    THEN "SUSPENDED" ELSE status[t]]

(* expires_at is compared with the clock before the lock is waited for. *)
SetBaseline(a, s, limit, expires) ==
    /\ HasRole(a, {"owner"}) /\ Sees(a, s)
    /\ expires + LockWait > now
    /\ baseline[s].version < MaxBaselines
    /\ baseline' = [baseline EXCEPT ![s] =
                      [version |-> @.version + 1, limit |-> limit, expires |-> expires]]
    /\ Invalidate(s, [kind |-> "baseline", of |-> s, version |-> baseline'[s].version])
    /\ UNCHANGED <<now, registry, task, decision, case, caseHistory, reviewVars,
                   reviews, inflight>>

(* [mutant] any explicit review forgets the taints, READY or not *)
TaintsAfter_AnyReview(T, t, explicitReview, verdict) ==
    IF explicitReview THEN {} ELSE taints[t]

(* Only an explicit review that ends READY forgets what the task was       *)
(* tainted with; open cases that block it are added.                       *)
TaintsAfter(T, t, explicitReview, verdict) ==
    IF explicitReview /\ verdict = "READY" THEN {}
    ELSE taints[t] \cup {[kind |-> "case", of |-> c, version |-> case[c].version]
                            : c \in Blockers(T, case, t)}

(* _decision: judge t in task table T and make the result t's standing. *)
Decide(T, t, explicitReview) ==
    LET verdict == PolicyResult(T, t, explicitReview)
    IN  /\ decision[t].id < MaxDecisions
        /\ decision' = [decision EXCEPT ![t] =
             [id      |-> @.id + 1,
              verdict |-> verdict,
              basis   |-> TaskBasis(T, t),
              expires |-> IF verdict = "READY" THEN ReadyExpiry(T, t)
                                               ELSE now + ReadyTTL]]
        /\ status' = [status EXCEPT ![t] = verdict]
        /\ taints' = [taints EXCEPT ![t] = TaintsAfter(T, t, explicitReview, verdict)]

(* [mutant] the parent's subject is not compared *)
MayDependOn_AnySubject(a, p, s) == SeesTask(a, p)

MayDependOn(a, p, s) == SeesTask(a, p) /\ SubjectOf[task[p].scope] = SubjectOf[s]

RegisterTask(a, t, s, amount, parents) ==
    /\ HasRole(a, Operators) /\ Sees(a, s)
    /\ t \notin Tasks
    /\ \A p \in parents : MayDependOn(a, p, s)
    /\ task' = [task EXCEPT ![t] =
                  [scope |-> s, amount |-> amount, dependsOn |-> parents]]
    /\ Decide(task', t, FALSE)
    /\ UNCHANGED <<now, registry, baseline, case, caseHistory, reviewVars,
                   reviews, inflight>>

(* task.evaluate; the reviewer's task.reconsider has explicitReview TRUE. *)
Evaluate(a, t, explicitReview) ==
    /\ HasRole(a, IF explicitReview THEN {"reviewer"} ELSE Operators \cup {"reviewer"})
    /\ SeesTask(a, t)
    /\ Decide(task, t, explicitReview)
    /\ UNCHANGED <<now, registry, task, baseline, case, caseHistory, reviewVars,
                   reviews, inflight>>

(* [mutant] the new version overwrites the last entry *)
Record_Overwrite(c, entry) ==
    caseHistory' = [caseHistory EXCEPT ![c] =
                      IF @ = <<>> THEN <<entry>> ELSE [@ EXCEPT ![Len(@)] = entry]]

(* Each change of a case is copied to its history. *)
Record(c, entry) == caseHistory' = [caseHistory EXCEPT ![c] = Append(@, entry)]

OpenCase(a, c, s, kind) ==
    /\ HasRole(a, Operators) /\ Sees(a, s)
    /\ c \notin Cases
    /\ case' = [case EXCEPT ![c] =
                  [version |-> 1, status |-> "OPEN", scope |-> s, kind |-> kind,
                   openedBy |-> a, resolvedBy |-> "NONE"]]
    /\ Record(c, case'[c])
    /\ Invalidate(s, [kind |-> "case", of |-> c, version |-> 1])
    /\ UNCHANGED <<now, registry, task, decision, baseline, reviewVars, reviews,
                   inflight>>

(* [mutant] reopening puts the last open version back *)
Reopened_Undo(a, c) == caseHistory[c][case[c].version - 1]

Reopened(a, c) == [case[c] EXCEPT !.status = "OPEN", !.version = @ + 1,
                                  !.openedBy = a, !.resolvedBy = "NONE"]

ReopenCase(a, c) ==
    /\ HasRole(a, Operators) /\ SeesCase(a, c)
    /\ case[c].status = "RESOLVED" /\ case[c].version < MaxEpisodes
    /\ case' = [case EXCEPT ![c] = Reopened(a, c)]
    /\ Record(c, case'[c])
    /\ Invalidate(case[c].scope, [kind |-> "case", of |-> c, version |-> case'[c].version])
    /\ UNCHANGED <<now, registry, task, decision, baseline, reviewVars, reviews,
                   inflight>>

-----------------------------------------------------------------------------
(* Investigation and review of a case. *)

(* investigate, first half: read the case and its basis, let the lock go. *)
StartInvestigation(a, c) ==
    /\ HasRole(a, {"investigator"}) /\ SeesCase(a, c)
    /\ case[c].status = "OPEN"
    /\ Cardinality(reports) + Cardinality(inflight) < MaxReports
    /\ inflight' = inflight \cup
         {[case |-> c, version |-> case[c].version, investigator |-> a,
           basis |-> InvestigationBasis(c)]}
    /\ UNCHANGED <<now, registry, task, standingVars, baseline, case, caseHistory,
                   reviewVars, reviews>>

(* investigate, second half: file the report if nothing it rests on moved, *)
(* else STALE_INVESTIGATION.                                               *)
FinishInvestigation(r) ==
    /\ inflight' = inflight \ {r}
    /\ reports' = IF InvestigationBasis(r.case) = r.basis THEN reports \cup {r} ELSE reports
    /\ UNCHANGED <<now, registry, task, standingVars, baseline, case, caseHistory,
                   handoffs, lessons, reviews>>

(* [mutant] any report of the open case will do *)
ValidReport_AnyVersion(r) == r \in reports /\ case[r.case].status = "OPEN"

(* _valid_report *)
ValidReport(r) ==
    /\ r \in reports
    /\ r.version = case[r.case].version
    /\ case[r.case].status = "OPEN"
    /\ r.basis = InvestigationBasis(r.case)

HandOff(a, r, reviewer) ==
    /\ HasRole(a, {"investigator"}) /\ SeesCase(a, r.case)
    /\ ValidReport(r)
    /\ HasRole(reviewer, {"reviewer"}) /\ Sees(reviewer, case[r.case].scope)
    /\ reviewer \notin {a, case[r.case].openedBy}
    /\ r.investigator = a
    /\ handoffs' = handoffs \cup
         {[report |-> r, version |-> case[r.case].version, reviewer |-> reviewer,
           investigator |-> a, accepted |-> FALSE]}
    /\ UNCHANGED <<now, registry, task, standingVars, baseline, case, caseHistory,
                   reports, lessons, reviews, inflight>>

AcceptHandoff(a, h) ==
    /\ HasRole(a, {"reviewer"}) /\ h.reviewer = a /\ SeesCase(a, h.report.case)
    /\ ValidReport(h.report)
    /\ h.version = case[h.report.case].version
    /\ handoffs' = (handoffs \ {h}) \cup {[h EXCEPT !.accepted = TRUE]}
    /\ UNCHANGED <<now, registry, task, standingVars, baseline, case, caseHistory,
                   reports, lessons, reviews, inflight>>

Resolved(a, c) == [case[c] EXCEPT !.status = "RESOLVED", !.version = @ + 1,
                                  !.resolvedBy = a]

(* Resolving a case taints what it had suspended and revives nothing. *)
ResolveCase(a, h) ==
    LET c        == h.report.case
        resolved == [case EXCEPT ![c] = Resolved(a, c)]
        impacted == Affected(task, case[c].scope)
        token    == [kind |-> "resolution", of |-> c, version |-> resolved[c].version]
    IN  /\ HasRole(a, {"reviewer"}) /\ SeesCase(a, c)
        /\ h.accepted /\ h.reviewer = a
        /\ a \notin {case[c].openedBy, h.investigator}
        /\ ValidReport(h.report)
        /\ h.version = case[c].version
        /\ case' = resolved
        /\ Record(c, resolved[c])
        /\ taints' = [t \in TaskIds |-> IF t \in impacted THEN taints[t] \cup {token}
                                                          ELSE taints[t]]
        /\ status' = [t \in TaskIds |->
             IF t \notin impacted THEN status[t]
             ELSE IF Blockers(task, resolved, t) # {} THEN "DENY" ELSE "NEEDS_HUMAN"]
        /\ lessons' = lessons \cup
             {[case |-> c, version |-> resolved[c].version, scope |-> case[c].scope,
               kind |-> case[c].kind]}
        /\ UNCHANGED <<now, registry, task, decision, baseline, reports, handoffs,
                       reviews, inflight>>

PrepareReview(a, t) ==
    /\ HasRole(a, Operators \cup {"reviewer"}) /\ SeesTask(a, t)
    /\ Preparable(t)
    /\ Cardinality(reviews) < MaxReviews
    /\ reviews' = reviews \cup {[task |-> t, decision |-> decision[t]]}
    /\ UNCHANGED <<now, registry, task, standingVars, baseline, case, caseHistory,
                   reviewVars, inflight>>

-----------------------------------------------------------------------------
Tick ==
    /\ now < MaxTime
    /\ now' = now + 1
    /\ UNCHANGED <<registry, task, standingVars, baseline, case, caseHistory,
                   reviewVars, reviews, inflight>>

(* A process start reads the registry anew; work in memory is gone. *)
Restart(newRegistry) ==
    /\ registry' = newRegistry
    /\ inflight' = {}
    /\ UNCHANGED <<now, task, standingVars, baseline, case, caseHistory, reviewVars,
                   reviews>>

Next ==
    \/ \E a \in Actors, s \in Scopes :
          \/ \E limit \in Limits, expires \in Expiries : SetBaseline(a, s, limit, expires)
          \/ \E t \in TaskIds, amount \in Amounts, parents \in SUBSET Tasks :
                RegisterTask(a, t, s, amount, parents)
          \/ \E c \in CaseIds, kind \in Kinds : OpenCase(a, c, s, kind)
    \/ \E a \in Actors, t \in TaskIds :
          \/ \E explicitReview \in BOOLEAN : Evaluate(a, t, explicitReview)
          \/ PrepareReview(a, t)
    \/ \E a \in Actors, c \in CaseIds : ReopenCase(a, c) \/ StartInvestigation(a, c)
    \/ \E r \in inflight : FinishInvestigation(r)
    \/ \E a, b \in Actors : \E r \in reports : HandOff(a, r, b)
    \/ \E a \in Actors : \E h \in handoffs : AcceptHandoff(a, h) \/ ResolveCase(a, h)
    \/ Tick
    \/ \E newRegistry \in Registries : Restart(newRegistry)

Spec == Init /\ [][Next]_vars

-----------------------------------------------------------------------------
(* Properties *)

Taint == [kind : {"baseline", "case", "resolution"}, of : Scopes \cup CaseIds,
          version : Nat]

CaseRecord == [version : Nat, status : {"NONE", "OPEN", "RESOLVED"},
               scope : Scopes \cup {NoScope}, kind : Kinds \cup {"NONE"},
               openedBy : Actors \cup {"NONE"}, resolvedBy : Actors \cup {"NONE"}]

(* Every field of the workspace holds a value the code can put there. *)
TypeOK ==
    /\ now \in Nat
    /\ registry \in Registries
    /\ task \in [TaskIds -> [scope : Scopes \cup {NoScope}, amount : Nat,
                             dependsOn : SUBSET TaskIds]]
    /\ taints \in [TaskIds -> SUBSET Taint]
    /\ status \in [TaskIds -> Verdicts \cup {"SUSPENDED"}]
    /\ DOMAIN decision = TaskIds
    /\ \A t \in TaskIds : /\ decision[t].id \in Nat
                          /\ decision[t].verdict \in Verdicts \cup {"NONE"}
    /\ baseline \in [Scopes -> [version : Nat, limit : Nat, expires : Nat]]
    /\ case \in [CaseIds -> CaseRecord]
    /\ DOMAIN caseHistory = CaseIds
    /\ \A r \in reports \cup inflight : r.case \in CaseIds /\ r.investigator \in Actors
    /\ handoffs \subseteq [report : reports, version : Nat, reviewer : Actors,
                             investigator : Actors, accepted : BOOLEAN]

(* No task stands READY while a risk case is open anywhere in the scopes   *)
(* it depends on, however far up: opening or reopening a case must reach   *)
(* every dependent (affected_tasks), and every path to READY must look     *)
(* at every ancestor (ancestors); the two walks go in opposite directions. *)
ReadyNoOpenRisk ==
    \A t \in Tasks : status[t] = "READY" => Blockers(task, case, t) = {}

(* A READY task carries no unreviewed event, and every amount it and its   *)
(* ancestors ask for is within the limit currently granted: tightening a   *)
(* baseline withdraws every READY that relied on the old one.              *)
ReadyWithinLimits ==
    \A t \in Tasks : status[t] = "READY" =>
        /\ taints[t] = {}
        /\ \A x \in Closure(task, t) :
              /\ baseline[task[x].scope].version > 0
              /\ task[x].amount <= baseline[task[x].scope].limit

(* A READY decision that is unexpired and whose basis digest is still      *)
(* current passes the whole policy again, for the task and each of its     *)
(* ancestors: nothing policy_result reads is missing from task_basis, and  *)
(* no clock it reads can run out before the decision's own expiry.         *)
FreshProofIsLive ==
    \A t \in Tasks :
        /\ status[t] = "READY"
        /\ decision[t].expires > now
        /\ decision[t].basis = TaskBasis(task, t)
        => \A x \in Closure(task, t) : Preparable(x)

(* Once what a decision rested on has changed, no later sequence of        *)
(* commands makes the same decision current again: versions and decision   *)
(* identities never return to an old value.                                *)
StaleStaysStale ==
    [][\A t \in Tasks :
          /\ decision[t].basis # TaskBasis(task, t)
          /\ decision'[t].id = decision[t].id
          => decision'[t].basis # TaskBasis(task, t)']_vars

(* The events a task must be reconsidered for are forgotten only all at    *)
(* once, by a new READY decision taken while no case is open in its        *)
(* closure, every ancestor could itself go to review, and a reviewer who   *)
(* sees the task is registered.                                            *)
TaintsClearedOnlyByCleanReview ==
    [][\A t \in TaskIds :
          ~ (taints[t] \subseteq taints'[t])
          => /\ taints'[t] = {} /\ status'[t] = "READY"
             /\ decision'[t].id > decision[t].id
             /\ Blockers(task, case, t) = {}
             /\ \A x \in Closure(task, t) \ {t} : Preparable(x)
             /\ \E a \in Actors : HasRole(a, {"reviewer"}) /\ SeesTask(a, t)]_vars

(* A command changes the standing of one subject's tasks at most: no       *)
(* dependency chain ever leads an event of one subject into another's.     *)
OneSubjectPerStep ==
    [][\A t, u \in TaskIds :
          /\ <<taints[t], status[t]>> # <<taints'[t], status'[t]>>
          /\ <<taints[u], status[u]>> # <<taints'[u], status'[u]>>
          => SubjectOf[task'[t].scope] = SubjectOf[task'[u].scope]]_vars

(* Every resolution in a case's history was made by someone who did not    *)
(* open that episode and did not investigate it, on an accepted handoff of *)
(* a report about exactly the case version that was resolved; this holds   *)
(* for good, whatever roles people are given at later restarts.            *)
IndependentResolution ==
    \A c \in CaseIds : \A i \in DOMAIN caseHistory[c] :
        LET entry == caseHistory[c][i] IN
        entry.status = "RESOLVED" =>
            /\ i > 1
            /\ entry.resolvedBy # entry.openedBy
            /\ \E h \in handoffs :
                  /\ h.accepted /\ h.reviewer = entry.resolvedBy
                  /\ h.investigator # entry.resolvedBy
                  /\ h.report.investigator = h.investigator
                  /\ h.report.case = c
                  /\ h.report.version = h.version /\ h.version = i - 1
                  /\ h.report.basis.case = caseHistory[c][i - 1]
                  /\ caseHistory[c][i - 1].status = "OPEN"

(* Whatever a task's review artifact rests on, every case that was ever    *)
(* opened by then in the scopes the task depends on had been cleared, and  *)
(* by someone who neither raised nor investigated it: what the reviewed    *)
(* decision's basis says of the case is an entry of its history, a         *)
(* resolution made on an accepted handoff.  It holds for good, through     *)
(* reopenings and changes of role that come later.                         *)
ReviewedRisksCleared ==
    \A r \in reviews : \A c \in DOMAIN r.decision.basis.cases :
        LET seen == r.decision.basis.cases[c] IN
            /\ seen.status = "RESOLVED"
            /\ seen.version \in DOMAIN caseHistory[c] /\ caseHistory[c][seen.version] = seen
            /\ \E h \in handoffs :
                  /\ h.accepted /\ h.report.case = c
                  /\ h.version = seen.version - 1 /\ h.report.version = h.version
                  /\ h.reviewer = seen.resolvedBy
                  /\ seen.resolvedBy \notin {seen.openedBy, h.report.investigator}

(* A report that still counts is guided only by lessons whose own case is  *)
(* resolved and has not moved since: reopening that other case withdraws   *)
(* the guidance, and with it the report.                                   *)
PrecedentsCurrent ==
    \A r \in reports : ValidReport(r) =>
        \A l \in r.basis.precedents :
            /\ l.case # r.case
            /\ case[l.case].version = l.version /\ case[l.case].status = "RESOLVED"

(* The case's history is never out of step with the case: every version    *)
(* is recorded once, in order, ending in the current one, alternately open *)
(* and resolved.  Otherwise validate_workspace would refuse the whole      *)
(* workspace from then on (CASE_HISTORY_INTEGRITY_FAILED).                 *)
CaseHistoryIntact ==
    \A c \in Cases :
        /\ Len(caseHistory[c]) = case[c].version
        /\ caseHistory[c][case[c].version] = case[c]
        /\ \A i \in DOMAIN caseHistory[c] :
              /\ caseHistory[c][i].version = i
              /\ caseHistory[c][i].status = IF i % 2 = 1 THEN "OPEN" ELSE "RESOLVED"
=============================================================================
