---------------------------- MODULE EvidenceDesk ----------------------------
(***************************************************************************)
(* The evidence desk of one case (src/src/proofops_casework/               *)
(* source_service.py, source_guard.py, source_state.py) with the           *)
(* investigations and missions that rest on it.                            *)
(*                                                                         *)
(* While a source or the planner is asked, and between any two            *)
(* transactions, others work (Calls).  A refused attempt changes nothing   *)
(* and ends the caller's call.                                             *)
(***************************************************************************)
EXTENDS Calls, Sequences, FiniteSets, FiniteSetsExt

CONSTANTS
    Sources,
    Groups,          \* independence groups; a source's specification is its group
    Keys,            \* idempotency keys of collect commands, mission steps included
    Command,         \* Command[k]: [source, resource, force]
    Missions,        \* idempotency keys of missions
    Steps,           \* Steps[m]: the keys of m's steps, in order
    Investigations,  \* keys of investigations, those of missions included
    Facts,           \* what a source may say
    Configs,         \* Nothing (no desk) or [specs, policy]
    TTL,             \* life of a receipt
    Budget,          \* max_attempts_per_case
    FinishTries,     \* attempts to record a finished read (4 in the code)
    MaxTime, MaxVersion, MaxRestarts    \* bounds of the model

(* What a SOURCE_HEAD artifact can say. *)
SourceHead ==
    [version : Nat, request : Keys, state : {"PENDING", "OBSERVED", "FAILED", "STALE"}]

ASSUME DeskConstants ==
    /\ {TTL, Budget, FinishTries} \subseteq Nat \ {0}
    /\ {MaxTime, MaxRestarts} \subseteq Nat /\ MaxVersion \in Nat \ {0}
    /\ IsFiniteSet(Keys)
    /\ Missions \subseteq Investigations /\ Keys \cap Investigations = {}
    /\ Nothing \notin Keys \cup Missions \cup SourceHead
    /\ \A k \in Keys : Command[k].source \in Sources
    /\ \A m \in Missions : Steps[m] \in Seq(Keys) /\ Steps[m] # << >>
    /\ \A c \in Configs \ {Nothing} : c.policy # Nothing =>
           c.policy.required # {} /\ c.policy.groups \in Nat \ {0}

VARIABLES
    config,     \* the connectors' configuration of the running server
    case,       \* [version, open]
    guard,      \* the SOURCE_POLICY_GUARD artifact
    requests,   \* requests[k]: NoRequest, a SOURCE_REQUEST and its receipt, or a cache hit
    heads,      \* heads[s]: the SOURCE_HEAD artifact
    attempts,   \* attempts[i]: INVESTIGATION_ATTEMPT
    reports,    \* reports[i]: a report, its evidence bundle, its handoff
    plans,      \* plans[m]: EVIDENCE_MISSION
    restarts,
    asked,      \* history: how often a key's source, or planner, was asked
    newest,     \* history: the last request reserved for each source
    demanded    \* history: the most any report, plan or read has demanded

caseVars == <<case, guard, demanded>>
readVars == <<requests, heads, newest>>
reportVars == <<attempts, reports, plans>>
serverVars == <<clock, config, restarts>>
deskVars == <<config, restarts, caseVars, readVars, reportVars, asked>>
vars == <<clock, call, fresh, deskVars>>

Largest(S) == Max(S \cup {0})
SourceOf(k) == Command[k].source
SpecOf(s) == IF config = Nothing THEN Nothing ELSE config.specs[s]
Policy == IF config = Nothing THEN Nothing ELSE config.policy
Requested == {k \in Keys : requests[k].state \notin {"NONE", "CACHE_HIT"}}

(* A report that is not filed, and a report on no external evidence. *)
NoReport == [handed |-> FALSE]
NoBundle == [version |-> 0]

Filed == {i \in Investigations : reports[i] # NoReport}
Bundles == {reports[i].bundle : i \in Filed} \ {NoBundle}

-----------------------------------------------------------------------------
(* What the case owes. *)

(* [mutant] what reports rested on is not read back *)
Obligations_GuardOnly ==
    [required |-> guard.required, groups |-> guard.groups, configured |-> guard.configured]

Obligations ==
    [required |-> guard.required \cup {SourceOf(k) : k \in Requested}
                    \cup UNION {b.floor.required : b \in Bundles},
     groups |-> Largest({guard.groups} \cup {b.floor.groups : b \in Bundles}),
     configured |-> guard.configured \/ \E b \in Bundles : b.floor.configured]

HasObligations == Obligations.required # {} \/ Obligations.configured

(* effective_policy raises: a configured policy was removed or weakened. *)
PolicyStands ==
    /\ Obligations.configured => Policy # Nothing
    /\ guard.configured /\ Policy # Nothing =>
           guard.named \subseteq Policy.required /\ Policy.groups >= guard.groups

(* [mutant] the configuration alone says what a case owes *)
Floor_AsConfigured ==
    [required |-> IF Policy = Nothing THEN {} ELSE Policy.required,
     groups |-> IF Policy = Nothing THEN 0 ELSE Policy.groups,
     configured |-> Policy # Nothing]

Floor ==
    LET owed == Obligations
    IN  IF Policy = Nothing THEN owed
        ELSE [required |-> owed.required \cup Policy.required,
              groups |-> Largest({owed.groups, Policy.groups}),
              configured |-> TRUE]

Demand(floor) ==
    demanded' = [required |-> demanded.required \cup floor.required,
                 groups |-> Largest({demanded.groups, floor.groups})]

RememberPolicy(used) ==
    LET required == Floor.required \cup used IN
    /\ guard' = [required |-> required, groups |-> Floor.groups, configured |-> Floor.configured,
                 named |-> guard.named \cup IF Policy = Nothing THEN {} ELSE Policy.required]
    /\ Demand([required |-> required, groups |-> Floor.groups])

-----------------------------------------------------------------------------
(* What the case has. *)

Heads == {s \in Sources : heads[s] # Nothing /\ heads[s].version = case.version}

(* A head's receipt is accepted: observed, under this source's present     *)
(* specification, and not expired.                                         *)
Usable(s) ==
    LET r == requests[heads[s].request] IN
    /\ heads[s].state = "OBSERVED"
    /\ r.state = "OBSERVED" /\ r.version = case.version
    /\ SpecOf(s) # Nothing /\ r.spec = SpecOf(s)
    /\ r.fetched + TTL > clock

Accepted == {heads[s].request : s \in {t \in Heads : Usable(t)}}
Got == {SourceOf(k) : k \in Accepted}

Conflicting ==
    {k \in Accepted : \E j \in Accepted :
        Command[j].resource = Command[k].resource /\ requests[j].facts # requests[k].facts}

(* The evidence bundle; its digest covers all of this. *)
Context == [version |-> case.version, policy |-> Policy, floor |-> Floor,
            receipts |-> Accepted, rejected |-> Heads \ Got]

Covered ==
    LET relevant == IF Floor.required = {} THEN Accepted
                    ELSE {k \in Accepted : SourceOf(k) \in Floor.required}
    IN  /\ Heads \subseteq Got
        /\ Conflicting = {}
        /\ Floor.required \subseteq Got
        /\ Cardinality({requests[k].spec : k \in relevant}) >= Floor.groups

(* report_context is None in a scope without policy, history or desk. *)
External == config # Nothing /\ (Policy # Nothing \/ HasObligations)

(* require_desk, and effective_policy where evidence counts *)
DeskAnswers == IF config = Nothing THEN ~HasObligations ELSE External => PolicyStands

Basis == [version |-> case.version, open |-> case.open, heads |-> [s \in Heads |-> heads[s]]]

ValidReport(i) ==
    /\ case.open
    /\ reports[i].basis = Basis
    /\ DeskAnswers
    /\ config = Nothing => reports[i].bundle = NoBundle
    /\ External => Covered /\ reports[i].bundle = Context

-----------------------------------------------------------------------------
NoRequest == [state |-> "NONE"]
NoGuard == [required |-> {}, groups |-> 0, configured |-> FALSE, named |-> {}]

(* The case has just been opened by a server with this configuration. *)
Init ==
    /\ CallsInit
    /\ restarts = 0
    /\ config \in Configs
    /\ case = [version |-> 1, open |-> TRUE]
    /\ guard = IF Policy = Nothing THEN NoGuard
               ELSE [required |-> Policy.required, groups |-> Policy.groups,
                     configured |-> TRUE, named |-> Policy.required]
    /\ demanded = [required |-> guard.required, groups |-> guard.groups]
    /\ requests = [k \in Keys |-> NoRequest]
    /\ heads = [s \in Sources |-> Nothing]
    /\ newest = [s \in Sources |-> Nothing]
    /\ attempts = [i \in Investigations |-> "NONE"]
    /\ reports = [i \in Investigations |-> NoReport]
    /\ plans = [m \in Missions |-> Nothing]
    /\ asked = [k \in Keys \cup Investigations |-> 0]

(* A collect ends; a mission goes on to its next step if it has a receipt. *)
Return(w, ok) ==
    Goto(w, IF ok /\ call[w].mission # Nothing
            THEN [at |-> "step", mission |-> call[w].mission, step |-> call[w].step + 1]
            ELSE Idle)

-----------------------------------------------------------------------------
(* collect *)

Reading(k, mission, step) ==
    [at |-> "reserve", key |-> k, version |-> case.version, mission |-> mission, step |-> step]

Collect(w, k) ==
    /\ Doing(w, "idle")
    /\ SpecOf(SourceOf(k)) # Nothing
    /\ Goto(w, Reading(k, Nothing, 0))
    /\ Reads(w)
    /\ UNCHANGED <<serverVars, caseVars, readVars, reportVars, asked>>

(* [mutant] any answer of the source's to the same question will do *)
Cached_Ever(k) ==
    \E j \in Requested : /\ SourceOf(j) = SourceOf(k) /\ requests[j].state = "OBSERVED"
                        /\ Command[j].resource = Command[k].resource

Cached(k) ==
    \E j \in Accepted : SourceOf(j) = SourceOf(k) /\ Command[j].resource = Command[k].resource

BudgetLeft(s) == Cardinality({k \in Requested : SourceOf(k) = s}) < Budget

MayReserve(w) ==
    /\ w \in fresh
    /\ case.open /\ case.version = call[w].version
    /\ PolicyStands

(* [mutant] a repeated command whose read is pending sends it again *)
ReserveReplay_Resend(w) ==
    LET r == requests[call[w].key] IN
    /\ Doing(w, "reserve") /\ r # NoRequest
    /\ IF r.state = "PENDING" THEN Goto(w, [call[w] EXCEPT !.at = "fetch"])
                              ELSE Return(w, r.state \in {"OBSERVED", "CACHE_HIT"})
    /\ UNCHANGED <<serverVars, caseVars, readVars, reportVars, fresh, asked>>

(* A key already used: its request, and its receipt if it has one, are     *)
(* reported as they are now.  Nothing is sent again.                       *)
ReserveReplay(w) ==
    LET r == requests[call[w].key] IN
    /\ Doing(w, "reserve") /\ r # NoRequest
    /\ Return(w, r.state \in {"OBSERVED", "CACHE_HIT"})
    /\ UNCHANGED <<serverVars, caseVars, readVars, reportVars, fresh, asked>>

ReserveHit(w) ==
    LET k == call[w].key IN
    /\ Doing(w, "reserve") /\ requests[k] = NoRequest
    /\ MayReserve(w)
    /\ Cached(k) /\ ~Command[k].force
    /\ requests' = [requests EXCEPT ![k] = [state |-> "CACHE_HIT"]]
    /\ RememberPolicy({SourceOf(k)})
    /\ Writes
    /\ Return(w, TRUE)
    /\ UNCHANGED <<serverVars, case, heads, newest, reportVars, asked>>

Reserve(w) ==
    LET k == call[w].key
        s == SourceOf(k)
    IN  /\ Doing(w, "reserve") /\ requests[k] = NoRequest
        /\ MayReserve(w)
        /\ Cached(k) => Command[k].force
        /\ BudgetLeft(s)
        /\ requests' = [requests EXCEPT ![k] =
               [state |-> "PENDING", version |-> case.version, spec |-> SpecOf(s)]]
        /\ heads' = [heads EXCEPT ![s] =
               [version |-> case.version, request |-> k, state |-> "PENDING"]]
        /\ newest' = [newest EXCEPT ![s] = k]
        /\ RememberPolicy({s})
        /\ Writes
        /\ Goto(w, [call[w] EXCEPT !.at = "fetch"])
        /\ UNCHANGED <<serverVars, case, reportVars, asked>>

ReserveRefused(w) ==
    LET k == call[w].key IN
    /\ Doing(w, "reserve") /\ requests[k] = NoRequest
    /\ ~MayReserve(w) \/ ((Cached(k) => Command[k].force) /\ ~BudgetLeft(SourceOf(k)))
    /\ Goto(w, Idle)
    /\ UNCHANGED <<serverVars, caseVars, readVars, reportVars, fresh, asked>>

(* The source is asked, outside the lock: facts, or some error. *)
Fetch(w) ==
    /\ Doing(w, "fetch")
    /\ asked' = [asked EXCEPT ![call[w].key] = @ + 1]
    /\ \E answer \in Facts \cup {Nothing} :
         Goto(w, [at |-> "finish", key |-> call[w].key, version |-> call[w].version,
                  mission |-> call[w].mission, step |-> call[w].step,
                  facts |-> answer, fetched |-> clock, tries |-> 0])
    /\ UNCHANGED <<serverVars, caseVars, readVars, reportVars, fresh>>

FinishRead(w) ==
    /\ Doing(w, "finish")
    /\ Reads(w)
    /\ Goto(w, [call[w] EXCEPT !.at = "record"])
    /\ UNCHANGED <<serverVars, caseVars, readVars, reportVars, asked>>

(* [mutant] the read that ends last is the one the case rests on *)
Recorded_LastToFinish(c) ==
    LET s == SourceOf(c.key)
        stale == case.version # c.version \/ ~case.open
        state == IF stale THEN "STALE" ELSE IF c.facts = Nothing THEN "FAILED" ELSE "OBSERVED"
    IN  /\ requests' = [requests EXCEPT ![c.key] =
               [state |-> state, version |-> c.version, spec |-> @.spec,
                facts |-> c.facts, fetched |-> c.fetched]]
        /\ heads' = [heads EXCEPT ![s] = [version |-> case.version, request |-> c.key, state |-> state]]

(* [mutant] the head is left as the reservation made it *)
Recorded_HeadLeft(c) ==
    /\ requests' = [requests EXCEPT ![c.key] =
           [state |-> IF c.facts = Nothing THEN "FAILED" ELSE "OBSERVED", version |-> c.version,
            spec |-> @.spec, facts |-> c.facts, fetched |-> c.fetched]]
    /\ UNCHANGED heads

(* What a finished read leaves: its state, and that of the head it still is. *)
Recorded(c) ==
    LET s == SourceOf(c.key)
        mine == heads[s].request = c.key
        stale == case.version # c.version \/ ~case.open \/ ~mine
        state == IF stale THEN "STALE" ELSE IF c.facts = Nothing THEN "FAILED" ELSE "OBSERVED"
    IN  /\ requests' = [requests EXCEPT ![c.key] =
               [state |-> state, version |-> c.version, spec |-> @.spec,
                facts |-> c.facts, fetched |-> c.fetched]]
        /\ heads' = IF mine THEN [heads EXCEPT ![s].state = state] ELSE heads

FinishRecord(w) ==
    /\ Doing(w, "record") /\ w \in fresh
    /\ Recorded(call[w])
    /\ Writes
    /\ Return(w, requests'[call[w].key].state = "OBSERVED")
    /\ UNCHANGED <<serverVars, caseVars, newest, reportVars, asked>>

(* Another write came between the read of the revision and the record.     *)
(* After the last attempt the observation is dropped.                      *)
FinishConflict(w) ==
    /\ Doing(w, "record") /\ w \notin fresh
    /\ Goto(w, IF call[w].tries + 1 = FinishTries THEN Idle
               ELSE [call[w] EXCEPT !.at = "finish", !.tries = @ + 1])
    /\ UNCHANGED <<serverVars, caseVars, readVars, reportVars, fresh, asked>>

-----------------------------------------------------------------------------
(* investigate, with a planner *)

(* What it reads: an answer already filed, a refusal, or a basis. *)
InvestigateRead(w, i, mission) ==
    /\ \/ /\ i \in Filed
          /\ Goto(w, IF mission = Nothing THEN Idle ELSE [at |-> "report", mission |-> mission])
       \/ /\ i \notin Filed
          /\ attempts[i] # "NONE" \/ ~case.open \/ ~DeskAnswers \/ (External /\ ~Covered)
          /\ Goto(w, Idle)
       \/ /\ i \notin Filed /\ attempts[i] = "NONE"
          /\ case.open /\ DeskAnswers
          /\ External => Covered
          /\ Goto(w, [at |-> "claim", key |-> i, mission |-> mission, basis |-> Basis,
                      bundle |-> IF External THEN Context ELSE NoBundle])
    /\ UNCHANGED <<serverVars, caseVars, readVars, reportVars, fresh, asked>>

Investigate(w, i) == Doing(w, "idle") /\ InvestigateRead(w, i, Nothing)

MayClaim(i) == attempts[i] = "NONE"

InvestigateClaim(w) ==
    LET i == call[w].key IN
    /\ Doing(w, "claim")
    /\ MayClaim(i)
    /\ case.open /\ call[w].basis = Basis
    /\ attempts' = [attempts EXCEPT ![i] = "PENDING"]
    /\ Writes
    /\ Goto(w, [call[w] EXCEPT !.at = "ask"])
    /\ UNCHANGED <<serverVars, caseVars, readVars, reports, plans, asked>>

(* The claim is another caller's, or the basis has moved. *)
InvestigateRefused(w) ==
    LET i == call[w].key IN
    /\ Doing(w, "claim")
    /\ ~MayClaim(i) \/ ~case.open \/ call[w].basis # Basis
    /\ Goto(w, IF i \in Filed /\ call[w].mission # Nothing
               THEN [at |-> "report", mission |-> call[w].mission] ELSE Idle)
    /\ UNCHANGED <<serverVars, caseVars, readVars, reportVars, fresh, asked>>

AskPlanner(w) ==
    /\ Doing(w, "ask")
    /\ asked' = [asked EXCEPT ![call[w].key] = @ + 1]
    /\ Goto(w, [call[w] EXCEPT !.at = "commit"])
    /\ UNCHANGED <<serverVars, caseVars, readVars, reportVars, fresh>>

StillStands(c) ==
    /\ c.basis = Basis
    /\ c.bundle # NoBundle => External /\ PolicyStands /\ Covered /\ c.bundle = Context
    /\ attempts[c.key] = "PENDING"

InvestigateCommit(w) ==
    LET c == call[w] IN
    /\ Doing(w, "commit") /\ StillStands(c)
    /\ reports' = [reports EXCEPT ![c.key] =
           [basis |-> c.basis, bundle |-> c.bundle, handed |-> FALSE]]
    /\ attempts' = [attempts EXCEPT ![c.key] = "COMPLETED"]
    /\ IF c.bundle = NoBundle THEN UNCHANGED demanded ELSE Demand(c.bundle.floor)
    /\ Writes
    /\ Goto(w, IF c.mission = Nothing THEN Idle ELSE [at |-> "report", mission |-> c.mission])
    /\ UNCHANGED <<serverVars, case, guard, readVars, plans, asked>>

(* The report is refused; its attempt stays pending for good. *)
InvestigateStale(w) ==
    /\ Doing(w, "commit") /\ ~StillStands(call[w])
    /\ Goto(w, Idle)
    /\ UNCHANGED <<serverVars, caseVars, readVars, reportVars, fresh, asked>>

-----------------------------------------------------------------------------
(* missions *)

PlannedSpecs(m) == [s \in {SourceOf(Steps[m][n]) : n \in 1..Len(Steps[m])} |-> SpecOf(s)]

MissionPlan(w, m) ==
    /\ Doing(w, "idle")
    /\ plans[m] = Nothing
    /\ config # Nothing /\ case.open /\ PolicyStands
    /\ Nothing \notin {PlannedSpecs(m)[s] : s \in DOMAIN PlannedSpecs(m)}
    /\ plans' = [plans EXCEPT ![m] = [version |-> case.version, specs |-> PlannedSpecs(m)]]
    /\ RememberPolicy(DOMAIN PlannedSpecs(m))
    /\ Writes
    /\ Goto(w, [at |-> "check", mission |-> m])
    /\ UNCHANGED <<serverVars, case, readVars, attempts, reports, asked>>

(* The same command again, or its resumption, which records a signal. *)
MissionAgain(w, m) ==
    /\ Doing(w, "idle")
    /\ config # Nothing /\ plans[m] # Nothing
    /\ \/ Writes /\ case.open /\ case.version = plans[m].version
       \/ UNCHANGED fresh
    /\ Goto(w, [at |-> "check", mission |-> m])
    /\ UNCHANGED <<serverVars, caseVars, readVars, reportVars, asked>>

MissionCheck(w) ==
    LET m == call[w].mission IN
    /\ Doing(w, "check")
    /\ IF case.open /\ case.version = plans[m].version /\ PlannedSpecs(m) = plans[m].specs
       THEN Goto(w, [at |-> "step", mission |-> m, step |-> 1]) /\ Reads(w)
       ELSE Goto(w, Idle) /\ UNCHANGED fresh
    /\ UNCHANGED <<serverVars, caseVars, readVars, reportVars, asked>>

(* The first step collects at the revision that was checked, each later    *)
(* one at the revision of the moment.                                      *)
MissionStep(w) ==
    LET m == call[w].mission
        n == call[w].step
    IN  /\ Doing(w, "step") /\ n <= Len(Steps[m])
        /\ Goto(w, Reading(Steps[m][n], m, n))
        /\ IF n = 1 THEN UNCHANGED fresh ELSE Reads(w)
        /\ UNCHANGED <<serverVars, caseVars, readVars, reportVars, asked>>

MissionSources(w) ==
    LET m == call[w].mission IN
    /\ Doing(w, "step") /\ call[w].step > Len(Steps[m])
    /\ Goto(w, IF DOMAIN plans[m].specs \subseteq Got THEN [at |-> "investigate", mission |-> m]
               ELSE Idle)
    /\ UNCHANGED <<serverVars, caseVars, readVars, reportVars, fresh, asked>>

(* Refused when the revision has moved since it was looked up.             *)
MissionInvestigate(w) ==
    /\ Doing(w, "investigate")
    /\ \/ InvestigateRead(w, call[w].mission, call[w].mission)
       \/ /\ Goto(w, Idle)
          /\ UNCHANGED <<serverVars, caseVars, readVars, reportVars, fresh, asked>>

HandedOff(i) ==
    /\ reports' = [reports EXCEPT ![i].handed = TRUE]
    /\ Writes
    /\ UNCHANGED <<serverVars, caseVars, readVars, attempts, plans, asked>>

(* Handed to the reviewer the mission names, if it names one, the report   *)
(* is valid and the revision has not moved meanwhile.                      *)
MissionHandoff(w) ==
    LET m == call[w].mission IN
    /\ Doing(w, "report")
    /\ Goto(w, Idle)
    /\ \/ ValidReport(m) /\ HandedOff(m)
       \/ UNCHANGED <<serverVars, caseVars, readVars, reportVars, fresh, asked>>

-----------------------------------------------------------------------------
(* The commands around the desk.  Who may hand off, accept and resolve is  *)
(* Casework's matter.                                                      *)

Handoff(i) ==
    /\ i \in Filed /\ ~reports[i].handed
    /\ ValidReport(i)
    /\ HandedOff(i)
    /\ UNCHANGED call

Resolve(i) ==
    /\ i \in Filed /\ reports[i].handed
    /\ ValidReport(i)
    /\ case.version < MaxVersion
    /\ case' = [version |-> case.version + 1, open |-> FALSE]
    /\ IF config # Nothing THEN RememberPolicy({}) ELSE UNCHANGED <<guard, demanded>>
    /\ Writes
    /\ UNCHANGED <<serverVars, readVars, reportVars, call, asked>>

Reopen ==
    /\ ~case.open /\ case.version < MaxVersion
    /\ config # Nothing => PolicyStands
    /\ case' = [version |-> case.version + 1, open |-> TRUE]
    /\ IF config # Nothing THEN RememberPolicy({}) ELSE UNCHANGED <<guard, demanded>>
    /\ Writes
    /\ UNCHANGED <<serverVars, readVars, reportVars, call, asked>>

(* Any command on something else in the workspace. *)
OtherCommand ==
    /\ fresh # {}
    /\ Writes
    /\ UNCHANGED <<serverVars, caseVars, readVars, reportVars, call, asked>>

Tick ==
    /\ clock < MaxTime
    /\ clock' = clock + 1
    /\ UNCHANGED <<config, restarts, caseVars, readVars, reportVars, call, fresh, asked>>

(* The server stops, whatever it was doing, and starts again, perhaps with *)
(* other connectors.                                                       *)
Restart(c) ==
    /\ restarts < MaxRestarts
    /\ restarts' = restarts + 1
    /\ config' = c
    /\ call' = [w \in Callers |-> Idle]
    /\ fresh' = {}
    /\ UNCHANGED <<clock, caseVars, readVars, reportVars, asked>>

StepKeys == UNION {{Steps[m][n] : n \in 1..Len(Steps[m])} : m \in Missions}

Ask(w) ==
    \/ \E k \in Keys \ StepKeys : Collect(w, k)
    \/ \E i \in Investigations \ Missions : Investigate(w, i)
    \/ \E m \in Missions : MissionPlan(w, m) \/ MissionAgain(w, m)

Progress(w) ==
    \/ ReserveReplay(w) \/ ReserveHit(w) \/ Reserve(w) \/ ReserveRefused(w)
    \/ Fetch(w) \/ FinishRead(w) \/ FinishRecord(w) \/ FinishConflict(w)
    \/ InvestigateClaim(w) \/ InvestigateRefused(w) \/ AskPlanner(w)
    \/ InvestigateCommit(w) \/ InvestigateStale(w)
    \/ MissionCheck(w) \/ MissionStep(w) \/ MissionSources(w)
    \/ MissionInvestigate(w) \/ MissionHandoff(w)

Around ==
    \/ \E i \in Investigations : Handoff(i) \/ Resolve(i)
    \/ Reopen \/ OtherCommand \/ Tick
    \/ \E c \in Configs : Restart(c)

Next == (\E w \in Callers : Ask(w) \/ Progress(w)) \/ Around

Spec == Init /\ [][Next]_vars

-----------------------------------------------------------------------------
(* Everything on record is well-formed: an observed head has its receipt,  *)
(* a report its completed attempt, and a plan only names known sources     *)
(* (the artifacts of the desk).                                            *)
TypeOK ==
    /\ clock \in 0..MaxTime /\ restarts \in 0..MaxRestarts
    /\ config \in Configs
    /\ case.version \in 1..MaxVersion /\ case.open = (case.version % 2 = 1)
    /\ \A k \in Requested :
          requests[k].state \in {"OBSERVED", "FAILED", "STALE"} =>
              requests[k].fetched \in 0..clock /\ requests[k].facts \in Facts \cup {Nothing}
    /\ \A s \in Sources : heads[s] # Nothing =>
          /\ heads[s].request \in Requested /\ SourceOf(heads[s].request) = s
          /\ heads[s].state = requests[heads[s].request].state
          /\ heads[s].version = requests[heads[s].request].version
    /\ \A i \in Investigations : i \in Filed <=> attempts[i] = "COMPLETED"
    /\ \A m \in Missions : plans[m] # Nothing => Nothing \notin {plans[m].specs[s] : s \in DOMAIN plans[m].specs}
    /\ fresh \subseteq Callers

(* No more reads of a source are sent for a case than its budget, over all *)
(* versions of the case, outcomes and crashes (collect 186-189).           *)
WithinBudget ==
    \A s \in Sources : Cardinality({k \in Keys : SourceOf(k) = s /\ asked[k] > 0}) <= Budget

(* However commands are repeated, resumed, crashed or raced, a source is   *)
(* read and the planner asked at most once under one key, and no source    *)
(* beyond its budget (collect 174-218, investigate 301-362).               *)
AskedOnce == WithinBudget /\ \A k \in DOMAIN asked : asked[k] <= 1

(* What a case rests on comes from the last read reserved for its source,  *)
(* whatever order reads end in: a refresh displaces the receipt before it  *)
(* as soon as it is reserved, even if it then fails (evidence_basis,       *)
(* collect's finish).                                                      *)
RefreshDisplaces == \A k \in Accepted : k = newest[SourceOf(k)]

Decided ==
    \/ case.open /\ ~case'.open
    \/ \E i \in Filed : reports'[i].handed # reports[i].handed

(* A report is handed to a reviewer, and a case resolved, only on present  *)
(* evidence of every source ever demanded for the case, from as many       *)
(* groups as ever demanded, and free of contradiction: not by a change of  *)
(* configuration, a restart without the desk, an expiry, or a refresh that *)
(* did not succeed (source_guard, validate_report, resolution).            *)
DecidedOnEvidence ==
    [][Decided =>
         LET live == {k \in {newest[s] : s \in demanded.required} \ {Nothing} :
                         /\ requests[k].state = "OBSERVED"
                         /\ requests[k].version = case.version
                         /\ requests[k].spec = SpecOf(SourceOf(k))
                         /\ clock < requests[k].fetched + TTL}
         IN  /\ demanded.required \subseteq {SourceOf(k) : k \in live}
             /\ Cardinality({requests[k].spec : k \in live}) >= demanded.groups
             /\ \A j, k \in live : Command[j].resource = Command[k].resource =>
                                       requests[j].facts = requests[k].facts]_vars

(* A threshold once demanded of a case stands (remember_policy, and the    *)
(* bundles of its reports): what is owed never falls below what any plan,  *)
(* read or report asked.                                                   *)
ObligationsStand ==
    demanded.required \subseteq Obligations.required /\ demanded.groups <= Obligations.groups

SpecsEver == {Nothing} \cup {c.specs[s] : c \in Configs \ {Nothing}, s \in Sources}

(* What callers are promised (EvidenceLog): locks, revisions, missions,    *)
(* refused attempts and restarts add nothing to it and take nothing away.  *)
Log ==
    INSTANCE EvidenceLog WITH
        Specs   <- SpecsEver,
        latest  <- [s \in Sources |-> IF heads[s] = Nothing THEN Nothing ELSE heads[s].request],
        spent   <- [s \in Sources |-> Cardinality({k \in Requested : SourceOf(k) = s})],
        reports <- [i \in Investigations |-> IF i \in Filed THEN reports[i].basis ELSE Nothing]

(* A question is put once, its answer recorded once and for good, under    *)
(* the request reserved last for its source or as stale; a report is filed *)
(* on present evidence, and a case closed on a report that still rests on  *)
(* it (collect, investigate, resolve).                                     *)
ImplementsEvidenceLog == Log!Spec
=============================================================================
