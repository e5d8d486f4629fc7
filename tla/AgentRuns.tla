------------------------------ MODULE AgentRuns ------------------------------
(***************************************************************************)
(* Agent runs (src/src/proofops_memoryguard/agent.py, with the run ledger  *)
(* and the safety actions) over the decision module: a run is claimed,     *)
(* decided, planned, acted on and saved; a human resumes it to cancel it,  *)
(* to prepare its proof anchor or to report the anchoring transaction.     *)
(*                                                                         *)
(* A claim is a flock on a file named for the run, held to the end of the  *)
(* request and dropped when the process dies.  The tool trace is left out: *)
(* it is extended and never read but by the checks of _validate_run that   *)
(* the artifacts repeat.                                                   *)
(***************************************************************************)
EXTENDS MemoryGuard

CONSTANTS
    RunIds,   \* digests of (subject, idempotency key)
    Goals,    \* [run, intent]
    Plans     \* what the model may answer: [requested, receipt]

VARIABLES
    runs,     \* the ledger: runs[r]
    held,     \* held[r]: the process that has r's lock file locked
    task      \* task[p]: the agent request process p is executing

agentVars == <<runs, held, task>>
vars == <<guardVars, agentVars>>

(* The safety tools, by their place in the registry. *)
Registered == [review |-> 1, escalation |-> 2, brief |-> 3]

MandatoryTool(verdict) == IF verdict = "ready" THEN "review" ELSE "escalation"
AllowedTools(verdict) == {MandatoryTool(verdict), "brief"}

BaseState(verdict) ==
    CASE verdict = "ready" -> "await_finalize"
      [] verdict = "deny"  -> "block_and_escalate"
      [] OTHER             -> "await_human_review"

(* A run in one of these takes no signal but cancel, which leaves it as it *)
(* is.                                                                     *)
Stopped == {"cancelled", "halt_action_unavailable", "degraded_safe_only", "block_and_redecide"}

(* A run as the ledger keeps it. *)
AnchorStates == {"not_configured", "local_finalized", "confirmation_required",
                 "pending", "verified", "failed"}
Run ==
    [intent : {g.intent : g \in Goals}, decision : Nat, degraded : BOOLEAN,
     receipt : {plan.receipt : plan \in Plans} \cup {"none"},
     requested : SUBSET DOMAIN Registered, artifacts : SUBSET DOMAIN Registered,
     state : {"await_finalize", "block_and_escalate", "await_human_review"} \cup Stopped,
     prepared : AnchorStates \cup {Nothing}, verified : AnchorStates \cup {Nothing},
     anchor : AnchorStates]

ASSUME AgentConstants ==
    /\ \A g \in Goals : g.run \in RunIds
    /\ Nothing \notin Run

(* _validate_run: which of its artifacts the anchor state must repeat, ... *)
AnchorMatchesArtifact(run) ==
    run.anchor = IF run.verified # Nothing THEN run.verified
                 ELSE IF run.prepared # Nothing THEN run.prepared
                 ELSE "not_configured"

(* ... and what a run under this decision may hold. *)
WithinAuthority(run) ==
    LET verdict == decisions[run.decision].verdict
    IN  /\ \/ run.state \in (Stopped \ {"cancelled"}) \cup {BaseState(verdict)}
           \/ run.state = "cancelled" /\ verdict # "deny"
        /\ run.requested \subseteq AllowedTools(verdict)
        /\ run.receipt # "incomplete"
        /\ MandatoryTool(verdict) \in run.artifacts \/ run.state = "halt_action_unavailable"
        /\ run.artifacts \subseteq {MandatoryTool(verdict)} \cup run.requested

ValidRun(run) == WithinAuthority(run) /\ AnchorMatchesArtifact(run)

AgentInit ==
    /\ Init
    /\ runs = [r \in RunIds |-> Nothing]
    /\ held = [r \in RunIds |-> Nothing]
    /\ task = [p \in Procs |-> Idle]

Doing(p, step) == task[p].at = step
Do(p, t) == task' = [task EXCEPT ![p] = t]

(* [mutant] the claim excludes nobody *)
Lock_Shared(r, p) == held' = held

Lock(r, p) == held[r] = Nothing /\ held' = [held EXCEPT ![r] = p]
Unlock(r) == held' = [held EXCEPT ![r] = Nothing]

Deciding(q) == At(q, "draft") \/ task[q].at \in {"claim_run", "decide"}

RunRequest(p, g) ==
    /\ Doing(p, "idle") /\ At(p, "idle")
    /\ runs[g.run] = Nothing => Room({q \in Procs : Deciding(q)})
    /\ Do(p, [at |-> "claim_run", run |-> g.run, intent |-> g.intent])
    /\ UNCHANGED <<guardVars, runs, held>>

(* A run that exists is answered, or refused as invalid or as another      *)
(* request's: nothing changes and the claim is given up.                   *)
RunExisting(p) ==
    /\ Doing(p, "claim_run")
    /\ held[task[p].run] = Nothing
    /\ runs[task[p].run] # Nothing
    /\ Do(p, Idle)
    /\ UNCHANGED <<guardVars, runs, held>>

RunClaim(p) ==
    /\ Doing(p, "claim_run")
    /\ runs[task[p].run] = Nothing
    /\ Lock(task[p].run, p)
    /\ Do(p, [task[p] EXCEPT !.at = "decide"])
    /\ UNCHANGED <<guardVars, runs>>

RunDecide(p) ==
    /\ Doing(p, "decide")
    /\ DecideLoad(p, task[p].intent)
    /\ Do(p, [task[p] EXCEPT !.at = "plan"])
    /\ UNCHANGED <<runs, held>>

(* What asking the model gives: a plan it may answer, or, after any error, *)
(* a plan without tools under which the run is degraded.                   *)
ModelAnswers ==
    {[plan |-> plan, degraded |-> FALSE] : plan \in Plans}
        \cup {[plan |-> [requested |-> {}, receipt |-> "none"], degraded |-> TRUE]}

(* The model is asked once. *)
RunPlan(p) ==
    /\ Doing(p, "plan") /\ At(p, "returned")
    /\ \E answer \in ModelAnswers :
         LET d == call[p].result.decision
             verdict == decisions[d].verdict
             asked == answer.plan.requested \cap AllowedTools(verdict)
         IN  Do(p, [at |-> "act", run |-> task[p].run, failed |-> FALSE,
                    todo |-> asked \cup {MandatoryTool(verdict)},
                    draft |-> [intent |-> task[p].intent, decision |-> d,
                               degraded |-> answer.degraded, receipt |-> answer.plan.receipt,
                               requested |-> asked,
                               artifacts |-> {}, state |-> BaseState(verdict),
                               prepared |-> Nothing, verified |-> Nothing,
                               anchor |-> "not_configured"]])
    /\ Goto(p, Idle)
    /\ UNCHANGED <<stored, chain, config, clock, crashes, acknowledged, runs, held>>

(* One safety action, in the registry's order, persisted or failed. *)
RunAct(p) ==
    /\ Doing(p, "act")
    /\ \E tool \in task[p].todo :
         /\ \A other \in task[p].todo : Registered[tool] <= Registered[other]
         /\ LET next == [task[p] EXCEPT !.todo = @ \ {tool}]
            IN  \/ Do(p, [next EXCEPT !.draft.artifacts = @ \cup {tool}])
                \/ Do(p, [next EXCEPT !.failed = TRUE])
    /\ UNCHANGED <<guardVars, runs, held>>

(* The run is validated as it will be when loaded, and saved if it passes. *)
RunSave(p) ==
    /\ Doing(p, "act") /\ task[p].todo = {}
    /\ LET run == [task[p].draft EXCEPT !.state =
                       IF task[p].failed THEN "halt_action_unavailable"
                       ELSE IF task[p].draft.degraded THEN "degraded_safe_only" ELSE @]
       IN  runs' = IF ValidRun(run) THEN [runs EXCEPT ![task[p].run] = run] ELSE runs
    /\ Unlock(task[p].run)
    /\ Do(p, Idle)
    /\ UNCHANGED <<guardVars>>

ResumeRequest(p, r, tx) ==
    /\ Doing(p, "idle") /\ At(p, "idle")
    /\ Do(p, [at |-> "claim_anchor", run |-> r, tx |-> tx])
    /\ UNCHANGED <<guardVars, runs, held>>

(* What inspect refuses, what has stopped and what is anchored already are *)
(* answered without a change.                                              *)
Resumable(run, tx) ==
    /\ run # Nothing
    /\ ValidRun(run)
    /\ run.state \notin Stopped
    /\ tx # NoTx => run.anchor # "verified"

ResumeNothing(p) ==
    /\ Doing(p, "claim_anchor")
    /\ held[task[p].run] = Nothing
    /\ ~Resumable(runs[task[p].run], task[p].tx)
    /\ Do(p, Idle)
    /\ UNCHANGED <<guardVars, runs, held>>

ResumeClaim(p) ==
    /\ Doing(p, "claim_anchor")
    /\ Resumable(runs[task[p].run], task[p].tx)
    /\ Lock(task[p].run, p)
    /\ Do(p, [task[p] EXCEPT !.at = "finalize"])
    /\ UNCHANGED <<guardVars, runs>>

ResumeFinalize(p) ==
    /\ Doing(p, "finalize")
    /\ FinalizeCheck(p, runs[task[p].run].decision, task[p].tx)
    /\ Do(p, [task[p] EXCEPT !.at = "anchored"])
    /\ UNCHANGED <<runs, held>>

(* Anchored(run, tx, result): the run after finalize has answered.  A      *)
(* refusal to prepare is passed on; a refused transaction blocks the run.  *)
Anchored(run, tx, result) ==
    IF tx = NoTx
    THEN IF result = Refused THEN run
         ELSE [run EXCEPT !.prepared = result.state, !.anchor = result.state]
    ELSE IF result = Refused
    THEN [run EXCEPT !.verified = "failed", !.anchor = "failed", !.state = "block_and_redecide"]
    ELSE [run EXCEPT !.verified = result.state, !.anchor = result.state]

ResumeSave(p) ==
    /\ Doing(p, "anchored") /\ At(p, "returned")
    /\ runs' = [runs EXCEPT ![task[p].run] = Anchored(@, task[p].tx, call[p].result)]
    /\ Unlock(task[p].run)
    /\ Do(p, Idle) /\ Goto(p, Idle)
    /\ UNCHANGED <<stored, chain, config, clock, crashes, acknowledged>>

(* resume with cancel, under the claim from load to save: a denied run, a  *)
(* stopped one and one that cannot be read stay as they are.               *)
Cancel(p, r) ==
    /\ Doing(p, "idle") /\ At(p, "idle")
    /\ held[r] = Nothing
    /\ runs[r] # Nothing
    /\ ValidRun(runs[r])
    /\ runs[r].state \notin Stopped \cup {"block_and_escalate"}
    /\ runs' = [runs EXCEPT ![r].state = "cancelled"]
    /\ UNCHANGED <<guardVars, held, task>>

(* [mutant] the claim is a file whose existence locks: it outlives its owner *)
AgentRestart_KeepsClaim(p) ==
    /\ Restart(p)
    /\ Do(p, Idle)
    /\ UNCHANGED <<runs, held>>

AgentRestart(p) ==
    /\ Restart(p)
    /\ held' = [r \in RunIds |-> IF held[r] = p THEN Nothing ELSE held[r]]
    /\ Do(p, Idle)
    /\ UNCHANGED <<runs>>

Request(p) ==
    \/ /\ Doing(p, "idle") /\ GuardRequest(p) /\ UNCHANGED agentVars
    \/ \E g \in Goals : RunRequest(p, g)
    \/ \E r \in RunIds : Cancel(p, r) \/ \E tx \in Txs \cup {NoTx} : ResumeRequest(p, r, tx)

Claim(p) == RunExisting(p) \/ RunClaim(p) \/ ResumeNothing(p) \/ ResumeClaim(p)

Step(p) ==
    \/ GuardStep(p) /\ UNCHANGED agentVars
    \/ Doing(p, "idle") /\ Answer(p) /\ UNCHANGED agentVars
    \/ RunDecide(p) \/ RunPlan(p) \/ RunAct(p) \/ RunSave(p)
    \/ ResumeFinalize(p) \/ ResumeSave(p)

Next ==
    \/ \E p \in Procs : Request(p) \/ Claim(p) \/ Step(p) \/ AgentRestart(p)
    \/ Environment /\ UNCHANGED agentVars

(* A request under way goes on, and the kernel grants a flock in turn.     *)
(* Requests, restarts, time and the chain owe nothing.                     *)
Fairness == \A p \in Procs : WF_vars(Step(p)) /\ SF_vars(Claim(p))

Spec == AgentInit /\ [][Next]_vars
FairSpec == Spec /\ Fairness

----------------------------------------------------------------------------
TypeOK ==
    /\ Range(memory) \cup acknowledged \subseteq Item
    /\ Len(finals) = Len(decisions) /\ Len(decisions) <= MaxDecisions
    /\ \A d \in DOMAIN decisions : decisions[d].verdict \in {"deny", "ready", "needs_human"}
    /\ config \in [Procs -> Configs]
    /\ held \in [RunIds -> Procs \cup {Nothing}]
    /\ \A r \in RunIds : runs[r] # Nothing => runs[r].decision \in DOMAIN decisions

(* A saved run answers for one request under one decision for good: two    *)
(* processes asked at once, or a crash before the save, never give one run *)
(* two decisions.                                                          *)
RunKeepsDecision ==
    [][\A r \in RunIds : runs[r] # Nothing =>
         /\ runs'[r] # Nothing
         /\ <<runs'[r].intent, runs'[r].decision, runs'[r].artifacts>>
                = <<runs[r].intent, runs[r].decision, runs[r].artifacts>>]_vars

(* A transaction a run reports as pending or verified is what the ledger   *)
(* of finalizations says of its decision: resuming, finalizing directly    *)
(* and crashing between the two saves do not part them.                    *)
RunAnchorBacked ==
    \A r \in RunIds : runs[r] # Nothing /\ runs[r].anchor \in {"pending", "verified"} =>
        LET final == finals[runs[r].decision]
        IN  /\ final # Nothing
            /\ final.state \in {runs[r].anchor, "verified"}

(* Seen through what is stored and answered, the requests of one server,   *)
(* crashes between their writes and restarts included, come to a ledger in *)
(* which reports, decisions and finalizations are one step each            *)
(* (DecisionLedger).                                                       *)
Ledger == INSTANCE DecisionLedger WITH
    Ids      <- (0..MaxObserved) \X Procs,
    Intents  <- Intents \cup {g.intent : g \in Goals},
    Policies <- {c.policy : c \in Configs},
    receipts <- acknowledged
ImplementsLedger == Ledger!Spec

(* Every agent request is answered, if only because its process dies: a    *)
(* claim is given up at the end of its request or with its process, so the *)
(* next request for the run is never left waiting.                         *)
RequestsAnswered == \A p \in Procs : ~Doing(p, "idle") ~> Doing(p, "idle")

(* What _validate_run asserts of a run it loads holds of every run saved.  *)
SavedRunsLoad == \A r \in RunIds : runs[r] # Nothing => ValidRun(runs[r])
=============================================================================
