--------------------------- MODULE AgentRunsProofs ---------------------------
(***************************************************************************)
(* Theorems about the decision module and the agent runs over it.  What    *)
(* the claim on a run and the policy give holds of any number of server    *)
(* processes; what memory, drafts and finalizations promise each other is  *)
(* the promise of one process (OneProcess): its lock excludes its own      *)
(* requests, and nothing excludes a second process between the check of a  *)
(* version and the write that follows it.                                  *)
(***************************************************************************)
EXTENDS AgentRuns, FiniteSetTheorems, TLAPS

(* The values the variables range over. *)
AnyIntent == Intents \cup {g.intent : g \in Goals}
Verdicts == {"deny", "ready", "needs_human"}
Draft == [intent : AnyIntent, verdict : Verdicts, root : Seq(Item),
          policy : {c.policy : c \in Configs}, expires : Nat]

Observed == [state : {"observed"}, item : Item]
Made == [state : {"decided"}, decision : Nat]
Replies == {Refused} \cup Observed \cup Made \cup Result

Committing == [at : {"commit", "event", "entity"}, item : Item, seen : Seq(Item)]
Drafting == [at : {"draft"}, decision : Draft]
Finalizing == [at : {"existing", "ask"}, d : Nat, tx : Txs \cup {NoTx}]
Saving == [at : {"save"}, d : Nat, result : Result]
Returned == [at : {"returned"}, result : Replies]
CallState == {Idle} \cup Committing \cup Drafting \cup Finalizing \cup Saving \cup Returned

Tools == {"review", "escalation", "brief"}
Starting == [at : {"claim_run", "decide", "plan"}, run : RunIds, intent : {g.intent : g \in Goals}]
Acting == [at : {"act"}, run : RunIds, failed : BOOLEAN, todo : SUBSET Tools, draft : Run]
Resuming == [at : {"claim_anchor", "finalize", "anchored"}, run : RunIds, tx : Txs \cup {NoTx}]
TaskState == {Idle} \cup Starting \cup Acting \cup Resuming

GuardTyped ==
    /\ memory \in Seq(Item)
    /\ journal \subseteq Item /\ IsFiniteSet(journal)
    /\ acknowledged \subseteq Item
    /\ decisions \in Seq(Draft)
    /\ finals \in Seq(Result \cup {Nothing})
    /\ Len(finals) = Len(decisions)
    /\ config \in [Procs -> Configs]
    /\ clock \in Nat
    /\ call \in [Procs -> CallState]

AgentTyped ==
    /\ runs \in [RunIds -> Run \cup {Nothing}]
    /\ held \in [RunIds -> Procs \cup {Nothing}]
    /\ task \in [Procs -> TaskState]

(* What a call, a task and a run refer to exists. *)
GuardPointing ==
    \A p \in Procs :
        /\ call[p].at \in {"existing", "ask", "save"} => call[p].d \in DOMAIN decisions
        /\ call[p].at = "returned" /\ call[p].result \in Made
               => call[p].result.decision \in DOMAIN decisions

AgentPointing ==
    /\ \A p \in Procs : task[p].at = "act" => task[p].draft.decision \in DOMAIN decisions
    /\ \A r \in RunIds : runs[r] # Nothing => runs[r].decision \in DOMAIN decisions

(* What the module call of an agent request can be doing. *)
Coupled ==
    \A p \in Procs :
        /\ task[p].at \in {"claim_run", "decide", "act", "claim_anchor", "finalize"} => call[p] = Idle
        /\ task[p].at = "plan" =>
             \/ call[p].at = "draft"
             \/ call[p].at = "returned" /\ call[p].result \in Made
        /\ task[p].at = "anchored" =>
             \/ call[p].at \in {"existing", "ask", "save"}
             \/ call[p].at = "returned" /\ call[p].result \in {Refused} \cup Result

(* A request past its claim holds it; a new run is not in the ledger then, *)
(* a resumed one is.                                                       *)
Claimed ==
    \A p \in Procs :
        /\ task[p].at \in {"decide", "plan", "act", "finalize", "anchored"} => held[task[p].run] = p
        /\ task[p].at \in {"decide", "plan", "act"} => runs[task[p].run] = Nothing
        /\ task[p].at \in {"finalize", "anchored"} => runs[task[p].run] # Nothing

ByAuthority(draft) ==
    draft.verdict # "needs_human" =>
        \E i \in Range(draft.root) :
            /\ i.mode \in Trusted
            /\ draft.intent.mode # "demo_fixture" => i.mode = "identity_verified"
Authority ==
    /\ \A d \in DOMAIN decisions : ByAuthority(decisions[d])
    /\ \A p \in Procs : call[p].at = "draft" => ByAuthority(call[p].decision)

OneProcess == \A p, q \in Procs : p = q

(* Within one process: *)
Recalled(draft) ==
    /\ draft.root = memory
    /\ (\E i \in Range(memory) : Denies(i, draft.intent)) => draft.verdict = "deny"

MemoryInv ==
    /\ ReceiptsKept
    /\ \A p \in Procs :
         /\ call[p].at \in {"commit", "event", "entity"} => call[p].seen = memory
         /\ call[p].at = "entity" => call[p].item \in journal
         /\ call[p].at = "returned" /\ call[p].result \in Observed
                => call[p].result.item \in Range(memory)
         /\ call[p].at = "draft" => Recalled(call[p].decision)
         /\ call[p].at \in {"existing", "ask", "save"} =>
                (decisions[call[p].d].verdict = "ready" => memory = decisions[call[p].d].root)

Bound(final) == final # Nothing /\ final.tx # NoTx => final.state \in {"pending", "verified"}
MayAsk(final, tx) ==
    final # Nothing => /\ tx # NoTx
                       /\ ~OtherTransaction(final, tx)
                       /\ final.state \notin Terminal
FinalsInv ==
    /\ \A d \in DOMAIN finals : Bound(finals[d])
    /\ \A p \in Procs :
         /\ call[p].at = "ask" => MayAsk(finals[call[p].d], call[p].tx)
         /\ call[p].at = "save" => /\ MayAsk(finals[call[p].d], call[p].result.tx)
                                   /\ Bound(call[p].result)

Backed(state, d) ==
    state \in {"pending", "verified"} =>
        finals[d] # Nothing /\ finals[d].state \in {state, "verified"}
AnchorInv ==
    /\ \A r \in RunIds : runs[r] # Nothing => Backed(runs[r].anchor, runs[r].decision)
    /\ \A p \in Procs :
         /\ task[p].at = "act" => task[p].draft.anchor = "not_configured"
         /\ task[p].at = "anchored" /\ call[p].at \in {"existing", "ask", "save"}
                => call[p].d = runs[task[p].run].decision
         /\ task[p].at = "anchored" /\ call[p].at = "returned" /\ call[p].result \in Result
                => Backed(call[p].result.state, runs[task[p].run].decision)

(* A draft is under way or on its way. *)
Pending(p) ==
    \/ call[p].at = "draft"
    \/ task[p].at = "decide"
    \/ task[p].at = "claim_run" /\ runs[task[p].run] = Nothing
WithinBound ==
    /\ Len(decisions) <= MaxDecisions
    /\ \A p \in Procs : Pending(p) => Len(decisions) < MaxDecisions

----------------------------------------------------------------------------
(* Reading a call, a task and an answer by the step they are at. *)

LEMMA ReadCall ==
    ASSUME NEW c \in CallState
    PROVE  /\ c.at = "idle" <=> c = Idle
           /\ c.at \in {"commit", "event", "entity"} =>
                /\ c.item \in Item /\ c.seen \in Seq(Item)
                /\ [c EXCEPT !.at = "event"] = [at |-> "event", item |-> c.item, seen |-> c.seen]
                /\ [c EXCEPT !.at = "entity"] = [at |-> "entity", item |-> c.item, seen |-> c.seen]
           /\ c.at = "draft" => c.decision \in Draft
           /\ c.at \in {"existing", "ask"} =>
                /\ c.d \in Nat /\ c.tx \in Txs \cup {NoTx}
                /\ [c EXCEPT !.at = "ask"] = [at |-> "ask", d |-> c.d, tx |-> c.tx]
           /\ c.at = "save" => c.d \in Nat /\ c.result \in Result
           /\ c.at = "returned" => c.result \in Replies
           /\ c.at \in {"idle", "commit", "event", "entity", "draft", "existing", "ask",
                        "save", "returned"}
<1>1. CASE c = Idle
  BY <1>1 DEF Idle
<1>2. CASE c \in Committing
  BY <1>2 DEF Committing, Idle
<1>3. CASE c \in Drafting
  BY <1>3 DEF Drafting, Idle
<1>4. CASE c \in Finalizing
  BY <1>4 DEF Finalizing, Idle
<1>5. CASE c \in Saving
  BY <1>5 DEF Saving, Idle
<1>6. CASE c \in Returned
  BY <1>6 DEF Returned, Idle
<1> QED BY <1>1, <1>2, <1>3, <1>4, <1>5, <1>6 DEF CallState

LEMMA MakeCall ==
    /\ Idle \in CallState
    /\ \A item \in Item, seen \in Seq(Item), s \in {"commit", "event", "entity"} :
           [at |-> s, item |-> item, seen |-> seen] \in CallState
    /\ \A draft \in Draft : [at |-> "draft", decision |-> draft] \in CallState
    /\ \A d \in Nat, tx \in Txs \cup {NoTx}, s \in {"existing", "ask"} :
           [at |-> s, d |-> d, tx |-> tx] \in CallState
    /\ \A d \in Nat, result \in Result : [at |-> "save", d |-> d, result |-> result] \in CallState
    /\ \A result \in Replies : [at |-> "returned", result |-> result] \in CallState
  BY DEF CallState, Committing, Drafting, Finalizing, Saving, Returned

LEMMA ReadTask ==
    ASSUME NEW t \in TaskState
    PROVE  /\ t.at = "idle" <=> t = Idle
           /\ t.at \in {"claim_run", "decide", "plan"} =>
                /\ t.run \in RunIds /\ t.intent \in {g.intent : g \in Goals}
                /\ \A s \in {"decide", "plan"} :
                       [t EXCEPT !.at = s] = [at |-> s, run |-> t.run, intent |-> t.intent]
           /\ t.at \in {"claim_anchor", "finalize", "anchored"} =>
                /\ t.run \in RunIds /\ t.tx \in Txs \cup {NoTx}
                /\ \A s \in {"finalize", "anchored"} :
                       [t EXCEPT !.at = s] = [at |-> s, run |-> t.run, tx |-> t.tx]
           /\ t.at = "act" =>
                /\ t.run \in RunIds /\ t.failed \in BOOLEAN
                /\ t.todo \subseteq Tools /\ t.draft \in Run
                /\ t = [at |-> "act", run |-> t.run, failed |-> t.failed,
                        todo |-> t.todo, draft |-> t.draft]
           /\ t.at \in {"idle", "claim_run", "decide", "plan", "act",
                        "claim_anchor", "finalize", "anchored"}
<1>1. CASE t = Idle
  BY <1>1 DEF Idle
<1>2. CASE t \in Starting
  BY <1>2 DEF Starting, Idle
<1>3. CASE t \in Acting
  <2>1. t = [at |-> t.at, run |-> t.run, failed |-> t.failed, todo |-> t.todo, draft |-> t.draft]
    BY <1>3 DEF Acting
  <2>2. t.at = "act" /\ t.run \in RunIds /\ t.failed \in BOOLEAN
        /\ t.todo \subseteq Tools /\ t.draft \in Run
    BY <1>3, Zenon DEF Acting
  <2> QED BY <2>1, <2>2 DEF Idle
<1>4. CASE t \in Resuming
  BY <1>4 DEF Resuming, Idle
<1> QED BY <1>1, <1>2, <1>3, <1>4 DEF TaskState

LEMMA MakeTask ==
    /\ Idle \in TaskState
    /\ \A r \in RunIds, i \in {g.intent : g \in Goals}, s \in {"claim_run", "decide", "plan"} :
           [at |-> s, run |-> r, intent |-> i] \in TaskState
    /\ \A r \in RunIds, tx \in Txs \cup {NoTx}, s \in {"claim_anchor", "finalize", "anchored"} :
           [at |-> s, run |-> r, tx |-> tx] \in TaskState
    /\ \A r \in RunIds, f \in BOOLEAN, todo \in SUBSET Tools, run \in Run :
           [at |-> "act", run |-> r, failed |-> f, todo |-> todo, draft |-> run] \in TaskState
<1>1. \A r \in RunIds, f \in BOOLEAN, todo \in SUBSET Tools, run \in Run :
           [at |-> "act", run |-> r, failed |-> f, todo |-> todo, draft |-> run] \in Acting
  BY Zenon DEF Acting
<1> QED BY <1>1 DEF TaskState, Starting, Resuming

LEMMA ReadReply ==
    ASSUME NEW r \in Replies
    PROVE  /\ r.state = "observed" <=> r \in Observed
           /\ r.state = "decided" <=> r \in Made
           /\ r.state = "refused" <=> r = Refused
           /\ r \in Observed => r.item \in Item
           /\ r \in Made => r.decision \in Nat
           /\ r \in Result => /\ r.tx \in Txs \cup {NoTx}
                              /\ r.state \in {"verified", "pending", "failed", "local_finalized",
                                              "confirmation_required"}
           /\ r.state \in {"observed", "decided", "refused"} \/ r \in Result
  BY DEF Replies, Refused, Observed, Made, Result

LEMMA MakeReply ==
    /\ Refused \in Replies /\ Refused \notin Result /\ Refused \notin Observed /\ Refused \notin Made
    /\ \A item \in Item : Receipt(item) \in Observed
    /\ \A d \in Nat : [state |-> "decided", decision |-> d] \in Made
    /\ Observed \cup Made \cup Result \subseteq Replies
    /\ \A r \in Result : r \notin Observed /\ r \notin Made
    /\ \A r \in Observed : r \notin Made /\ r \notin Result
    /\ \A r \in Made : r \notin Observed /\ r \notin Result
  BY DEF Replies, Refused, Observed, Made, Result, Receipt

----------------------------------------------------------------------------
(* What a step of the system is to the decision module: a step of one      *)
(* call, the end of one, time and the chain, or nothing.                   *)

Ends(p) ==
    /\ Goto(p, Idle)
    /\ \/ config' = config /\ UNCHANGED clock
       \/ UNCHANGED clock /\ \E c \in Configs : config' = [config EXCEPT ![p] = c]
    /\ UNCHANGED <<stored, chain>>
    /\ \/ acknowledged' = acknowledged
       \/ /\ At(p, "returned")
          /\ acknowledged' = acknowledged \cup
                 IF call[p].result.state = "observed" THEN {call[p].result.item} ELSE {}

GuardMove(p) ==
    \/ \E o \in Observations : ObserveLoad(p, o)
    \/ CommitCompare(p) \/ CommitEvent(p) \/ CommitEntity(p)
    \/ \E i \in AnyIntent : DecideLoad(p, i)
    \/ DecideSave(p)
    \/ \E d \in DOMAIN decisions, tx \in Txs \cup {NoTx} : FinalizeCheck(p, d, tx)
    \/ FinalizeExisting(p) \/ FinalizeAsk(p) \/ FinalizeSave(p)
    \/ Ends(p)

Outside ==
    /\ UNCHANGED <<stored, config, call, acknowledged>>
    /\ clock' \in {clock, clock + 1}
    /\ \/ UNCHANGED chain
       \/ UNCHANGED clock /\ \E x \in Txs, d \in DOMAIN decisions : Mine(x, d)

LEMMA GuardMoves ==
    ASSUME [Next]_vars, AgentTyped
    PROVE  \/ \E p \in Procs : GuardMove(p)
           \/ Outside
           \/ UNCHANGED guardVars
<1>1. CASE UNCHANGED vars
  BY <1>1 DEF vars
<1>2. CASE Environment /\ UNCHANGED agentVars
  <2>1. Outside
    BY <1>2 DEF Environment, Tick, Mine, Outside
  <2> QED BY <2>1
<1>3. ASSUME NEW p \in Procs, Request(p)
      PROVE  GuardMove(p) \/ UNCHANGED guardVars
  <2>1. ASSUME GuardRequest(p) PROVE GuardMove(p)
    BY <2>1 DEF GuardRequest, GuardMove, AnyIntent
  <2>2. ASSUME NEW r \in RunIds, NEW tx, Cancel(p, r) \/ ResumeRequest(p, r, tx)
        PROVE  UNCHANGED guardVars
    BY <2>2 DEF Cancel, ResumeRequest
  <2>3. ASSUME NEW r \in RunIds, Cancel(p, r)
        PROVE  UNCHANGED guardVars
    BY <2>3 DEF Cancel
  <2>4. ASSUME NEW g \in Goals, RunRequest(p, g)
        PROVE  UNCHANGED guardVars
    BY <2>4 DEF RunRequest
  <2> QED BY <1>3, <2>1, <2>2, <2>3, <2>4 DEF Request
<1>4. ASSUME NEW p \in Procs, Claim(p)
      PROVE  UNCHANGED guardVars
  BY <1>4 DEF Claim, RunExisting, RunClaim, ResumeNothing, ResumeClaim
<1>5. ASSUME NEW p \in Procs, Step(p)
      PROVE  GuardMove(p) \/ UNCHANGED guardVars
  <2>1. ASSUME GuardStep(p) PROVE GuardMove(p)
    BY <2>1 DEF GuardStep, GuardMove
  <2>2. ASSUME Answer(p) PROVE Ends(p)
    BY <2>2 DEF Answer, Ends
  <2>3. ASSUME RunDecide(p) PROVE GuardMove(p)
    <3>1. task[p].intent \in AnyIntent
      BY <2>3, ReadTask DEF RunDecide, Doing, AgentTyped, AnyIntent
    <3> QED BY <3>1, <2>3 DEF RunDecide, GuardMove
  <2>4. ASSUME RunPlan(p) PROVE Ends(p)
    BY <2>4 DEF RunPlan, Ends, stored
  <2>5. ASSUME RunAct(p) \/ RunSave(p) PROVE UNCHANGED guardVars
    BY <2>5 DEF RunAct, RunSave
  <2>6. ASSUME ResumeFinalize(p) PROVE GuardMove(p)
    <3>1. task[p].tx \in Txs \cup {NoTx}
      BY <2>6, ReadTask DEF ResumeFinalize, Doing, AgentTyped
    <3> QED BY <3>1, <2>6 DEF ResumeFinalize, GuardMove, FinalizeCheck
  <2>7. ASSUME ResumeSave(p) PROVE Ends(p)
    BY <2>7 DEF ResumeSave, Ends, stored
  <2> QED BY <1>5, <2>1, <2>2, <2>3, <2>4, <2>5, <2>6, <2>7 DEF Step, GuardMove
<1>6. ASSUME NEW p \in Procs, AgentRestart(p)
      PROVE  Ends(p)
  BY <1>6 DEF AgentRestart, Restart, Ends, stored
<1> QED BY <1>1, <1>2, <1>3, <1>4, <1>5, <1>6 DEF Next, GuardMove

----------------------------------------------------------------------------
(* The types of the decision module. *)

LEMMA GuardBegins ==
    ASSUME AgentInit
    PROVE  GuardTyped /\ AgentTyped /\ GuardPointing /\ AgentPointing
<1>1. IsFiniteSet({})
  BY FS_EmptySet
<1> QED BY <1>1, MakeCall, MakeTask DEF AgentInit, Init, GuardTyped, AgentTyped, GuardPointing,
     AgentPointing, Idle

LEMMA StoredTyped ==
    ASSUME NEW p \in Procs, NEW o \in Observations, IsFiniteSet(journal)
    PROVE  Stored(p, o) \in Item
<1>1. Cardinality(journal) \in Nat
  BY FS_CardinalityType
<1>2. o.kind \in DOMAIN Allowed
  BY GuardConstants
<1>3. Quarantined(o) \in SUBSET ({"raw_text"} \cup UNION {DOMAIN oo.facts : oo \in Observations})
  BY DEF Quarantined
<1> QED BY <1>1, <1>2, <1>3 DEF Stored, Kept, Item

LEMMA DraftTyped ==
    ASSUME GuardTyped, NEW p \in Procs, NEW i \in AnyIntent
    PROVE  [intent |-> i, verdict |-> Verdict(i, Range(memory), clock), root |-> memory,
            policy |-> config[p].policy, expires |-> clock + TTL] \in Draft
<1>1. Verdict(i, Range(memory), clock) \in Verdicts
  BY DEF Verdict, Verdicts
<1>2. config[p].policy \in {c.policy : c \in Configs}
  BY DEF GuardTyped
<1>3. clock + TTL \in Nat
  BY GuardConstants DEF GuardTyped
<1> QED BY <1>1, <1>2, <1>3 DEF Draft, GuardTyped

LEMMA SubjectTyped ==
    ASSUME GuardTyped, NEW i \in Range(memory)
    PROVE  i \in Item
  BY DEF GuardTyped, Range

(* One call moves on, and the others are where they were. *)
LEMMA Moved ==
    ASSUME call \in [Procs -> CallState], NEW p \in Procs, NEW c \in CallState, Goto(p, c)
    PROVE  /\ call' \in [Procs -> CallState]
           /\ call'[p] = c
           /\ \A q \in Procs : q # p => call'[q] = call[q]
  BY DEF Goto

(* What asking the chain or planning comes to. *)
LEMMA AskResults ==
    ASSUME NEW p \in Procs, NEW d, NEW tx \in Txs \cup {NoTx}
    PROVE  /\ \A s \in VerifyStates(p, d, tx) : [state |-> s, tx |-> tx] \in Result
           /\ \A s \in PlanStates(p, d) : [state |-> s, tx |-> tx] \in Result
           /\ VerifyStates(p, d, tx) \subseteq {"failed", "pending", "verified"}
           /\ PlanStates(p, d) \subseteq {"confirmation_required", "failed", "local_finalized"}
<1>1. VerifyStates(p, d, tx) \subseteq {"failed", "pending", "verified"}
  BY DEF VerifyStates
<1>2. PlanStates(p, d) \subseteq {"confirmation_required", "failed", "local_finalized"}
  BY DEF PlanStates
<1> QED BY <1>1, <1>2 DEF Result

(* How finalize goes on: with the same draft, or to its answer. *)
LEMMA FinalizeMoves ==
    ASSUME GuardTyped, GuardPointing, NEW p \in Procs,
           FinalizeExisting(p) \/ FinalizeAsk(p) \/ FinalizeSave(p)
    PROVE  \E c \in CallState :
               /\ Goto(p, c)
               /\ \/ c.at \in {"ask", "save"} /\ c.d = call[p].d
                  \/ c.at = "returned" /\ c.result \in {Refused} \cup Result
<1> DEFINE On(c) == /\ Goto(p, c)
                    /\ \/ c.at \in {"ask", "save"} /\ c.d = call[p].d
                       \/ c.at = "returned" /\ c.result \in {Refused} \cup Result
<1>0. call[p] \in CallState
  BY DEF GuardTyped
<1>1. ASSUME NEW result \in {Refused} \cup Result, Return(p, result)
      PROVE  \E c \in CallState : On(c)
  <2> DEFINE c == [at |-> "returned", result |-> result]
  <2>1. c \in CallState
    BY MakeCall, MakeReply
  <2>2. On(c)
    BY <1>1 DEF Return
  <2> QED BY <2>1, <2>2
<1>2. CASE FinalizeExisting(p)
  <2>1. call[p].at = "existing" /\ call[p].d \in DOMAIN decisions
    BY <1>2 DEF FinalizeExisting, At, GuardPointing
  <2>2. [call[p] EXCEPT !.at = "ask"] = [at |-> "ask", d |-> call[p].d, tx |-> call[p].tx]
        /\ call[p].d \in Nat /\ call[p].tx \in Txs \cup {NoTx}
    BY <1>0, <2>1, ReadCall
  <2>3. finals[call[p].d] # Nothing => finals[call[p].d] \in Result
    BY <2>1 DEF GuardTyped
  <2>4. CASE Goto(p, [call[p] EXCEPT !.at = "ask"])
    <3> DEFINE c == [at |-> "ask", d |-> call[p].d, tx |-> call[p].tx]
    <3>1. c \in CallState
      BY <2>2, MakeCall
    <3>2. On(c)
      BY <2>4, <2>2
    <3> QED BY <3>1, <3>2
  <2>5. \/ Goto(p, [call[p] EXCEPT !.at = "ask"])
        \/ \E result \in {Refused} \cup Result : Return(p, result)
    BY <1>2, <2>3 DEF FinalizeExisting
  <2> QED BY <2>4, <2>5, <1>1
<1>3. CASE FinalizeAsk(p)
  <2> DEFINE d == call[p].d
             tx == call[p].tx
             Answered(s) == [state |-> s, tx |-> tx]
  <2>1. call[p].at = "ask"
    BY <1>3 DEF FinalizeAsk, At
  <2>2. d \in Nat /\ tx \in Txs \cup {NoTx}
    BY <1>0, <2>1, ReadCall
  <2>3. \A s \in VerifyStates(p, d, tx) \cup PlanStates(p, d) : Answered(s) \in Result
    BY <2>2, AskResults
  <2>4. \/ \E result \in {Refused} \cup Result : Return(p, result)
        \/ \E s \in VerifyStates(p, d, tx) \cup PlanStates(p, d) :
               Goto(p, [at |-> "save", d |-> d, result |-> Answered(s)])
    BY <1>3, <2>3 DEF FinalizeAsk
  <2>5. ASSUME NEW s \in VerifyStates(p, d, tx) \cup PlanStates(p, d),
               Goto(p, [at |-> "save", d |-> d, result |-> Answered(s)])
        PROVE  \E c \in CallState : On(c)
    <3> DEFINE c == [at |-> "save", d |-> d, result |-> Answered(s)]
    <3>1. c \in CallState
      BY <2>2, <2>3, MakeCall
    <3>2. On(c)
      BY <2>5
    <3> QED BY <3>1, <3>2
  <2> QED BY <2>4, <2>5, <1>1
<1>4. CASE FinalizeSave(p)
  <2>1. call[p].result \in Result
    BY <1>0, <1>4, ReadCall DEF FinalizeSave, At
  <2> QED BY <2>1, <1>1, <1>4 DEF FinalizeSave
<1> QED BY <1>2, <1>3, <1>4

LEMMA GuardTypedStep ==
    ASSUME GuardTyped, GuardPointing, AgentTyped, [Next]_vars
    PROVE  GuardTyped' /\ GuardPointing'
<1> USE DEF GuardTyped, GuardPointing, stored
<1>1. ASSUME NEW p \in Procs, NEW o \in Observations, ObserveLoad(p, o)
      PROVE  GuardTyped' /\ GuardPointing'
  <2>1. Stored(p, o) \in Item
    BY StoredTyped
  <2>2. \A i \in Range(memory) : Receipt(i) \in Replies /\ Receipt(i) \notin Made
    BY SubjectTyped, MakeReply
  <2>3. \E c \in CallState : /\ Goto(p, c)
                           /\ \/ c.at = "commit"
                              \/ (c.at = "returned" /\ c.result \notin Made)
    <3>1. CASE {i \in Range(memory) : i.key = o.key} = {}
      <4> DEFINE c == [at |-> "commit", item |-> Stored(p, o), seen |-> memory]
      <4>1. Goto(p, c)
        BY <1>1, <3>1 DEF ObserveLoad
      <4>2. c \in CallState /\ c.at = "commit"
        BY <2>1, MakeCall
      <4> QED BY <4>1, <4>2
    <3>2. CASE {i \in Range(memory) : i.key = o.key} # {}
      <4>1. PICK i \in Range(memory) : Return(p, Receipt(i))
        BY <1>1, <3>2 DEF ObserveLoad
      <4> DEFINE c == [at |-> "returned", result |-> Receipt(i)]
      <4>2. Goto(p, c)
        BY <4>1 DEF Return
      <4>3. c \in CallState /\ c.at = "returned" /\ c.result = Receipt(i)
        BY <2>2, MakeCall
      <4> QED BY <4>2, <4>3, <2>2
    <3> QED BY <3>1, <3>2
  <2> QED BY <2>3, <1>1 DEF ObserveLoad, Goto
<1>2. ASSUME NEW p \in Procs, CommitCompare(p)
      PROVE  GuardTyped' /\ GuardPointing'
  <2>1. call[p] \in CallState /\ call[p].at = "commit"
    BY <1>2 DEF CommitCompare, At
  <2>2. [call[p] EXCEPT !.at = "event"]
            = [at |-> "event", item |-> call[p].item, seen |-> call[p].seen]
        /\ call[p].item \in Item /\ call[p].seen \in Seq(Item)
    BY <2>1, ReadCall
  <2>4. [at |-> "event", item |-> call[p].item, seen |-> call[p].seen] \in CallState
    BY <2>2, MakeCall
  <2>3. [at |-> "returned", result |-> Refused] \in CallState /\ Refused \notin Made
    BY MakeCall, MakeReply
  <2>5. \E c \in CallState : /\ Goto(p, c)
                             /\ \/ c.at = "event"
                                \/ c.at = "returned" /\ c.result \notin Made
    <3>1. CASE Len(memory) = Len(call[p].seen)
      <4> DEFINE c == [at |-> "event", item |-> call[p].item, seen |-> call[p].seen]
      <4>1. Goto(p, c) /\ c \in CallState /\ c.at = "event"
        BY <1>2, <3>1, <2>2, <2>4 DEF CommitCompare
      <4> QED BY <4>1
    <3>2. CASE Len(memory) # Len(call[p].seen)
      <4> DEFINE c == [at |-> "returned", result |-> Refused]
      <4>1. Goto(p, c) /\ c \in CallState /\ c.at = "returned" /\ c.result \notin Made
        BY <1>2, <3>2, <2>3 DEF CommitCompare, Return
      <4> QED BY <4>1
    <3> QED BY <3>1, <3>2
  <2> QED BY <1>2, <2>5, Moved DEF CommitCompare
<1>3. ASSUME NEW p \in Procs, CommitEvent(p)
      PROVE  GuardTyped' /\ GuardPointing'
  <2>1. call[p] \in CallState /\ call[p].at = "event"
    BY <1>3 DEF CommitEvent, At
  <2>2. [call[p] EXCEPT !.at = "entity"]
            = [at |-> "entity", item |-> call[p].item, seen |-> call[p].seen]
        /\ call[p].item \in Item /\ call[p].seen \in Seq(Item)
    BY <2>1, ReadCall
  <2>4. [at |-> "entity", item |-> call[p].item, seen |-> call[p].seen] \in CallState
    BY <2>2, MakeCall
  <2>3. IsFiniteSet(journal \cup {call[p].item})
    BY FS_AddElement
  <2> QED BY <1>3, <2>2, <2>3, <2>4 DEF CommitEvent, Goto
<1>4. ASSUME NEW p \in Procs, CommitEntity(p)
      PROVE  GuardTyped' /\ GuardPointing'
  <2>1. call[p] \in CallState /\ call[p].at = "entity"
    BY <1>4 DEF CommitEntity, At
  <2>2. call[p].item \in Item /\ call[p].seen \in Seq(Item)
    BY <2>1, ReadCall
  <2>3. Append(call[p].seen, call[p].item) \in Seq(Item)
    BY <2>2
  <2>4. /\ [at |-> "returned", result |-> Receipt(call[p].item)] \in CallState
        /\ Receipt(call[p].item) \notin Made
    BY <2>2, MakeCall, MakeReply
  <2> QED BY <1>4, <2>3, <2>4 DEF CommitEntity, Goto, Return
<1>5. ASSUME NEW p \in Procs, NEW i \in AnyIntent, DecideLoad(p, i)
      PROVE  GuardTyped' /\ GuardPointing'
  <2> DEFINE draft == [intent |-> i, verdict |-> Verdict(i, Range(memory), clock), root |-> memory,
                       policy |-> config[p].policy, expires |-> clock + TTL]
  <2>1. draft \in Draft
    BY DraftTyped
  <2>2. Goto(p, [at |-> "draft", decision |-> draft])
    BY <1>5 DEF DecideLoad
  <2> HIDE DEF draft
  <2>3. [at |-> "draft", decision |-> draft] \in CallState
    BY <2>1, MakeCall
  <2> QED BY <1>5, <2>2, <2>3 DEF DecideLoad, Goto
<1>6. ASSUME NEW p \in Procs, DecideSave(p)
      PROVE  GuardTyped' /\ GuardPointing'
  <2>1. call[p] \in CallState /\ call[p].at = "draft"
    BY <1>6 DEF DecideSave, At
  <2>2. call[p].decision \in Draft
    BY <2>1, ReadCall
  <2>3. [state |-> "decided", decision |-> Len(decisions) + 1] \in Made
    BY MakeReply
  <2>4. [at |-> "returned", result |-> [state |-> "decided", decision |-> Len(decisions) + 1]]
           \in CallState
    BY <2>3, MakeCall, MakeReply
  <2>5. /\ Append(decisions, call[p].decision) \in Seq(Draft)
        /\ Append(finals, Nothing) \in Seq(Result \cup {Nothing})
        /\ Len(Append(finals, Nothing)) = Len(Append(decisions, call[p].decision))
        /\ DOMAIN Append(decisions, call[p].decision) = DOMAIN decisions \cup {Len(decisions) + 1}
    BY <2>2
  <2> QED BY <1>6, <2>4, <2>5 DEF DecideSave, Goto, Return
<1>7. ASSUME NEW p \in Procs, NEW d \in DOMAIN decisions, NEW tx \in Txs \cup {NoTx},
             FinalizeCheck(p, d, tx)
      PROVE  GuardTyped' /\ GuardPointing'
  <2>1. d \in Nat
    OBVIOUS
  <2>2. [at |-> "existing", d |-> d, tx |-> tx] \in CallState
    BY <2>1, MakeCall
  <2>3. [at |-> "returned", result |-> Refused] \in CallState /\ Refused \notin Made
    BY MakeCall, MakeReply
  <2> QED BY <1>7, <2>2, <2>3 DEF FinalizeCheck, Goto, Return
<1>8. ASSUME NEW p \in Procs, FinalizeExisting(p) \/ FinalizeAsk(p)
      PROVE  GuardTyped' /\ GuardPointing'
  <2>1. PICK c \in CallState : /\ Goto(p, c)
                              /\ \/ c.at \in {"ask", "save"} /\ c.d = call[p].d
                                 \/ c.at = "returned" /\ c.result \in {Refused} \cup Result
    BY <1>8, FinalizeMoves
  <2>2. call[p].d \in DOMAIN decisions
    BY <1>8 DEF FinalizeExisting, FinalizeAsk, At
  <2>3. c.at = "returned" => c.result \notin Made
    BY <2>1, MakeReply
  <2>4. UNCHANGED <<stored, config, clock, acknowledged>>
    BY <1>8 DEF FinalizeExisting, FinalizeAsk
  <2> QED BY <2>1, <2>2, <2>3, <2>4, Moved
<1>10. ASSUME NEW p \in Procs, FinalizeSave(p)
      PROVE  GuardTyped' /\ GuardPointing'
  <2>1. PICK c \in CallState : /\ Goto(p, c)
                              /\ \/ c.at \in {"ask", "save"} /\ c.d = call[p].d
                                 \/ c.at = "returned" /\ c.result \in {Refused} \cup Result
    BY <1>10, FinalizeMoves
  <2>2. call[p] \in CallState /\ call[p].at = "save"
    BY <1>10 DEF FinalizeSave, At
  <2>3. call[p].result \in Result /\ call[p].d \in DOMAIN decisions
    BY <2>2, ReadCall
  <2>4. c.at = "returned" => c.result \notin Made
    BY <2>1, MakeReply
  <2>5. [finals EXCEPT ![call[p].d] = call[p].result] \in Seq(Result \cup {Nothing})
        /\ Len([finals EXCEPT ![call[p].d] = call[p].result]) = Len(finals)
    BY <2>3
  <2> QED BY <1>10, <2>1, <2>3, <2>4, <2>5, Moved DEF FinalizeSave
<1>11. ASSUME NEW p \in Procs, Ends(p)
      PROVE  GuardTyped' /\ GuardPointing'
  <2>1. acknowledged' \subseteq Item
    <3>1. At(p, "returned") /\ call[p].result.state = "observed" => call[p].result.item \in Item
      BY ReadCall, ReadReply DEF At
    <3> QED BY <1>11, <3>1 DEF Ends
  <2>2. config' \in [Procs -> Configs]
    BY <1>11 DEF Ends
  <2> QED BY <1>11, <2>1, <2>2, MakeCall DEF Ends, Goto, Idle
<1>12. CASE Outside
  BY <1>12 DEF Outside
<1>13. CASE UNCHANGED guardVars
  BY <1>13 DEF guardVars
<1> QED BY GuardMoves, <1>1, <1>2, <1>3, <1>4, <1>5, <1>6, <1>7, <1>8, <1>10, <1>11, <1>12, <1>13
     DEF GuardMove

----------------------------------------------------------------------------
(* The types of the agent, and what its requests and calls mean to each    *)
(* other.                                                                  *)

LEMMA DraftsStay ==
    ASSUME GuardTyped, AgentTyped, [Next]_vars
    PROVE  \A d \in DOMAIN decisions : d \in DOMAIN decisions' /\ decisions'[d] = decisions[d]
<1>1. ASSUME NEW p \in Procs, DecideSave(p)
      PROVE  \A d \in DOMAIN decisions : d \in DOMAIN decisions' /\ decisions'[d] = decisions[d]
  <2>1. call[p].decision \in Draft
    BY <1>1, ReadCall DEF DecideSave, At, GuardTyped
  <2> QED BY <1>1, <2>1 DEF DecideSave, GuardTyped
<1>2. ASSUME NEW p \in Procs, GuardMove(p), ~DecideSave(p)
      PROVE  decisions' = decisions
  BY <1>2 DEF GuardMove, ObserveLoad, CommitCompare, CommitEvent, CommitEntity, DecideLoad,
     FinalizeCheck, FinalizeExisting, FinalizeAsk, FinalizeSave, Ends, stored
<1> QED BY <1>1, <1>2, GuardMoves DEF Outside, guardVars, stored

(* A call under way goes on as what it was. *)
LEMMA CallGoesOn ==
    ASSUME GuardTyped, GuardPointing, NEW p \in Procs, GuardStep(p)
    PROVE  /\ \A q \in Procs : q # p => call'[q] = call[q]
           /\ \/ call[p].at \in {"commit", "event", "entity"}
              \/ /\ call[p].at = "draft"
                 /\ call'[p].at = "returned" /\ call'[p].result \in Made
              \/ /\ call[p].at \in {"existing", "ask", "save"}
                 /\ \/ call'[p].at \in {"ask", "save"} /\ call'[p].d = call[p].d
                    \/ call'[p].at = "returned" /\ call'[p].result \in {Refused} \cup Result
<1>0. call \in [Procs -> CallState]
  BY DEF GuardTyped
<1>1. CASE CommitCompare(p) \/ CommitEvent(p) \/ CommitEntity(p)
  BY <1>0, <1>1 DEF CommitCompare, CommitEvent, CommitEntity, At, Goto, Return
<1>2. CASE DecideSave(p)
  <2>1. [state |-> "decided", decision |-> Len(decisions) + 1] \in Made
    BY MakeReply DEF GuardTyped
  <2> QED BY <1>0, <1>2, <2>1 DEF DecideSave, At, Goto, Return
<1>3. CASE FinalizeExisting(p) \/ FinalizeAsk(p) \/ FinalizeSave(p)
  <2>1. call[p].at \in {"existing", "ask", "save"}
    BY <1>3 DEF FinalizeExisting, FinalizeAsk, FinalizeSave, At
  <2>2. PICK c \in CallState : /\ Goto(p, c)
                              /\ \/ c.at \in {"ask", "save"} /\ c.d = call[p].d
                                 \/ c.at = "returned" /\ c.result \in {Refused} \cup Result
    BY <1>3, FinalizeMoves
  <2> QED BY <1>0, <2>1, <2>2, Moved
<1> QED BY <1>1, <1>2, <1>3 DEF GuardStep

LEMMA TaskMoved ==
    ASSUME task \in [Procs -> TaskState], NEW p \in Procs, NEW t \in TaskState, Do(p, t)
    PROVE  /\ task' \in [Procs -> TaskState]
           /\ task'[p] = t
           /\ \A q \in Procs : q # p => task'[q] = task[q]
  BY DEF Do

LEMMA AnswerTyped ==
    ASSUME NEW answer \in ModelAnswers
    PROVE  /\ answer.degraded \in BOOLEAN
           /\ answer.plan.receipt \in {plan.receipt : plan \in Plans} \cup {"none"}
<1>1. ASSUME NEW plan \in Plans, answer = [plan |-> plan, degraded |-> FALSE]
      PROVE  answer.degraded = FALSE /\ answer.plan = plan
  BY <1>1, Zenon
<1>2. ASSUME answer = [plan |-> [requested |-> {}, receipt |-> "none"], degraded |-> TRUE]
      PROVE  answer.degraded = TRUE /\ answer.plan = [requested |-> {}, receipt |-> "none"]
  BY <1>2, Zenon
<1>3. \/ \E plan \in Plans : answer = [plan |-> plan, degraded |-> FALSE]
      \/ answer = [plan |-> [requested |-> {}, receipt |-> "none"], degraded |-> TRUE]
  BY Zenon DEF ModelAnswers
<1>4. answer.degraded \in BOOLEAN
  BY <1>1, <1>2, <1>3, Zenon
<1>5. answer.plan \in Plans \/ answer.plan = [requested |-> {}, receipt |-> "none"]
  BY <1>1, <1>2, <1>3, Zenon
<1>6. answer.plan.receipt \in {plan.receipt : plan \in Plans} \cup {"none"}
  BY <1>5
<1> QED BY <1>4, <1>6

LEMMA VerdictTools ==
    ASSUME NEW v
    PROVE  /\ MandatoryTool(v) \in Tools /\ AllowedTools(v) \subseteq Tools
           /\ BaseState(v) \in {"await_finalize", "block_and_escalate", "await_human_review"}
  BY DEF MandatoryTool, AllowedTools, BaseState, Tools

(* Reading and changing a run. *)
LEMMA RunFields ==
    ASSUME NEW run \in Run
    PROVE  /\ run.decision \in Nat
           /\ run.artifacts \subseteq Tools
           /\ \A s \in {"await_finalize", "block_and_escalate", "await_human_review"} \cup Stopped :
                 [run EXCEPT !.state = s] \in Run
           /\ \A s \in AnchorStates :
                 /\ [run EXCEPT !.prepared = s, !.anchor = s] \in Run
                 /\ [run EXCEPT !.verified = s, !.anchor = s] \in Run
           /\ [run EXCEPT !.verified = "failed", !.anchor = "failed",
                          !.state = "block_and_redecide"] \in Run
           /\ \A tool \in Tools : [run EXCEPT !.artifacts = @ \cup {tool}] \in Run
<1> DEFINE States == {"await_finalize", "block_and_escalate", "await_human_review"} \cup Stopped
<1>1. run.decision \in Nat /\ run.artifacts \subseteq Tools
  BY DEF Run, Tools, Registered
<1>2. \A s \in States : [run EXCEPT !.state = s] \in Run
  BY DEF Run
<1>3. \A s \in AnchorStates : [run EXCEPT !.prepared = s, !.anchor = s] \in Run
  BY DEF Run
<1>4. \A s \in AnchorStates : [run EXCEPT !.verified = s, !.anchor = s] \in Run
  BY DEF Run
<1>5. "failed" \in AnchorStates /\ "block_and_redecide" \in States
  BY DEF AnchorStates, Stopped
<1>6. [[run EXCEPT !.verified = "failed", !.anchor = "failed"]
          EXCEPT !.state = "block_and_redecide"] \in Run
  <2>1. [run EXCEPT !.verified = "failed", !.anchor = "failed"] \in Run
    BY <1>4, <1>5
  <2> QED BY <2>1, <1>5 DEF Run
<1>7. \A tool \in Tools : [run EXCEPT !.artifacts = @ \cup {tool}] \in Run
  BY DEF Run, Tools, Registered
<1> QED BY <1>1, <1>2, <1>3, <1>4, <1>6, <1>7

LEMMA AnchoredTyped ==
    ASSUME NEW run \in Run, NEW tx, NEW result \in {Refused} \cup Result
    PROVE  Anchored(run, tx, result) \in Run
<1>1. result \in Result => result.state \in AnchorStates
  BY DEF Result, AnchorStates
<1> QED BY <1>1, RunFields DEF Anchored

(* What every number of processes keeps of tasks, runs and claims. *)
ClaimInv == AgentTyped /\ AgentPointing /\ Coupled /\ Claimed

(* A task that only starts, waits or ends. *)
LEMMA TaskWaits ==
    ASSUME ClaimInv, NEW p \in Procs, NEW t \in TaskState, Do(p, t),
           call[p] = Idle, t.at \in {"idle", "claim_run", "claim_anchor"},
           UNCHANGED <<call, decisions, runs, held>>
    PROVE  ClaimInv'
  BY TaskMoved DEF ClaimInv, AgentTyped, AgentPointing, Coupled, Claimed

LEMMA RunSaved ==
    ASSUME NEW run \in Run, NEW d, run.decision = d,
           NEW failed, NEW degraded, NEW s,
           s = [run EXCEPT !.state = IF failed THEN "halt_action_unavailable"
                                     ELSE IF degraded THEN "degraded_safe_only" ELSE @]
    PROVE  s \in Run /\ s.decision = d
<1>1. run.state \in {"await_finalize", "block_and_escalate", "await_human_review"} \cup Stopped
  BY DEF Run
<1>2. {"halt_action_unavailable", "degraded_safe_only"} \subseteq Stopped
  BY DEF Stopped
<1>3. s \in Run
  BY <1>1, <1>2, RunFields
<1>4. s.decision = run.decision
  BY DEF Run
<1> QED BY <1>3, <1>4

LEMMA ClaimRequests ==
    ASSUME GuardTyped, ClaimInv, NEW p \in Procs,
           \/ \E g \in Goals : RunRequest(p, g)
           \/ \E r \in RunIds, tx \in Txs \cup {NoTx} : ResumeRequest(p, r, tx)
           \/ \E r \in RunIds : Cancel(p, r)
    PROVE  ClaimInv'
<1>0. task \in [Procs -> TaskState] /\ call \in [Procs -> CallState]
  BY DEF ClaimInv, AgentTyped, GuardTyped
<1>1. ASSUME NEW g \in Goals, RunRequest(p, g)
      PROVE  ClaimInv'
  <2> DEFINE t == [at |-> "claim_run", run |-> g.run, intent |-> g.intent]
  <2>1. t \in TaskState /\ t.at = "claim_run"
    BY AgentConstants, MakeTask
  <2>2. Do(p, t) /\ UNCHANGED <<call, decisions, runs, held>>
    BY <1>1 DEF RunRequest, guardVars, stored
  <2>3. call[p] = Idle
    BY <1>0, <1>1, ReadCall DEF RunRequest, At
  <2> HIDE DEF t
  <2> QED BY <2>1, <2>2, <2>3, TaskWaits
<1>2. ASSUME NEW r \in RunIds, NEW tx \in Txs \cup {NoTx}, ResumeRequest(p, r, tx)
      PROVE  ClaimInv'
  <2> DEFINE t == [at |-> "claim_anchor", run |-> r, tx |-> tx]
  <2>1. t \in TaskState /\ t.at = "claim_anchor"
    BY MakeTask
  <2>2. Do(p, t) /\ UNCHANGED <<call, decisions, runs, held>>
    BY <1>2 DEF ResumeRequest, guardVars, stored
  <2>3. call[p] = Idle
    BY <1>0, <1>2, ReadCall DEF ResumeRequest, At
  <2> HIDE DEF t
  <2> QED BY <2>1, <2>2, <2>3, TaskWaits
<1>3. ASSUME NEW r \in RunIds, Cancel(p, r)
      PROVE  ClaimInv'
  <2> DEFINE run == [runs[r] EXCEPT !.state = "cancelled"]
  <2>1. runs[r] \in Run
    BY <1>3 DEF Cancel, ClaimInv, AgentTyped
  <2>2. run \in Run /\ run.decision = runs[r].decision
    <3>1. "cancelled" \in Stopped
      BY DEF Stopped
    <3>2. run \in Run
      BY <2>1, <3>1, RunFields
    <3> QED BY <2>1, <3>2 DEF Run
  <2>3. runs' = [runs EXCEPT ![r] = run]
    BY <1>3 DEF Cancel
  <2>4. UNCHANGED <<call, decisions, held, task>>
    BY <1>3 DEF Cancel, guardVars, stored
  <2>5. run # Nothing
    BY <2>2, AgentConstants
  <2>6. held[r] \notin Procs
    BY <1>3, GuardConstants DEF Cancel
  <2> HIDE DEF run
  <2> QED BY <1>0, <1>3, <2>1, <2>2, <2>3, <2>4, <2>5, <2>6
       DEF Cancel, ClaimInv, AgentTyped, AgentPointing, Coupled, Claimed
<1> QED BY <1>1, <1>2, <1>3

LEMMA ClaimClaims ==
    ASSUME GuardTyped, ClaimInv, NEW p \in Procs, Claim(p)
    PROVE  ClaimInv'
<1>0. task \in [Procs -> TaskState] /\ call \in [Procs -> CallState]
      /\ task[p].at \in {"claim_run", "claim_anchor"}
      /\ UNCHANGED <<call, decisions>>
  BY DEF ClaimInv, AgentTyped, GuardTyped, Claim, RunExisting, RunClaim, ResumeNothing, ResumeClaim,
     Doing, guardVars, stored
<1>1. call[p] = Idle
  BY <1>0 DEF ClaimInv, Coupled
<1>2. CASE RunExisting(p) \/ ResumeNothing(p)
  <2>1. Idle \in TaskState /\ Idle.at = "idle"
    BY MakeTask DEF Idle
  <2>2. Do(p, Idle) /\ UNCHANGED <<runs, held>>
    BY <1>2 DEF RunExisting, ResumeNothing
  <2> QED BY <1>0, <1>1, <2>1, <2>2, TaskWaits
<1>3. CASE RunClaim(p)
  <2> DEFINE t == [at |-> "decide", run |-> task[p].run, intent |-> task[p].intent]
  <2>1. /\ [task[p] EXCEPT !.at = "decide"] = t
        /\ task[p].run \in RunIds /\ task[p].intent \in {g.intent : g \in Goals}
    BY <1>0, <1>3, ReadTask DEF RunClaim, Doing
  <2>2. t \in TaskState /\ t.at = "decide" /\ t.run = task[p].run
    BY <2>1, MakeTask
  <2>3. Do(p, t) /\ UNCHANGED runs /\ Lock(task[p].run, p) /\ runs[task[p].run] = Nothing
    BY <1>3, <2>1 DEF RunClaim
  <2>4. \A q \in Procs : held[task[p].run] # q
    BY <2>3, GuardConstants DEF Lock
  <2> HIDE DEF t
  <2> QED BY <1>0, <1>1, <2>1, <2>2, <2>3, <2>4, TaskMoved
       DEF Lock, ClaimInv, AgentTyped, AgentPointing, Coupled, Claimed
<1>4. CASE ResumeClaim(p)
  <2> DEFINE t == [at |-> "finalize", run |-> task[p].run, tx |-> task[p].tx]
  <2>1. /\ [task[p] EXCEPT !.at = "finalize"] = t
        /\ task[p].run \in RunIds /\ task[p].tx \in Txs \cup {NoTx}
    BY <1>0, <1>4, ReadTask DEF ResumeClaim, Doing
  <2>2. t \in TaskState /\ t.at = "finalize" /\ t.run = task[p].run
    BY <2>1, MakeTask
  <2>3. Do(p, t) /\ UNCHANGED runs /\ Lock(task[p].run, p) /\ runs[task[p].run] # Nothing
    BY <1>4, <2>1 DEF ResumeClaim, Resumable
  <2>4. \A q \in Procs : held[task[p].run] # q
    BY <2>3, GuardConstants DEF Lock
  <2> HIDE DEF t
  <2> QED BY <1>0, <1>1, <2>1, <2>2, <2>3, <2>4, TaskMoved
       DEF Lock, ClaimInv, AgentTyped, AgentPointing, Coupled, Claimed
<1> QED BY <1>2, <1>3, <1>4 DEF Claim

LEMMA ClaimGuard ==
    ASSUME GuardTyped, GuardPointing, GuardTyped', ClaimInv, NEW p \in Procs,
           DOMAIN decisions \subseteq DOMAIN decisions', UNCHANGED agentVars,
           \/ Doing(p, "idle") /\ GuardRequest(p)
           \/ Doing(p, "idle") /\ Answer(p)
           \/ GuardStep(p)
    PROVE  ClaimInv'
<1>1. \A q \in Procs : q # p => call'[q] = call[q]
  BY CallGoesOn DEF GuardTyped, GuardRequest, ObserveLoad, DecideLoad, FinalizeCheck, Answer, Goto, Return
<1>2. UNCHANGED <<runs, held, task>>
  BY DEF agentVars
<1>3. AgentTyped' /\ AgentPointing' /\ Claimed'
  BY <1>2 DEF ClaimInv, AgentTyped, AgentPointing, Claimed
<1>4. CASE Doing(p, "idle")
  BY <1>1, <1>2, <1>3, <1>4 DEF Doing, ClaimInv, Coupled
<1>5. CASE GuardStep(p)
  <2>1. call[p] # Idle /\ call[p].at # "returned"
    BY <1>5, CallGoesOn DEF Idle
  <2>2. \/ call[p].at \in {"commit", "event", "entity"}
        \/ /\ call[p].at = "draft"
           /\ call'[p].at = "returned" /\ call'[p].result \in Made
        \/ /\ call[p].at \in {"existing", "ask", "save"}
           /\ \/ call'[p].at \in {"ask", "save"} /\ call'[p].d = call[p].d
              \/ call'[p].at = "returned" /\ call'[p].result \in {Refused} \cup Result
    BY <1>5, CallGoesOn
  <2>3. Coupled'
    BY <1>1, <1>2, <2>1, <2>2 DEF ClaimInv, Coupled
  <2> QED BY <1>3, <2>3 DEF ClaimInv
<1> QED BY <1>3, <1>4, <1>5 DEF ClaimInv, Coupled

LEMMA ClaimRun ==
    ASSUME GuardTyped, GuardPointing, GuardTyped', ClaimInv, NEW p \in Procs,
           DOMAIN decisions \subseteq DOMAIN decisions',
           RunDecide(p) \/ RunPlan(p) \/ RunAct(p) \/ RunSave(p)
    PROVE  ClaimInv'
<1>0. task \in [Procs -> TaskState] /\ call \in [Procs -> CallState] /\ call' \in [Procs -> CallState]
  BY DEF ClaimInv, AgentTyped, GuardTyped
<1>1. CASE RunDecide(p)
  <2> DEFINE t == [at |-> "plan", run |-> task[p].run, intent |-> task[p].intent]
  <2>1. /\ [task[p] EXCEPT !.at = "plan"] = t
        /\ task[p].run \in RunIds /\ task[p].intent \in {g.intent : g \in Goals}
        /\ task[p].at = "decide"
    BY <1>0, <1>1, ReadTask DEF RunDecide, Doing
  <2>2. t \in TaskState /\ t.at = "plan" /\ t.run = task[p].run
    BY <2>1, MakeTask
  <2>3. Do(p, t) /\ UNCHANGED <<runs, held>>
    BY <1>1, <2>1 DEF RunDecide
  <2>4. /\ call'[p].at = "draft"
        /\ \A q \in Procs : q # p => call'[q] = call[q]
    BY <1>0, <1>1 DEF RunDecide, DecideLoad, Goto
  <2> HIDE DEF t
  <2> QED BY <1>0, <2>1, <2>2, <2>3, <2>4, TaskMoved
       DEF ClaimInv, AgentTyped, AgentPointing, Coupled, Claimed
<1>2. CASE RunPlan(p)
  <2>1. /\ task[p].at = "plan" /\ task[p].run \in RunIds
        /\ task[p].intent \in {g.intent : g \in Goals}
    BY <1>0, <1>2, ReadTask DEF RunPlan, Doing
  <2>2. /\ call[p].at = "returned" /\ call[p].result \in Made
        /\ call[p].result.decision \in DOMAIN decisions /\ call[p].result.decision \in Nat
    BY <1>2, <2>1 DEF RunPlan, At, ClaimInv, Coupled, GuardPointing, Made
  <2> DEFINE d == call[p].result.decision
             verdict == decisions[d].verdict
             todo(answer) == answer.plan.requested \cap AllowedTools(verdict)
             run(answer) == [intent |-> task[p].intent, decision |-> d,
                             degraded |-> answer.degraded, receipt |-> answer.plan.receipt,
                             requested |-> todo(answer),
                             artifacts |-> {}, state |-> BaseState(verdict),
                             prepared |-> Nothing, verified |-> Nothing,
                             anchor |-> "not_configured"]
             t(answer) == [at |-> "act", run |-> task[p].run, failed |-> FALSE,
                           todo |-> todo(answer) \cup {MandatoryTool(verdict)}, draft |-> run(answer)]
  <2>3. PICK answer \in ModelAnswers : Do(p, t(answer))
    BY <1>2 DEF RunPlan
  <2>4. run(answer) \in Run
    <3>1. todo(answer) \subseteq DOMAIN Registered
      BY VerdictTools DEF Tools, Registered
    <3>2. BaseState(verdict) \in {"await_finalize", "block_and_escalate", "await_human_review"}
      BY VerdictTools
    <3>3. "not_configured" \in AnchorStates
      BY DEF AnchorStates
    <3>4. answer.degraded \in BOOLEAN
          /\ answer.plan.receipt \in {plan.receipt : plan \in Plans} \cup {"none"}
      BY AnswerTyped
    <3> HIDE DEF d, verdict, todo
    <3>5. ASSUME NEW y \in BOOLEAN, NEW rec \in {plan.receipt : plan \in Plans} \cup {"none"}
          PROVE  [intent |-> task[p].intent, decision |-> d, degraded |-> y, receipt |-> rec,
                  requested |-> todo(answer), artifacts |-> {}, state |-> BaseState(verdict),
                  prepared |-> Nothing, verified |-> Nothing, anchor |-> "not_configured"] \in Run
      BY <2>1, <2>2, <3>1, <3>2, <3>3 DEF Run, d
    <3> QED BY <3>4, <3>5
  <2>5. todo(answer) \cup {MandatoryTool(verdict)} \subseteq Tools
    BY VerdictTools
  <2>6. run(answer).decision = d
    OBVIOUS
  <2>7. Goto(p, Idle) /\ UNCHANGED <<decisions, runs, held>>
    BY <1>2 DEF RunPlan, stored
  <2> DEFINE asked == todo(answer) \cup {MandatoryTool(verdict)}
             draft == run(answer)
  <2>8. draft \in Run /\ draft.decision \in DOMAIN decisions /\ asked \subseteq Tools
    BY <2>2, <2>4, <2>5, <2>6
  <2>9. Do(p, [at |-> "act", run |-> task[p].run, failed |-> FALSE, todo |-> asked, draft |-> draft])
    BY <2>3
  <2> HIDE DEF d, verdict, todo, run, t, asked, draft
  <2>10. ASSUME NEW y \in BOOLEAN
         PROVE  LET a == [at |-> "act", run |-> task[p].run, failed |-> y,
                          todo |-> asked, draft |-> draft]
                IN  a \in TaskState /\ a.at = "act" /\ a.run = task[p].run /\ a.draft = draft
    BY <2>1, <2>8, MakeTask
  <2>11. PICK a \in TaskState : Do(p, a) /\ a.at = "act" /\ a.run = task[p].run /\ a.draft = draft
    BY <2>9, <2>10
  <2>12. call'[p] = Idle /\ \A q \in Procs : q # p => call'[q] = call[q]
    BY <1>0, <2>7 DEF Goto
  <2> QED BY <1>0, <2>1, <2>7, <2>8, <2>11, <2>12, TaskMoved
       DEF ClaimInv, AgentTyped, AgentPointing, Coupled, Claimed
<1>3. CASE RunAct(p)
  <2>1. /\ task[p].at = "act" /\ task[p].run \in RunIds /\ task[p].draft \in Run
        /\ task[p].todo \subseteq Tools /\ task[p].failed \in BOOLEAN
        /\ task[p] = [at |-> "act", run |-> task[p].run, failed |-> task[p].failed,
                      todo |-> task[p].todo, draft |-> task[p].draft]
    BY <1>0, <1>3, ReadTask DEF RunAct, Doing
  <2>2. PICK tool \in task[p].todo :
           \/ Do(p, [[task[p] EXCEPT !.todo = @ \ {tool}] EXCEPT !.draft.artifacts = @ \cup {tool}])
           \/ Do(p, [[task[p] EXCEPT !.todo = @ \ {tool}] EXCEPT !.failed = TRUE])
    BY <1>3 DEF RunAct
  <2>3. UNCHANGED <<call, decisions, runs, held>>
    BY <1>3 DEF RunAct, guardVars, stored
  <2> DEFINE made == [task[p].draft EXCEPT !.artifacts = @ \cup {tool}]
             left == task[p].todo \ {tool}
  <2>4. made \in Run /\ made.decision = task[p].draft.decision /\ left \subseteq Tools
    <3>1. made \in Run
      BY <2>1, RunFields
    <3> QED BY <2>1, <3>1 DEF Run
  <2>14. task[p] = [at |-> "act", run |-> task[p].run, failed |-> task[p].failed,
                    todo |-> task[p].todo, draft |-> task[p].draft]
    BY <2>1
  <2> DEFINE next == [task[p] EXCEPT !.todo = @ \ {tool}]
  <2>5. next = [at |-> "act", run |-> task[p].run, failed |-> task[p].failed,
                todo |-> left, draft |-> task[p].draft]
    BY <2>14
  <2> HIDE DEF next
  <2>11. [next EXCEPT !.draft.artifacts = @ \cup {tool}]
            = [at |-> "act", run |-> task[p].run, failed |-> task[p].failed,
               todo |-> left, draft |-> made]
    BY <2>5
  <2>12. ASSUME NEW y
         PROVE  [next EXCEPT !.failed = y]
                   = [at |-> "act", run |-> task[p].run, failed |-> y,
                      todo |-> left, draft |-> task[p].draft]
    BY <2>5
  <2> USE DEF next
  <2>13. [[task[p] EXCEPT !.todo = @ \ {tool}] EXCEPT !.failed = TRUE]
            = [at |-> "act", run |-> task[p].run, failed |-> TRUE,
               todo |-> left, draft |-> task[p].draft]
    BY <2>12, Zenon
  <2>6. \/ Do(p, [at |-> "act", run |-> task[p].run, failed |-> task[p].failed,
                  todo |-> left, draft |-> made])
        \/ Do(p, [at |-> "act", run |-> task[p].run, failed |-> TRUE,
                  todo |-> left, draft |-> task[p].draft])
    BY <2>2, <2>11, <2>13, Zenon
  <2> HIDE DEF made, left
  <2>7. ASSUME NEW y \in BOOLEAN, NEW draft \in Run
        PROVE  LET a == [at |-> "act", run |-> task[p].run, failed |-> y,
                         todo |-> left, draft |-> draft]
               IN  a \in TaskState /\ a.at = "act" /\ a.run = task[p].run /\ a.draft = draft
    BY <2>1, <2>4, MakeTask
  <2>8. PICK a \in TaskState : /\ Do(p, a) /\ a.at = "act" /\ a.run = task[p].run
                               /\ a.draft.decision = task[p].draft.decision
    <3>1. CASE Do(p, [at |-> "act", run |-> task[p].run, failed |-> task[p].failed,
                  todo |-> left, draft |-> made])
      BY <2>1, <2>4, <2>7, <3>1
    <3>2. CASE Do(p, [at |-> "act", run |-> task[p].run, failed |-> TRUE,
                  todo |-> left, draft |-> task[p].draft])
      BY <2>1, <2>7, <3>2
    <3> QED BY <2>6, <3>1, <3>2
  <2>9. call[p] = Idle
    BY <2>1 DEF ClaimInv, Coupled
  <2> QED BY <1>0, <2>1, <2>3, <2>8, <2>9, TaskMoved
       DEF ClaimInv, AgentTyped, AgentPointing, Coupled, Claimed
<1>4. CASE RunSave(p)
  <2>1. task[p].at = "act" /\ task[p].run \in RunIds /\ task[p].draft \in Run
    BY <1>0, <1>4, ReadTask DEF RunSave, Doing
  <2> DEFINE run == [task[p].draft EXCEPT !.state =
                         IF task[p].failed THEN "halt_action_unavailable"
                         ELSE IF task[p].draft.degraded THEN "degraded_safe_only" ELSE @]
  <2>2. run \in Run /\ run.decision = task[p].draft.decision
    BY <2>1, RunSaved
  <2>3. run # Nothing
    BY <2>2, AgentConstants
  <2>4. runs' = [runs EXCEPT ![task[p].run] = run] \/ runs' = runs
    BY <1>4 DEF RunSave
  <2>5. /\ Do(p, Idle) /\ held' = [held EXCEPT ![task[p].run] = Nothing]
        /\ UNCHANGED <<call, decisions>>
    BY <1>4 DEF RunSave, guardVars, stored, Unlock
  <2>6. Idle \in TaskState /\ Idle.at = "idle"
    BY MakeTask DEF Idle
  <2> HIDE DEF run
  <2>7. /\ task' \in [Procs -> TaskState] /\ task'[p] = Idle
        /\ \A q \in Procs : q # p => task'[q] = task[q]
    BY <1>0, <2>5, <2>6, TaskMoved
  <2>8. \A q \in Procs : task[q].at \in {"decide", "plan", "act", "finalize", "anchored"}
                             => task[q].run \in RunIds
    BY <1>0, ReadTask
  <2>9. AgentTyped' /\ AgentPointing'
    BY <2>1, <2>2, <2>4, <2>5, <2>6, <2>7 DEF ClaimInv, AgentTyped, AgentPointing
  <2>10. Coupled'
    BY <2>5, <2>6, <2>7 DEF ClaimInv, Coupled
  <2>11. Claimed'
    BY <2>1, <2>3, <2>4, <2>5, <2>6, <2>7, <2>8 DEF ClaimInv, AgentTyped, Claimed
  <2> QED BY <2>9, <2>10, <2>11 DEF ClaimInv
<1> QED BY <1>1, <1>2, <1>3, <1>4

LEMMA ClaimResume ==
    ASSUME GuardTyped, GuardPointing, GuardTyped', ClaimInv, NEW p \in Procs,
           ResumeFinalize(p) \/ ResumeSave(p)
    PROVE  ClaimInv'
<1>0. /\ task \in [Procs -> TaskState] /\ call \in [Procs -> CallState]
      /\ call' \in [Procs -> CallState]
      /\ decisions' = decisions
  BY DEF ClaimInv, AgentTyped, GuardTyped, ResumeFinalize, FinalizeCheck, ResumeSave, stored
<1>1. \A q \in Procs : task[q].at \in {"decide", "plan", "act", "finalize", "anchored"}
                           => task[q].run \in RunIds
  BY <1>0, ReadTask
<1>2. CASE ResumeFinalize(p)
  <2> DEFINE t == [at |-> "anchored", run |-> task[p].run, tx |-> task[p].tx]
  <2>1. /\ [task[p] EXCEPT !.at = "anchored"] = t
        /\ task[p].run \in RunIds /\ task[p].tx \in Txs \cup {NoTx}
        /\ task[p].at = "finalize"
    BY <1>0, <1>2, ReadTask DEF ResumeFinalize, Doing
  <2>2. t \in TaskState /\ t.at = "anchored" /\ t.run = task[p].run
    BY <2>1, MakeTask
  <2>3. Do(p, t) /\ UNCHANGED <<runs, held>>
    BY <1>2, <2>1 DEF ResumeFinalize
  <2>4. /\ \/ call'[p].at = "existing"
           \/ call'[p].at = "returned" /\ call'[p].result = Refused
        /\ \A q \in Procs : q # p => call'[q] = call[q]
    BY <1>0, <1>2 DEF ResumeFinalize, FinalizeCheck, Goto, Return
  <2> HIDE DEF t
  <2> QED BY <1>0, <2>1, <2>2, <2>3, <2>4, TaskMoved
       DEF ClaimInv, AgentTyped, AgentPointing, Coupled, Claimed
<1>3. CASE ResumeSave(p)
  <2>1. task[p].at = "anchored" /\ task[p].run \in RunIds
    BY <1>0, <1>3, ReadTask DEF ResumeSave, Doing
  <2>2. /\ runs[task[p].run] \in Run
        /\ call[p].result \in {Refused} \cup Result
    BY <1>3, <2>1 DEF ResumeSave, At, ClaimInv, AgentTyped, Claimed, Coupled
  <2> DEFINE run == Anchored(runs[task[p].run], task[p].tx, call[p].result)
  <2>3. run \in Run
    BY <2>2, AnchoredTyped
  <2>4. run.decision = runs[task[p].run].decision
    BY <2>2 DEF Anchored, Run
  <2>5. run # Nothing
    BY <2>3, AgentConstants
  <2>6. /\ runs' = [runs EXCEPT ![task[p].run] = run]
        /\ held' = [held EXCEPT ![task[p].run] = Nothing]
        /\ Do(p, Idle) /\ Goto(p, Idle)
    BY <1>3 DEF ResumeSave, Unlock
  <2>7. Idle \in TaskState /\ Idle.at = "idle"
    BY MakeTask DEF Idle
  <2> HIDE DEF run
  <2>8. /\ task' \in [Procs -> TaskState] /\ task'[p] = Idle
        /\ \A q \in Procs : q # p => task'[q] = task[q]
    BY <1>0, <2>6, <2>7, TaskMoved
  <2>9. \A q \in Procs : q # p => call'[q] = call[q]
    BY <1>0, <2>6 DEF Goto
  <2>10. AgentTyped' /\ AgentPointing'
    <3>1. AgentTyped'
      BY <2>3, <2>6, <2>8 DEF ClaimInv, AgentTyped
    <3>2. \A r \in RunIds : \/ runs'[r] = runs[r]
                            \/ runs[r] # Nothing /\ runs'[r].decision = runs[r].decision
      BY <2>1, <2>2, <2>4, <2>6, AgentConstants DEF ClaimInv, AgentTyped
    <3>3. AgentPointing'
      BY <1>0, <2>7, <2>8, <3>2 DEF ClaimInv, AgentPointing
    <3> QED BY <3>1, <3>3
  <2>11. Coupled'
    BY <2>7, <2>8, <2>9 DEF ClaimInv, Coupled
  <2>12. Claimed'
    BY <1>1, <2>1, <2>5, <2>6, <2>7, <2>8 DEF ClaimInv, AgentTyped, Claimed
  <2> QED BY <2>10, <2>11, <2>12 DEF ClaimInv
<1> QED BY <1>2, <1>3

LEMMA ClaimRestart ==
    ASSUME GuardTyped, ClaimInv, NEW p \in Procs, AgentRestart(p)
    PROVE  ClaimInv'
<1>0. task \in [Procs -> TaskState] /\ call \in [Procs -> CallState]
  BY DEF ClaimInv, AgentTyped, GuardTyped
<1>1. /\ Do(p, Idle) /\ UNCHANGED <<runs, decisions>>
      /\ held' = [r \in RunIds |-> IF held[r] = p THEN Nothing ELSE held[r]]
  BY DEF AgentRestart, Restart, stored
<1>2. Idle \in TaskState /\ Idle.at = "idle"
  BY MakeTask DEF Idle
<1>3. \A q \in Procs : task[q].at \in {"decide", "plan", "act", "finalize", "anchored"}
                           => task[q].run \in RunIds
  BY <1>0, ReadTask
<1>4. /\ task' \in [Procs -> TaskState] /\ task'[p] = Idle
      /\ \A q \in Procs : q # p => task'[q] = task[q]
  BY <1>0, <1>1, <1>2, TaskMoved
<1>5. \A q \in Procs : q # p => call'[q] = call[q]
  BY <1>0 DEF AgentRestart, Restart, Goto
<1>6. AgentTyped' /\ AgentPointing'
  BY <1>1, <1>2, <1>4 DEF ClaimInv, AgentTyped, AgentPointing
<1>7. Coupled'
  BY <1>2, <1>4, <1>5 DEF ClaimInv, Coupled
<1>8. Claimed'
  BY <1>1, <1>2, <1>3, <1>4 DEF ClaimInv, Claimed
<1> QED BY <1>6, <1>7, <1>8 DEF ClaimInv

(* What holds of any number of processes, whatever they crash in. *)
ServersInv == GuardTyped /\ GuardPointing /\ ClaimInv

LEMMA ServersStep ==
    ASSUME ServersInv, [Next]_vars
    PROVE  ServersInv'
<1>1. GuardTyped' /\ GuardPointing'
  BY GuardTypedStep DEF ServersInv, ClaimInv
<1>2. DOMAIN decisions \subseteq DOMAIN decisions'
  BY DraftsStay DEF ServersInv, ClaimInv
<1>3. CASE UNCHANGED vars
  BY <1>3 DEF ServersInv, vars, guardVars, stored, agentVars, ClaimInv, AgentTyped, AgentPointing,
     Coupled, Claimed, GuardTyped, GuardPointing
<1>4. CASE Environment /\ UNCHANGED agentVars
  <2>1. UNCHANGED <<decisions, call, runs, held, task>>
    BY <1>4 DEF Environment, Tick, Mine, stored, agentVars
  <2>2. ClaimInv'
    BY <2>1 DEF ServersInv, ClaimInv, AgentTyped, AgentPointing, Coupled, Claimed
  <2> QED BY <1>1, <2>2 DEF ServersInv
<1>5. ASSUME NEW p \in Procs, Request(p)
      PROVE  ClaimInv'
  <2>1. CASE Doing(p, "idle") /\ GuardRequest(p) /\ UNCHANGED agentVars
    BY <1>1, <1>2, <2>1, ClaimGuard DEF ServersInv
  <2>2. CASE \E g \in Goals : RunRequest(p, g)
    BY <2>2, ClaimRequests DEF ServersInv
  <2>3. CASE \E r \in RunIds, tx \in Txs \cup {NoTx} : ResumeRequest(p, r, tx)
    BY <2>3, ClaimRequests DEF ServersInv
  <2>4. CASE \E r \in RunIds : Cancel(p, r)
    BY <2>4, ClaimRequests DEF ServersInv
  <2> QED BY <1>5, <2>1, <2>2, <2>3, <2>4 DEF Request
<1>6. ASSUME NEW p \in Procs, Claim(p)
      PROVE  ClaimInv'
  BY <1>6, ClaimClaims DEF ServersInv
<1>7. ASSUME NEW p \in Procs, Step(p)
      PROVE  ClaimInv'
  <2>1. CASE (GuardStep(p) \/ (Doing(p, "idle") /\ Answer(p))) /\ UNCHANGED agentVars
    BY <1>1, <1>2, <2>1, ClaimGuard DEF ServersInv
  <2>2. CASE RunDecide(p) \/ RunPlan(p) \/ RunAct(p) \/ RunSave(p)
    BY <1>1, <1>2, <2>2, ClaimRun DEF ServersInv
  <2>3. CASE ResumeFinalize(p) \/ ResumeSave(p)
    BY <1>1, <2>3, ClaimResume DEF ServersInv
  <2> QED BY <1>7, <2>1, <2>2, <2>3 DEF Step
<1>8. ASSUME NEW p \in Procs, AgentRestart(p)
      PROVE  ClaimInv'
  BY <1>8, ClaimRestart DEF ServersInv
<1> QED BY <1>1, <1>3, <1>4, <1>5, <1>6, <1>7, <1>8 DEF Next, ServersInv

LEMMA ServersBegin ==
    ASSUME AgentInit
    PROVE  ServersInv
<1>1. Coupled /\ Claimed
  BY DEF AgentInit, Coupled, Claimed, Idle
<1> QED BY <1>1, GuardBegins DEF ServersInv, ClaimInv

LEMMA ServersAlways == Spec => []ServersInv
  BY ServersBegin, ServersStep, PTL DEF Spec

----------------------------------------------------------------------------
(* A run keeps its decision: it is first saved by the request that claimed *)
(* its number while the ledger had nothing under it, and resuming or       *)
(* cancelling it writes around its request, decision and artifacts.        *)

LEMMA AnchoredKeeps ==
    ASSUME NEW run \in Run, NEW tx, NEW result \in {Refused} \cup Result
    PROVE  <<Anchored(run, tx, result).intent, Anchored(run, tx, result).decision,
             Anchored(run, tx, result).artifacts>> = <<run.intent, run.decision, run.artifacts>>
  BY DEF Anchored, Run

(* RunKeepsDecision: a saved run (SibylRunLedgerAdapter.save under the     *)
(* claim of MemoryGuardAgent.run) answers for one request under one        *)
(* decision for good, for any number of servers asked at once and whatever *)
(* they crash in.                                                          *)
LEMMA RunsKept ==
    ASSUME ServersInv, [Next]_vars, NEW r \in RunIds, runs[r] # Nothing
    PROVE  /\ runs'[r] # Nothing
           /\ <<runs'[r].intent, runs'[r].decision, runs'[r].artifacts>>
                  = <<runs[r].intent, runs[r].decision, runs[r].artifacts>>
<1> DEFINE Held == /\ runs'[r] # Nothing
                   /\ <<runs'[r].intent, runs'[r].decision, runs'[r].artifacts>>
                          = <<runs[r].intent, runs[r].decision, runs[r].artifacts>>
<1>0. /\ runs \in [RunIds -> Run \cup {Nothing}] /\ task \in [Procs -> TaskState]
      /\ runs[r] \in Run
  BY DEF ServersInv, ClaimInv, AgentTyped
<1>1. ASSUME NEW p \in Procs, RunSave(p)
      PROVE  Held
  <2>1. task[p].at = "act"
    BY <1>1 DEF RunSave, Doing
  <2>2. task[p].run # r
    BY <2>1 DEF ServersInv, ClaimInv, Claimed
  <2>3. runs'[r] = runs[r]
    BY <1>0, <1>1, <2>2 DEF RunSave
  <2> QED BY <2>3
<1>2. ASSUME NEW p \in Procs, ResumeSave(p)
      PROVE  Held
  <2>1. task[p].at = "anchored" /\ call[p].result \in {Refused} \cup Result
    BY <1>2 DEF ResumeSave, Doing, At, ServersInv, ClaimInv, Coupled
  <2>2. runs'[r] = runs[r] \/ runs'[r] = Anchored(runs[r], task[p].tx, call[p].result)
    BY <1>0, <1>2 DEF ResumeSave
  <2> QED BY <1>0, <2>1, <2>2, AnchoredTyped, AnchoredKeeps, AgentConstants
<1>3. ASSUME NEW p \in Procs, NEW rr \in RunIds, Cancel(p, rr)
      PROVE  Held
  <2>1. runs'[r] = runs[r] \/ runs'[r] = [runs[r] EXCEPT !.state = "cancelled"]
    BY <1>0, <1>3 DEF Cancel
  <2>2. [runs[r] EXCEPT !.state = "cancelled"] \in Run
    <3>1. "cancelled" \in Stopped
      BY DEF Stopped
    <3> QED BY <1>0, <3>1, RunFields
  <2>3. LET run == [runs[r] EXCEPT !.state = "cancelled"]
        IN  <<run.intent, run.decision, run.artifacts>>
                = <<runs[r].intent, runs[r].decision, runs[r].artifacts>>
    BY <1>0 DEF Run
  <2> QED BY <2>1, <2>2, <2>3, AgentConstants
<1>4. \/ runs' = runs
      \/ \E p \in Procs : RunSave(p) \/ ResumeSave(p) \/ \E rr \in RunIds : Cancel(p, rr)
  BY DEF Next, Request, RunRequest, ResumeRequest, Claim, RunExisting, RunClaim, ResumeNothing,
     ResumeClaim, Step, RunDecide, RunPlan, RunAct, ResumeFinalize, AgentRestart, agentVars, vars
<1> QED BY <1>1, <1>2, <1>3, <1>4

(* The property RunKeepsDecision, for every number of processes, runs,     *)
(* goals and plans (MemoryGuardAgent._run_claimed and _resume_claimed).    *)
THEOREM RunsKeepTheirDecision == Spec => RunKeepsDecision
<1>1. ServersInv /\ [Next]_vars =>
        [\A r \in RunIds : runs[r] # Nothing =>
            /\ runs'[r] # Nothing
            /\ <<runs'[r].intent, runs'[r].decision, runs'[r].artifacts>>
                   = <<runs[r].intent, runs[r].decision, runs[r].artifacts>>]_vars
  BY RunsKept
<1> QED BY <1>1, ServersAlways, PTL DEF Spec, RunKeepsDecision

----------------------------------------------------------------------------
(* Where a draft comes from. *)

LEMMA DraftCalls ==
    ASSUME GuardTyped, GuardPointing, AgentTyped, [Next]_vars,
           NEW q \in Procs, call'[q].at = "draft"
    PROVE  call'[q] = call[q] \/ \E i \in AnyIntent : DecideLoad(q, i)
<1>0. call \in [Procs -> CallState]
  BY DEF GuardTyped
<1>1. ASSUME NEW p \in Procs, GuardMove(p)
      PROVE  call'[q] = call[q] \/ \E i \in AnyIntent : DecideLoad(q, i)
  <2>1. CASE q # p
    BY <1>0, <1>1, <2>1, FinalizeMoves DEF GuardMove, ObserveLoad, CommitCompare, CommitEvent,
       CommitEntity, DecideLoad, DecideSave, FinalizeCheck, Ends, Goto, Return
  <2>2. CASE q = p /\ \E o \in Observations : ObserveLoad(p, o)
    BY <1>0, <2>2 DEF ObserveLoad, Goto, Return
  <2>3. CASE q = p /\ (CommitCompare(p) \/ CommitEvent(p) \/ CommitEntity(p) \/ DecideSave(p))
    <3>1. CASE CommitCompare(p)
      <4>1. call[p].at = "commit"
        BY <3>1 DEF CommitCompare, At
      <4>2. [call[p] EXCEPT !.at = "event"]
                = [at |-> "event", item |-> call[p].item, seen |-> call[p].seen]
        BY <1>0, <4>1, ReadCall
      <4> QED BY <1>0, <2>3, <3>1, <4>2 DEF CommitCompare, Goto, Return
    <3>2. CASE CommitEvent(p)
      <4>1. call[p].at = "event"
        BY <3>2 DEF CommitEvent, At
      <4>2. [call[p] EXCEPT !.at = "entity"]
                = [at |-> "entity", item |-> call[p].item, seen |-> call[p].seen]
        BY <1>0, <4>1, ReadCall
      <4> QED BY <1>0, <2>3, <3>2, <4>2 DEF CommitEvent, Goto
    <3>3. CASE CommitEntity(p) \/ DecideSave(p)
      BY <1>0, <2>3, <3>3 DEF CommitEntity, DecideSave, Goto, Return
    <3> QED BY <2>3, <3>1, <3>2, <3>3
  <2>4. CASE q = p /\ \E d \in DOMAIN decisions, tx \in Txs \cup {NoTx} : FinalizeCheck(p, d, tx)
    BY <1>0, <2>4 DEF FinalizeCheck, Goto, Return
  <2>5. CASE q = p /\ (FinalizeExisting(p) \/ FinalizeAsk(p) \/ FinalizeSave(p))
    BY <1>0, <2>5, FinalizeMoves, Moved
  <2>6. CASE q = p /\ Ends(p)
    BY <1>0, <2>6 DEF Ends, Goto, Idle
  <2> QED BY <1>1, <2>1, <2>2, <2>3, <2>4, <2>5, <2>6 DEF GuardMove
<1> QED BY <1>1, GuardMoves DEF Outside, guardVars

LEMMA DraftsFromCalls ==
    ASSUME GuardTyped, AgentTyped, [Next]_vars,
           NEW d \in DOMAIN decisions', d \notin DOMAIN decisions
    PROVE  \E p \in Procs : DecideSave(p) /\ d = Len(decisions) + 1 /\ decisions'[d] = call[p].decision
<1>1. ASSUME NEW p \in Procs, DecideSave(p)
      PROVE  d = Len(decisions) + 1 /\ decisions'[d] = call[p].decision
  <2>1. call[p].decision \in Draft
    BY <1>1, ReadCall DEF DecideSave, At, GuardTyped
  <2> QED BY <1>1, <2>1 DEF DecideSave, GuardTyped
<1>2. ASSUME NEW p \in Procs, GuardMove(p), ~DecideSave(p)
      PROVE  decisions' = decisions
  BY <1>2 DEF GuardMove, ObserveLoad, CommitCompare, CommitEvent, CommitEntity, DecideLoad,
     FinalizeCheck, FinalizeExisting, FinalizeAsk, FinalizeSave, Ends, stored
<1> QED BY <1>1, <1>2, GuardMoves DEF Outside, guardVars, stored

LEMMA VerdictByAuthority ==
    ASSUME NEW intent, NEW items, NEW now, Verdict(intent, items, now) # "needs_human"
    PROVE  \E i \in items : /\ i.mode \in Trusted
                            /\ intent.mode # "demo_fixture" => i.mode = "identity_verified"
<1>1. PICK i \in items : ActiveForMode(i, intent.mode)
  BY DEF Verdict, Denies, Permits, About
<1> QED BY <1>1 DEF ActiveForMode, Trusted

LEMMA AuthorityStep ==
    ASSUME ServersInv, Authority, [Next]_vars
    PROVE  Authority'
<1>0. GuardTyped /\ GuardPointing /\ AgentTyped
  BY DEF ServersInv, ClaimInv
<1>1. ASSUME NEW d \in DOMAIN decisions'
      PROVE  ByAuthority(decisions'[d])
  <2>1. CASE d \in DOMAIN decisions
    BY <1>0, <2>1, DraftsStay DEF Authority
  <2>2. CASE d \notin DOMAIN decisions
    <3>1. PICK p \in Procs : DecideSave(p) /\ decisions'[d] = call[p].decision
      BY <1>0, <2>2, DraftsFromCalls
    <3>2. ByAuthority(call[p].decision)
      BY <3>1 DEF DecideSave, At, Authority
    <3> QED BY <3>1, <3>2
  <2> QED BY <2>1, <2>2
<1>2. ASSUME NEW q \in Procs, call'[q].at = "draft"
      PROVE  ByAuthority(call'[q].decision)
  <2>1. CASE call'[q] = call[q]
    BY <1>2, <2>1 DEF Authority
  <2>2. ASSUME NEW i \in AnyIntent, DecideLoad(q, i)
        PROVE  ByAuthority(call'[q].decision)
    <3> DEFINE draft == [intent |-> i, verdict |-> Verdict(i, Range(memory), clock), root |-> memory,
                         policy |-> config[q].policy, expires |-> clock + TTL]
    <3>1. call'[q].decision = draft
      BY <1>0, <2>2 DEF DecideLoad, Goto, GuardTyped
    <3>2. ByAuthority(draft)
      BY VerdictByAuthority DEF ByAuthority
    <3> QED BY <3>1, <3>2
  <2> QED BY <1>0, <1>2, <2>1, <2>2, DraftCalls
<1> QED BY <1>1, <1>2 DEF Authority

LEMMA AuthorityAlways == Spec => [](ServersInv /\ Authority)
<1>1. AgentInit => Authority
  BY DEF AgentInit, Init, Authority, Idle
<1>2. ServersInv /\ Authority /\ [Next]_vars => Authority'
  BY AuthorityStep
<1> QED BY <1>1, <1>2, ServersAlways, PTL DEF Spec

(* The property AuthorityIsTrusted (policy.decide through                  *)
(* _active_for_mode), for every set of observations and intents: no number *)
(* of servers, stale reads or lost updates between them ever lets an       *)
(* untrusted report, or a demonstration outside its mode, decide.          *)
THEOREM OnlyTrustedSourcesDecide == Spec => []AuthorityIsTrusted
<1>1. Authority => AuthorityIsTrusted
  BY DEF Authority, ByAuthority, AuthorityIsTrusted
<1> QED BY <1>1, AuthorityAlways, PTL

----------------------------------------------------------------------------
(* One process over its database: what was receipted, what a draft rests   *)
(* on and what is saved of it.                                             *)

LEMMA RangeAppend ==
    ASSUME NEW s \in Seq(Item), NEW e \in Item
    PROVE  Range(Append(s, e)) = Range(s) \cup {e}
<1> DEFINE t == Append(s, e)
<1>1. DOMAIN t = DOMAIN s \cup {Len(s) + 1}
  OBVIOUS
<1>2. \A i \in DOMAIN s : t[i] = s[i]
  OBVIOUS
<1>3. t[Len(s) + 1] = e
  OBVIOUS
<1> HIDE DEF t
<1>4. Range(t) = Range(s) \cup {e}
  BY <1>1, <1>2, <1>3 DEF Range
<1> QED BY <1>4 DEF t

(* What MemoryInv asks of one call. *)
CallInv(p) ==
    /\ call[p].at \in {"commit", "event", "entity"} => call[p].seen = memory
    /\ call[p].at = "entity" => call[p].item \in journal
    /\ call[p].at = "returned" /\ call[p].result \in Observed
           => call[p].result.item \in Range(memory)
    /\ call[p].at = "draft" => Recalled(call[p].decision)
    /\ call[p].at \in {"existing", "ask", "save"} =>
           (decisions[call[p].d].verdict = "ready" => memory = decisions[call[p].d].root)

LEMMA MemoryMove ==
    ASSUME GuardTyped, GuardPointing, MemoryInv, NEW p \in Procs, GuardMove(p)
    PROVE  ReceiptsKept' /\ CallInv(p)'
<1>0. call \in [Procs -> CallState] /\ memory \in Seq(Item) /\ ReceiptsKept /\ CallInv(p)
  BY DEF GuardTyped, MemoryInv, CallInv
<1>1. ASSUME NEW o \in Observations, ObserveLoad(p, o)
      PROVE  ReceiptsKept' /\ CallInv(p)'
  <2>1. UNCHANGED <<memory, journal, acknowledged>>
    BY <1>1 DEF ObserveLoad, stored
  <2>2. \/ call'[p] = [at |-> "commit", item |-> Stored(p, o), seen |-> memory]
        \/ \E i \in Range(memory) : call'[p] = [at |-> "returned", result |-> Receipt(i)]
    BY <1>0, <1>1 DEF ObserveLoad, Goto, Return
  <2>3. \A i \in Range(memory) : Receipt(i).item = i
    BY DEF Receipt
  <2>4. ReceiptsKept'
    BY <1>0, <2>1 DEF ReceiptsKept
  <2>5. CASE call'[p] = [at |-> "commit", item |-> Stored(p, o), seen |-> memory]
    BY <2>1, <2>4, <2>5 DEF CallInv
  <2>6. ASSUME NEW i \in Range(memory), call'[p] = [at |-> "returned", result |-> Receipt(i)]
        PROVE  CallInv(p)'
    BY <2>1, <2>3, <2>6 DEF CallInv
  <2> QED BY <2>2, <2>4, <2>5, <2>6
<1>2. CASE CommitCompare(p) \/ CommitEvent(p)
  <2>1. call[p].at \in {"commit", "event"}
    BY <1>2 DEF CommitCompare, CommitEvent, At
  <2>2. /\ [call[p] EXCEPT !.at = "event"]
              = [at |-> "event", item |-> call[p].item, seen |-> call[p].seen]
        /\ [call[p] EXCEPT !.at = "entity"]
              = [at |-> "entity", item |-> call[p].item, seen |-> call[p].seen]
    BY <1>0, <2>1, ReadCall
  <2>3. \/ /\ UNCHANGED journal
           /\ \/ call'[p] = [at |-> "event", item |-> call[p].item, seen |-> call[p].seen]
              \/ call'[p] = [at |-> "returned", result |-> Refused]
        \/ /\ journal' = journal \cup {call[p].item}
           /\ call'[p] = [at |-> "entity", item |-> call[p].item, seen |-> call[p].seen]
    BY <1>0, <1>2, <2>2 DEF CommitCompare, CommitEvent, Goto, Return, stored
  <2>4. UNCHANGED <<memory, acknowledged>>
    BY <1>2 DEF CommitCompare, CommitEvent, stored
  <2> QED BY <1>0, <2>1, <2>3, <2>4, MakeReply DEF ReceiptsKept, CallInv
<1>3. CASE CommitEntity(p)
  <2>1. call[p].at = "entity" /\ call[p].item \in Item /\ call[p].item \in journal
        /\ call[p].seen = memory
    BY <1>0, <1>3, ReadCall DEF CommitEntity, At, CallInv
  <2>2. /\ memory' = Append(memory, call[p].item) /\ UNCHANGED <<journal, acknowledged>>
        /\ call'[p] = [at |-> "returned", result |-> Receipt(call[p].item)]
    BY <1>0, <1>3, <2>1 DEF CommitEntity, Goto, Return
  <2>3. Range(memory') = Range(memory) \cup {call[p].item}
    BY <1>0, <2>1, <2>2, RangeAppend
  <2>4. Receipt(call[p].item).item = call[p].item
    BY DEF Receipt
  <2>5. ReceiptsKept'
    BY <1>0, <2>1, <2>2, <2>3 DEF ReceiptsKept
  <2>6. CallInv(p)'
    BY <2>2, <2>3, <2>4 DEF CallInv
  <2> QED BY <2>5, <2>6
<1>4. ASSUME NEW i \in AnyIntent, DecideLoad(p, i)
      PROVE  ReceiptsKept' /\ CallInv(p)'
  <2>1. UNCHANGED <<memory, journal, acknowledged>>
    BY <1>4 DEF DecideLoad, stored
  <2> DEFINE draft == [intent |-> i, verdict |-> Verdict(i, Range(memory), clock), root |-> memory,
                       policy |-> config[p].policy, expires |-> clock + TTL]
  <2>2. call'[p] = [at |-> "draft", decision |-> draft]
    BY <1>0, <1>4 DEF DecideLoad, Goto
  <2>3. /\ draft.root = memory
        /\ (\E item \in Range(memory) : Denies(item, draft.intent)) => draft.verdict = "deny"
    BY DEF Verdict
  <2> HIDE DEF draft
  <2>4. PICK e : /\ call'[p] = [at |-> "draft", decision |-> e]
                 /\ e.root = memory
                 /\ (\E item \in Range(memory) : Denies(item, e.intent)) => e.verdict = "deny"
    BY <2>2, <2>3
  <2>5. Recalled(call[p].decision)'
    BY <2>1, <2>4 DEF Recalled
  <2>6. CallInv(p)'
    BY <2>4, <2>5 DEF CallInv
  <2> QED BY <1>0, <2>1, <2>6 DEF ReceiptsKept
<1>5. CASE DecideSave(p)
  <2>1. [state |-> "decided", decision |-> Len(decisions) + 1] \notin Observed
    BY DEF Observed
  <2>2. call'[p] = [at |-> "returned",
                    result |-> [state |-> "decided", decision |-> Len(decisions) + 1]]
    BY <1>0, <1>5 DEF DecideSave, Goto, Return
  <2>3. UNCHANGED <<memory, journal, acknowledged>>
    BY <1>5 DEF DecideSave
  <2> QED BY <1>0, <2>1, <2>2, <2>3 DEF ReceiptsKept, CallInv
<1>6. ASSUME NEW d \in DOMAIN decisions, NEW tx \in Txs \cup {NoTx}, FinalizeCheck(p, d, tx)
      PROVE  ReceiptsKept' /\ CallInv(p)'
  <2>1. UNCHANGED <<memory, journal, decisions, acknowledged>>
    BY <1>6 DEF FinalizeCheck, stored
  <2>2. \/ call'[p] = [at |-> "existing", d |-> d, tx |-> tx] /\ Fresh(d, p)
        \/ call'[p] = [at |-> "returned", result |-> Refused]
    BY <1>0, <1>6 DEF FinalizeCheck, Goto, Return
  <2> QED BY <1>0, <2>1, <2>2, MakeReply DEF ReceiptsKept, CallInv, Fresh
<1>7. CASE FinalizeExisting(p) \/ FinalizeAsk(p) \/ FinalizeSave(p)
  <2>1. call[p].at \in {"existing", "ask", "save"}
    BY <1>7 DEF FinalizeExisting, FinalizeAsk, FinalizeSave, At
  <2>2. \/ call'[p].at \in {"ask", "save"} /\ call'[p].d = call[p].d
        \/ call'[p].at = "returned" /\ call'[p].result \in {Refused} \cup Result
    BY <1>7, <2>1, CallGoesOn DEF GuardStep
  <2>3. UNCHANGED <<memory, journal, decisions, acknowledged>>
    BY <1>7 DEF FinalizeExisting, FinalizeAsk, FinalizeSave, stored
  <2> QED BY <1>0, <2>1, <2>2, <2>3, MakeReply DEF ReceiptsKept, CallInv
<1>8. CASE Ends(p)
  <2>1. UNCHANGED <<memory, journal>> /\ call'[p] = Idle
    BY <1>0, <1>8 DEF Ends, stored, Goto
  <2>2. At(p, "returned") /\ call[p].result.state = "observed"
           => call[p].result.item \in Range(memory)
    BY <1>0, ReadCall, ReadReply DEF At, CallInv
  <2>3. acknowledged' \subseteq Range(memory)
    BY <1>0, <1>8, <2>2 DEF Ends, ReceiptsKept
  <2> QED BY <1>0, <2>1, <2>3 DEF ReceiptsKept, CallInv, Idle
<1> QED BY <1>1, <1>2, <1>3, <1>4, <1>5, <1>6, <1>7, <1>8 DEF GuardMove

LEMMA MemoryStep ==
    ASSUME OneProcess, ServersInv, MemoryInv, [Next]_vars
    PROVE  MemoryInv'
<1>0. GuardTyped /\ GuardPointing /\ AgentTyped
  BY DEF ServersInv, ClaimInv
<1>1. ASSUME NEW p \in Procs, GuardMove(p)
      PROVE  MemoryInv'
  <2>1. ReceiptsKept' /\ CallInv(p)'
    BY <1>0, <1>1, MemoryMove
  <2>2. \A q \in Procs : q = p
    BY DEF OneProcess
  <2> QED BY <2>1, <2>2 DEF MemoryInv, CallInv
<1>2. CASE Outside \/ UNCHANGED guardVars
  BY <1>2 DEF Outside, guardVars, stored, MemoryInv, ReceiptsKept, Recalled
<1> QED BY <1>0, <1>1, <1>2, GuardMoves

LEMMA MemoryAlways ==
    ASSUME OneProcess
    PROVE  Spec => [](ServersInv /\ MemoryInv)
<1>1. AgentInit => MemoryInv
  BY DEF AgentInit, Init, MemoryInv, ReceiptsKept, Range, Idle
<1>2. ServersInv /\ MemoryInv /\ [Next]_vars => MemoryInv'
  BY MemoryStep
<1> QED BY <1>1, <1>2, ServersAlways, PTL DEF Spec

(* The property ReceiptsKept (SibylMemoryAdapter.commit_observation), of   *)
(* one server: the event goes before the subject and the receipt after     *)
(* both, so no crash between them takes back what was answered.            *)
THEOREM ReceiptsAreKept ==
    ASSUME OneProcess
    PROVE  Spec => []ReceiptsKept
<1>1. MemoryInv => ReceiptsKept
  BY DEF MemoryInv
<1> QED BY <1>1, MemoryAlways, PTL

LEMMA NewestDraft ==
    ASSUME ServersInv, MemoryInv, [Next]_vars, Len(decisions') > Len(decisions),
           NEW i \in acknowledged, Denies(i, Last(decisions').intent)
    PROVE  Last(decisions').verdict = "deny"
<1>0. GuardTyped /\ GuardPointing /\ AgentTyped /\ GuardTyped'
  BY ServersStep DEF ServersInv, ClaimInv
<1> DEFINE d == Len(decisions')
<1>1. Len(decisions) \in Nat /\ d \in Nat /\ DOMAIN decisions = 1..Len(decisions)
      /\ DOMAIN decisions' = 1..d
  BY <1>0 DEF GuardTyped
<1>2. d \in DOMAIN decisions' /\ d \notin DOMAIN decisions /\ Last(decisions') = decisions'[d]
  BY <1>1 DEF Last
<1>3. PICK p \in Procs : DecideSave(p) /\ decisions'[d] = call[p].decision
  BY <1>0, <1>2, DraftsFromCalls
<1>4. Recalled(call[p].decision)
  BY <1>3 DEF DecideSave, At, MemoryInv
<1>5. i \in Range(memory)
  BY DEF MemoryInv, ReceiptsKept
<1> QED BY <1>2, <1>3, <1>4, <1>5 DEF Recalled

(* The property DenialRecalled (MemoryGuard.decide over policy.decide), of *)
(* one server and any observations: between the recall and the save of a   *)
(* draft nothing is receipted, and what was receipted before is recalled.  *)
THEOREM DenialsAreRecalled ==
    ASSUME OneProcess
    PROVE  Spec => DenialRecalled
<1>1. ServersInv /\ MemoryInv /\ [Next]_vars =>
        [Len(decisions') > Len(decisions) =>
            LET draft == Last(decisions')
            IN  (\E i \in acknowledged : Denies(i, draft.intent)) => draft.verdict = "deny"]_guardVars
  BY NewestDraft
<1> QED BY <1>1, MemoryAlways, PTL DEF Spec, DenialRecalled

----------------------------------------------------------------------------
(* The finalization ledger. *)

LEMMA FinalsMove ==
    ASSUME GuardTyped, AgentTyped, [Next]_vars, NEW d \in DOMAIN finals
    PROVE  /\ d \in DOMAIN finals'
           /\ \/ finals'[d] = finals[d]
              \/ \E p \in Procs : FinalizeSave(p) /\ d = call[p].d /\ finals'[d] = call[p].result
<1> DEFINE Conclusion ==
             /\ d \in DOMAIN finals'
             /\ \/ finals'[d] = finals[d]
                \/ \E p \in Procs : FinalizeSave(p) /\ d = call[p].d /\ finals'[d] = call[p].result
<1>1. ASSUME NEW p \in Procs, DecideSave(p)
      PROVE  Conclusion
  BY <1>1 DEF DecideSave, GuardTyped
<1>2. ASSUME NEW p \in Procs, FinalizeSave(p)
      PROVE  Conclusion
  BY <1>2 DEF FinalizeSave, GuardTyped
<1>3. ASSUME NEW p \in Procs, GuardMove(p), ~DecideSave(p), ~FinalizeSave(p)
      PROVE  finals' = finals
  BY <1>3 DEF GuardMove, ObserveLoad, CommitCompare, CommitEvent, CommitEntity, DecideLoad,
     FinalizeCheck, FinalizeExisting, FinalizeAsk, Ends, stored
<1> QED BY <1>1, <1>2, <1>3, GuardMoves DEF Outside, guardVars, stored

LEMMA RestsOnMemory ==
    ASSUME ServersInv, MemoryInv, [Next]_vars, NEW d \in DOMAIN finals,
           finals'[d] # finals[d], decisions[d].verdict = "ready"
    PROVE  memory = decisions[d].root
<1>1. PICK p \in Procs : FinalizeSave(p) /\ d = call[p].d
  BY FinalsMove DEF ServersInv, ClaimInv
<1> QED BY <1>1 DEF FinalizeSave, At, MemoryInv

(* The property ReadyRestsOnMemory (MemoryGuard.finalize), of one server:  *)
(* the comparison with the subject is made before the chain is asked, and  *)
(* nothing observed in between gets past the lock of the process.          *)
THEOREM ReadyFinalsRestOnMemory ==
    ASSUME OneProcess
    PROVE  Spec => ReadyRestsOnMemory
<1>1. ServersInv /\ MemoryInv /\ [Next]_vars =>
        [\A d \in DOMAIN finals :
            finals'[d] # finals[d] /\ decisions[d].verdict = "ready"
                => memory = decisions[d].root]_guardVars
  BY RestsOnMemory
<1> QED BY <1>1, MemoryAlways, PTL DEF Spec, ReadyRestsOnMemory

(* Where a move leaves its call, but for finalize. *)
LEMMA OtherMoves ==
    ASSUME GuardTyped, GuardPointing, NEW p \in Procs, GuardMove(p),
           ~FinalizeExisting(p), ~FinalizeAsk(p), ~FinalizeSave(p)
    PROVE  call'[p].at \notin {"ask", "save"}
<1>0. call \in [Procs -> CallState]
  BY DEF GuardTyped
<1>1. CASE CommitCompare(p) \/ CommitEvent(p)
  <2>1. call[p].at \in {"commit", "event"}
    BY <1>1 DEF CommitCompare, CommitEvent, At
  <2>2. /\ [call[p] EXCEPT !.at = "event"]
              = [at |-> "event", item |-> call[p].item, seen |-> call[p].seen]
        /\ [call[p] EXCEPT !.at = "entity"]
              = [at |-> "entity", item |-> call[p].item, seen |-> call[p].seen]
    BY <1>0, <2>1, ReadCall
  <2> QED BY <1>0, <1>1, <2>2 DEF CommitCompare, CommitEvent, Goto, Return
<1>2. CASE ~CommitCompare(p) /\ ~CommitEvent(p)
  BY <1>0, <1>2 DEF GuardMove, ObserveLoad, CommitEntity, DecideLoad, DecideSave, FinalizeCheck,
     Ends, Goto, Return, Idle
<1> QED BY <1>1, <1>2

LEMMA FinalsKept ==
    ASSUME GuardTyped, GuardPointing, FinalsInv, NEW p \in Procs, GuardMove(p)
    PROVE  /\ \A d \in DOMAIN finals' : Bound(finals'[d])
           /\ call'[p].at = "ask" => MayAsk(finals'[call'[p].d], call'[p].tx)
           /\ call'[p].at = "save" => /\ MayAsk(finals'[call'[p].d], call'[p].result.tx)
                                      /\ Bound(call'[p].result)
<1>0. call \in [Procs -> CallState] /\ \A d \in DOMAIN finals : Bound(finals[d])
  BY DEF GuardTyped, FinalsInv
<1>1. CASE FinalizeExisting(p)
  <2>1. call[p].at = "existing" /\ UNCHANGED finals
    BY <1>1 DEF FinalizeExisting, At, stored
  <2>2. [call[p] EXCEPT !.at = "ask"] = [at |-> "ask", d |-> call[p].d, tx |-> call[p].tx]
    BY <1>0, <2>1, ReadCall
  <2>3. \/ call'[p].at = "returned"
        \/ /\ call'[p] = [at |-> "ask", d |-> call[p].d, tx |-> call[p].tx]
           /\ MayAsk(finals[call[p].d], call[p].tx)
    BY <1>0, <1>1, <2>2 DEF FinalizeExisting, Goto, Return, MayAsk
  <2> QED BY <1>0, <2>1, <2>3
<1>2. CASE FinalizeAsk(p)
  <2> DEFINE d == call[p].d
             tx == call[p].tx
  <2>1. call[p].at = "ask" /\ UNCHANGED finals /\ tx \in Txs \cup {NoTx}
    BY <1>0, <1>2, ReadCall DEF FinalizeAsk, At, stored
  <2>2. MayAsk(finals[d], tx)
    BY <2>1 DEF FinalsInv
  <2>3. \/ call'[p].at = "returned"
        \/ \E s \in {"verified", "pending"} :
              tx # NoTx /\ call'[p] = [at |-> "save", d |-> d, result |-> [state |-> s, tx |-> tx]]
        \/ \E s \in PlanStates(p, d) :
              tx = NoTx /\ call'[p] = [at |-> "save", d |-> d, result |-> [state |-> s, tx |-> tx]]
    BY <1>0, <1>2, <2>1, AskResults DEF FinalizeAsk, Goto, Return
  <2>4. ASSUME NEW s, call'[p] = [at |-> "save", d |-> d, result |-> [state |-> s, tx |-> tx]],
               tx # NoTx => s \in {"verified", "pending"}
        PROVE  /\ call'[p].at = "save"
               /\ MayAsk(finals'[call'[p].d], call'[p].result.tx) /\ Bound(call'[p].result)
    BY <2>1, <2>2, <2>4 DEF Bound
  <2> QED BY <1>0, <2>1, <2>3, <2>4
<1>3. CASE FinalizeSave(p)
  <2>1. call'[p].at = "returned" /\ finals' = [finals EXCEPT ![call[p].d] = call[p].result]
    BY <1>0, <1>3 DEF FinalizeSave, Goto, Return
  <2>2. Bound(call[p].result)
    BY <1>3 DEF FinalizeSave, At, FinalsInv
  <2> QED BY <1>0, <2>1, <2>2
<1>4. CASE ~FinalizeExisting(p) /\ ~FinalizeAsk(p) /\ ~FinalizeSave(p)
  <2>1. finals' = finals \/ finals' = Append(finals, Nothing)
    BY <1>4 DEF GuardMove, ObserveLoad, CommitCompare, CommitEvent, CommitEntity, DecideLoad,
       DecideSave, FinalizeCheck, Ends, stored
  <2>2. \A d \in DOMAIN finals' : Bound(finals'[d])
    <3>1. Bound(Nothing)
      BY DEF Bound
    <3>2. finals \in Seq(Result \cup {Nothing})
      BY DEF GuardTyped
    <3> QED BY <1>0, <2>1, <3>1, <3>2
  <2> QED BY <1>4, <2>2, OtherMoves
<1> QED BY <1>1, <1>2, <1>3, <1>4

LEMMA FinalsStep ==
    ASSUME OneProcess, ServersInv, FinalsInv, [Next]_vars
    PROVE  FinalsInv'
<1>1. ASSUME NEW p \in Procs, GuardMove(p)
      PROVE  FinalsInv'
  <2>1. \A q \in Procs : q = p
    BY DEF OneProcess
  <2> QED BY <1>1, <2>1, FinalsKept DEF ServersInv, FinalsInv
<1>2. CASE Outside \/ UNCHANGED guardVars
  BY <1>2 DEF Outside, guardVars, stored, FinalsInv
<1> QED BY <1>1, <1>2, GuardMoves DEF ServersInv, ClaimInv

LEMMA FinalsAlways ==
    ASSUME OneProcess
    PROVE  Spec => [](ServersInv /\ FinalsInv)
<1>1. AgentInit => FinalsInv
  BY DEF AgentInit, Init, FinalsInv, Idle
<1>2. ServersInv /\ FinalsInv /\ [Next]_vars => FinalsInv'
  BY FinalsStep
<1> QED BY <1>1, <1>2, ServersAlways, PTL DEF Spec

LEMMA TransactionKept ==
    ASSUME ServersInv, FinalsInv, [Next]_vars,
           NEW d \in DOMAIN finals, finals[d] # Nothing, finals[d].tx # NoTx
    PROVE  /\ finals'[d].tx = finals[d].tx
           /\ finals[d].state = "verified" => finals'[d].state = "verified"
<1>1. CASE finals'[d] = finals[d]
  BY <1>1
<1>2. ASSUME NEW p \in Procs, FinalizeSave(p), d = call[p].d, finals'[d] = call[p].result
      PROVE  /\ finals'[d].tx = finals[d].tx
             /\ finals[d].state = "verified" => finals'[d].state = "verified"
  <2>1. MayAsk(finals[d], call[p].result.tx) /\ Bound(finals[d])
    BY <1>2 DEF FinalizeSave, At, FinalsInv
  <2> QED BY <1>2, <2>1 DEF MayAsk, Bound, OtherTransaction, Terminal
<1> QED BY <1>1, <1>2, FinalsMove DEF ServersInv, ClaimInv

(* The property OneTransaction (MemoryGuard.finalize over                  *)
(* save_finalization), of one server: what is saved under a transaction is *)
(* read before the chain is asked about another.                           *)
THEOREM TransactionsAreKept ==
    ASSUME OneProcess
    PROVE  Spec => OneTransaction
<1>1. ServersInv /\ FinalsInv /\ [Next]_vars =>
        [\A d \in DOMAIN finals : finals[d] # Nothing /\ finals[d].tx # NoTx =>
            /\ finals'[d].tx = finals[d].tx
            /\ finals[d].state = "verified" => finals'[d].state = "verified"]_guardVars
  BY TransactionKept
<1> QED BY <1>1, FinalsAlways, PTL DEF Spec, OneTransaction

----------------------------------------------------------------------------
(* Runs and finalizations. *)

(* What backs a state goes on backing it. *)
LEMMA BackedStays ==
    ASSUME ServersInv, FinalsInv, [Next]_vars, NEW d \in DOMAIN decisions, NEW s, Backed(s, d)
    PROVE  /\ s \in {"pending", "verified"} =>
                finals'[d] # Nothing /\ finals'[d].state \in {s, "verified"}
           /\ d \in DOMAIN decisions'
<1>0. GuardTyped /\ GuardPointing /\ AgentTyped
  BY DEF ServersInv, ClaimInv
<1>1. d \in DOMAIN finals /\ d \in DOMAIN decisions'
  BY <1>0, DraftsStay DEF GuardTyped
<1>2. CASE finals'[d] = finals[d]
  BY <1>1, <1>2 DEF Backed
<1>3. ASSUME NEW p \in Procs, FinalizeSave(p), d = call[p].d, finals'[d] = call[p].result,
             s \in {"pending", "verified"}
      PROVE  finals'[d] # Nothing /\ finals'[d].state \in {s, "verified"}
  <2>1. /\ MayAsk(finals[d], call[p].result.tx) /\ Bound(call[p].result)
        /\ call[p].result \in Result
    BY <1>0, <1>3, ReadCall DEF FinalizeSave, At, FinalsInv, GuardTyped
  <2>2. call[p].result # Nothing
    BY <2>1, GuardConstants
  <2> QED BY <1>3, <2>1, <2>2 DEF MayAsk, Bound, Backed, Terminal
<1> QED BY <1>0, <1>1, <1>2, <1>3, FinalsMove

(* What finalize answers is what the ledger of finalizations says. *)
LEMMA AnswersBacked ==
    ASSUME ServersInv, NEW p \in Procs, GuardStep(p),
           call[p].at \in {"existing", "ask", "save"},
           call'[p].at = "returned", call'[p].result \in Result
    PROVE  call'[p].result.state \in {"pending", "verified"} =>
               /\ finals'[call[p].d] # Nothing
               /\ finals'[call[p].d].state \in {call'[p].result.state, "verified"}
<1> DEFINE d == call[p].d
<1>0. call \in [Procs -> CallState] /\ d \in DOMAIN decisions /\ d \in DOMAIN finals
  BY DEF ServersInv, GuardTyped, GuardPointing
<1>1. CASE FinalizeExisting(p)
  <2>1. call[p].at = "existing" /\ UNCHANGED finals
    BY <1>1 DEF FinalizeExisting, At, stored
  <2>2. [call[p] EXCEPT !.at = "ask"] = [at |-> "ask", d |-> call[p].d, tx |-> call[p].tx]
    BY <1>0, <2>1, ReadCall
  <2>3. \/ call'[p] = [at |-> "ask", d |-> call[p].d, tx |-> call[p].tx]
        \/ call'[p] = [at |-> "returned", result |-> Refused]
        \/ finals[d] # Nothing /\ call'[p] = [at |-> "returned", result |-> finals[d]]
    BY <1>0, <1>1, <2>2 DEF FinalizeExisting, Goto, Return
  <2> QED BY <2>1, <2>3, MakeReply
<1>2. CASE FinalizeAsk(p)
  <2>1. \/ call'[p].at = "save"
        \/ call'[p] = [at |-> "returned", result |-> Refused]
        \/ call'[p] = [at |-> "returned", result |-> [state |-> "failed", tx |-> call[p].tx]]
    BY <1>0, <1>2 DEF FinalizeAsk, Goto, Return
  <2>2. CASE call'[p] = [at |-> "returned", result |-> [state |-> "failed", tx |-> call[p].tx]]
    BY <2>2
  <2> QED BY <2>1, <2>2, MakeReply
<1>3. CASE FinalizeSave(p)
  <2>1. /\ finals' = [finals EXCEPT ![d] = call[p].result]
        /\ call'[p] = [at |-> "returned", result |-> call[p].result]
    BY <1>0, <1>3 DEF FinalizeSave, Goto, Return
  <2>2. call[p].result \in Result
    BY <1>0, <1>3, ReadCall DEF FinalizeSave, At
  <2>3. finals'[d] = call[p].result
    BY <1>0, <2>1 DEF ServersInv, GuardTyped
  <2> QED BY <2>1, <2>2, <2>3, GuardConstants
<1>4. CASE CommitCompare(p) \/ CommitEvent(p) \/ CommitEntity(p) \/ DecideSave(p)
  BY <1>4 DEF CommitCompare, CommitEvent, CommitEntity, DecideSave, At
<1> QED BY <1>1, <1>2, <1>3, <1>4 DEF GuardStep

(* What AnchorInv asks of one process. *)
TaskInv(p) ==
    /\ task[p].at = "act" => task[p].draft.anchor = "not_configured"
    /\ task[p].at = "anchored" /\ call[p].at \in {"existing", "ask", "save"}
           => call[p].d = runs[task[p].run].decision
    /\ task[p].at = "anchored" /\ call[p].at = "returned" /\ call[p].result \in Result
           => Backed(call[p].result.state, runs[task[p].run].decision)

LEMMA AnchoredState ==
    ASSUME NEW run \in Run, NEW tx, NEW result \in {Refused} \cup Result,
           Backed(run.anchor, run.decision),
           result \in Result => Backed(result.state, run.decision)
    PROVE  Backed(Anchored(run, tx, result).anchor, run.decision)
<1>1. Refused \notin Result
  BY MakeReply
<1>2. \/ Anchored(run, tx, result).anchor \in {run.anchor, "failed"}
      \/ result \in Result /\ Anchored(run, tx, result).anchor = result.state
  BY <1>1 DEF Anchored, Run
<1>3. Backed("failed", run.decision)
  BY DEF Backed
<1> QED BY <1>2, <1>3

(* The runs of the ledger after a step: as they were, cancelled, anchored, *)
(* or new.                                                                 *)
LEMMA RunsBacked ==
    ASSUME ServersInv, AnchorInv, [Next]_vars, NEW r \in RunIds, runs'[r] # Nothing
    PROVE  \/ /\ runs[r] # Nothing /\ runs'[r].decision = runs[r].decision
              /\ Backed(runs'[r].anchor, runs[r].decision)
           \/ runs'[r].anchor = "not_configured"
<1> DEFINE Conclusion ==
             \/ /\ runs[r] # Nothing /\ runs'[r].decision = runs[r].decision
                /\ Backed(runs'[r].anchor, runs[r].decision)
             \/ runs'[r].anchor = "not_configured"
<1>0. /\ runs \in [RunIds -> Run \cup {Nothing}] /\ task \in [Procs -> TaskState]
      /\ runs[r] # Nothing => runs[r] \in Run /\ Backed(runs[r].anchor, runs[r].decision)
  BY DEF ServersInv, ClaimInv, AgentTyped, AnchorInv
<1>1. CASE runs'[r] = runs[r]
  BY <1>0, <1>1
<1>2. ASSUME NEW p \in Procs, RunSave(p), runs'[r] # runs[r]
      PROVE  Conclusion
  <2>1. task[p].at = "act" /\ task[p].draft.anchor = "not_configured" /\ task[p].draft \in Run
    BY <1>0, <1>2, ReadTask DEF RunSave, Doing, AnchorInv
  <2> DEFINE run == [task[p].draft EXCEPT !.state =
                         IF task[p].failed THEN "halt_action_unavailable"
                         ELSE IF task[p].draft.degraded THEN "degraded_safe_only" ELSE @]
  <2>2. run.anchor = "not_configured"
    BY <2>1 DEF Run
  <2>3. runs' = [runs EXCEPT ![task[p].run] = run] \/ runs' = runs
    BY <1>2 DEF RunSave
  <2> HIDE DEF run
  <2>4. runs'[r] = run
    BY <1>0, <1>2, <2>3
  <2> QED BY <2>2, <2>4
<1>3. ASSUME NEW p \in Procs, ResumeSave(p), runs'[r] # runs[r]
      PROVE  Conclusion
  <2>1. /\ task[p].at = "anchored" /\ call[p].at = "returned"
        /\ call[p].result \in {Refused} \cup Result
    BY <1>3 DEF ResumeSave, Doing, At, ServersInv, ClaimInv, Coupled
  <2>2. /\ task[p].run = r
        /\ runs'[r] = Anchored(runs[r], task[p].tx, call[p].result)
    BY <1>0, <1>3 DEF ResumeSave
  <2>3. runs[r] # Nothing
    BY <2>1, <2>2 DEF ServersInv, ClaimInv, Claimed
  <2>4. call[p].result \in Result => Backed(call[p].result.state, runs[r].decision)
    BY <2>1, <2>2 DEF AnchorInv
  <2>5. /\ Backed(runs'[r].anchor, runs[r].decision)
        /\ runs'[r].decision = runs[r].decision
    BY <1>0, <2>1, <2>2, <2>3, <2>4, AnchoredState, AnchoredKeeps
  <2> QED BY <2>3, <2>5
<1>4. ASSUME NEW p \in Procs, NEW rr \in RunIds, Cancel(p, rr), runs'[r] # runs[r]
      PROVE  Conclusion
  <2>1. runs[r] # Nothing /\ runs'[r] = [runs[r] EXCEPT !.state = "cancelled"]
    BY <1>0, <1>4 DEF Cancel
  <2>2. runs'[r].anchor = runs[r].anchor /\ runs'[r].decision = runs[r].decision
    BY <1>0, <2>1 DEF Run
  <2> QED BY <1>0, <2>1, <2>2
<1>5. \/ runs' = runs
      \/ \E p \in Procs : RunSave(p) \/ ResumeSave(p) \/ \E rr \in RunIds : Cancel(p, rr)
  BY DEF Next, Request, RunRequest, ResumeRequest, Claim, RunExisting, RunClaim, ResumeNothing,
     ResumeClaim, Step, RunDecide, RunPlan, RunAct, ResumeFinalize, AgentRestart, agentVars, vars
<1> QED BY <1>1, <1>2, <1>3, <1>4, <1>5

(* Planning and acting leave a draft that has nothing of an anchor. *)
LEMMA ActMoves ==
    ASSUME task \in [Procs -> TaskState], NEW p \in Procs, RunPlan(p) \/ RunAct(p)
    PROVE  /\ task'[p].at = "act"
           /\ \/ task'[p].draft.anchor = "not_configured"
              \/ task[p].at = "act" /\ task'[p].draft.anchor = task[p].draft.anchor
<1>0. task \in [Procs -> TaskState] /\ task[p] \in TaskState
  OBVIOUS
<1>1. CASE RunPlan(p)
  <2>1. \E t : /\ Do(p, t) /\ t.at = "act" /\ t.draft.anchor = "not_configured"
    <3> DEFINE d == call[p].result.decision
               verdict == decisions[d].verdict
               asked(answer) == answer.plan.requested \cap AllowedTools(verdict)
               run(answer) == [intent |-> task[p].intent, decision |-> d,
                               degraded |-> answer.degraded, receipt |-> answer.plan.receipt,
                               requested |-> asked(answer),
                               artifacts |-> {}, state |-> BaseState(verdict),
                               prepared |-> Nothing, verified |-> Nothing,
                               anchor |-> "not_configured"]
               t(answer, y) == [at |-> "act", run |-> task[p].run, failed |-> y,
                                todo |-> asked(answer) \cup {MandatoryTool(verdict)},
                                draft |-> run(answer)]
    <3>1. PICK answer \in ModelAnswers : Do(p, t(answer, FALSE))
      BY <1>1 DEF RunPlan
    <3>2. run(answer).anchor = "not_configured"
      OBVIOUS
    <3> HIDE DEF run, asked, verdict, d
    <3>3. ASSUME NEW y
          PROVE  t(answer, y).at = "act" /\ t(answer, y).draft = run(answer)
      OBVIOUS
    <3>4. t(answer, FALSE).at = "act" /\ t(answer, FALSE).draft = run(answer)
      BY <3>3, Zenon
    <3> HIDE DEF t
    <3> QED BY <3>1, <3>2, <3>4
  <2> QED BY <1>0, <2>1 DEF Do
<1>2. CASE RunAct(p)
  <2>1. /\ task[p].at = "act" /\ task[p].draft \in Run
        /\ task[p] = [at |-> "act", run |-> task[p].run, failed |-> task[p].failed,
                      todo |-> task[p].todo, draft |-> task[p].draft]
    BY <1>0, <1>2, ReadTask DEF RunAct, Doing
  <2>2. PICK tool \in task[p].todo :
           \/ Do(p, [[task[p] EXCEPT !.todo = @ \ {tool}] EXCEPT !.draft.artifacts = @ \cup {tool}])
           \/ Do(p, [[task[p] EXCEPT !.todo = @ \ {tool}] EXCEPT !.failed = TRUE])
    BY <1>2 DEF RunAct
  <2> DEFINE next == [task[p] EXCEPT !.todo = @ \ {tool}]
  <2>3. next = [at |-> "act", run |-> task[p].run, failed |-> task[p].failed,
                todo |-> task[p].todo \ {tool}, draft |-> task[p].draft]
    BY <2>1
  <2> HIDE DEF next
  <2>4. LET t == [next EXCEPT !.draft.artifacts = @ \cup {tool}]
        IN  t.at = "act" /\ t.draft.anchor = task[p].draft.anchor
    BY <2>1, <2>3 DEF Run
  <2>5. ASSUME NEW y
        PROVE  LET t == [next EXCEPT !.failed = y]
               IN  t.at = "act" /\ t.draft = task[p].draft
    BY <2>3
  <2>6. LET t == [next EXCEPT !.failed = TRUE]
        IN  t.at = "act" /\ t.draft = task[p].draft
    BY <2>5, Zenon
  <2> USE DEF next
  <2>7. \E t : Do(p, t) /\ t.at = "act" /\ t.draft.anchor = task[p].draft.anchor
    <3>1. CASE Do(p, [next EXCEPT !.draft.artifacts = @ \cup {tool}])
      BY <2>4, <3>1
    <3>2. CASE Do(p, [next EXCEPT !.failed = TRUE])
      BY <2>6, <3>2, Zenon
    <3> QED BY <2>2, <3>1, <3>2
  <2> QED BY <1>0, <2>1, <2>7 DEF Do
<1> QED BY <1>1, <1>2

(* The task of a process after a step of its own. *)
LEMMA TaskKept ==
    ASSUME ServersInv, ServersInv', AnchorInv, [Next]_vars, NEW p \in Procs,
           Request(p) \/ Claim(p) \/ Step(p) \/ AgentRestart(p)
    PROVE  TaskInv(p)'
<1>0. /\ task \in [Procs -> TaskState] /\ call \in [Procs -> CallState]
      /\ task[p] \in TaskState /\ call[p] \in CallState
      /\ TaskInv(p)
  BY DEF ServersInv, ClaimInv, AgentTyped, GuardTyped, AnchorInv, TaskInv
<1>1. ASSUME task'[p].at \notin {"act", "anchored"}
      PROVE  TaskInv(p)'
  BY <1>1 DEF TaskInv
<1>2. CASE Request(p)
  <2>1. task'[p].at \in {"idle", "claim_run", "claim_anchor"}
    <3>1. CASE \E g \in Goals : RunRequest(p, g)
      BY <1>0, <3>1 DEF RunRequest, Do
    <3>2. CASE \E r \in RunIds, tx \in Txs \cup {NoTx} : ResumeRequest(p, r, tx)
      BY <1>0, <3>2 DEF ResumeRequest, Do
    <3>3. CASE \E r \in RunIds : Cancel(p, r)
      BY <3>3 DEF Cancel, Doing
    <3>4. CASE Doing(p, "idle") /\ UNCHANGED agentVars
      BY <3>4 DEF Doing, agentVars
    <3> QED BY <1>2, <3>1, <3>2, <3>3, <3>4 DEF Request
  <2> QED BY <1>1, <2>1
<1>3. CASE Claim(p)
  <2>1. CASE RunExisting(p) \/ ResumeNothing(p)
    BY <1>0, <1>1, <2>1 DEF RunExisting, ResumeNothing, Do, Idle
  <2>2. CASE RunClaim(p)
    <3>1. [task[p] EXCEPT !.at = "decide"]
             = [at |-> "decide", run |-> task[p].run, intent |-> task[p].intent]
      BY <1>0, <2>2, ReadTask DEF RunClaim, Doing
    <3> QED BY <1>0, <1>1, <2>2, <3>1 DEF RunClaim, Do
  <2>3. CASE ResumeClaim(p)
    <3>1. [task[p] EXCEPT !.at = "finalize"]
             = [at |-> "finalize", run |-> task[p].run, tx |-> task[p].tx]
      BY <1>0, <2>3, ReadTask DEF ResumeClaim, Doing
    <3> QED BY <1>0, <1>1, <2>3, <3>1 DEF ResumeClaim, Do
  <2> QED BY <1>3, <2>1, <2>2, <2>3 DEF Claim
<1>4. CASE GuardStep(p) /\ UNCHANGED agentVars
  <2>1. UNCHANGED <<runs, held, task>>
    BY <1>4 DEF agentVars
  <2>2. CASE task[p].at = "anchored"
    <3>1. /\ call[p].at \in {"existing", "ask", "save"}
          /\ \/ call'[p].at \in {"ask", "save"} /\ call'[p].d = call[p].d
             \/ call'[p].at = "returned" /\ call'[p].result \in {Refused} \cup Result
      BY <1>4, <2>2, CallGoesOn DEF ServersInv, ClaimInv, Coupled
    <3>2. call[p].d = runs[task[p].run].decision
      BY <1>0, <2>2, <3>1 DEF TaskInv
    <3>3. CASE call'[p].at \in {"ask", "save"} /\ call'[p].d = call[p].d
      BY <2>1, <2>2, <3>2, <3>3 DEF TaskInv
    <3>4. CASE call'[p].at = "returned" /\ call'[p].result \in {Refused} \cup Result
      <4>1. call'[p].result \in Result =>
              (call'[p].result.state \in {"pending", "verified"} =>
                 /\ finals'[call[p].d] # Nothing
                 /\ finals'[call[p].d].state \in {call'[p].result.state, "verified"})
        BY <1>4, <3>1, <3>4, AnswersBacked
      <4> QED BY <2>1, <2>2, <3>2, <3>4, <4>1 DEF TaskInv, Backed
    <3> QED BY <3>1, <3>3, <3>4
  <2>3. CASE task[p].at # "anchored"
    BY <1>0, <2>1, <2>3 DEF TaskInv
  <2> QED BY <2>2, <2>3
<1>5. CASE Doing(p, "idle") /\ Answer(p) /\ UNCHANGED agentVars
  BY <1>1, <1>5 DEF Doing, agentVars
<1>6. CASE RunDecide(p)
  <2>1. [task[p] EXCEPT !.at = "plan"]
           = [at |-> "plan", run |-> task[p].run, intent |-> task[p].intent]
    BY <1>0, <1>6, ReadTask DEF RunDecide, Doing
  <2> QED BY <1>0, <1>1, <1>6, <2>1 DEF RunDecide, Do
<1>7. CASE RunPlan(p) \/ RunAct(p)
  BY <1>0, <1>7, ActMoves DEF TaskInv
<1>9. CASE RunSave(p) \/ ResumeSave(p) \/ AgentRestart(p)
  BY <1>0, <1>1, <1>9 DEF RunSave, ResumeSave, AgentRestart, Do, Idle
<1>10. CASE ResumeFinalize(p)
  <2>1. /\ [task[p] EXCEPT !.at = "anchored"]
              = [at |-> "anchored", run |-> task[p].run, tx |-> task[p].tx]
        /\ UNCHANGED runs
    BY <1>0, <1>10, ReadTask DEF ResumeFinalize, Doing
  <2>2. task'[p].at = "anchored" /\ task'[p].run = task[p].run
    BY <1>0, <1>10, <2>1 DEF ResumeFinalize, Do
  <2>3. \/ call'[p].at = "existing" /\ call'[p].d = runs[task[p].run].decision
        \/ call'[p].at = "returned" /\ call'[p].result = Refused
    BY <1>0, <1>10 DEF ResumeFinalize, FinalizeCheck, Goto, Return
  <2> QED BY <2>1, <2>2, <2>3, MakeReply DEF TaskInv
<1> QED BY <1>2, <1>3, <1>4, <1>5, <1>6, <1>7, <1>9, <1>10 DEF Step

LEMMA AnchorStep ==
    ASSUME OneProcess, ServersInv, FinalsInv, AnchorInv, [Next]_vars
    PROVE  AnchorInv'
<1>0. ServersInv'
  BY ServersStep
<1>1. ASSUME NEW r \in RunIds, runs'[r] # Nothing
      PROVE  Backed(runs[r].anchor, runs[r].decision)'
  <2>1. CASE runs'[r].anchor = "not_configured"
    BY <2>1 DEF Backed
  <2>2. CASE /\ runs[r] # Nothing /\ runs'[r].decision = runs[r].decision
             /\ Backed(runs'[r].anchor, runs[r].decision)
    <3>1. runs[r].decision \in DOMAIN decisions
      BY <2>2 DEF ServersInv, ClaimInv, AgentPointing
    <3> QED BY <2>2, <3>1, BackedStays DEF Backed
  <2> QED BY <1>1, <2>1, <2>2, RunsBacked
<1>2. ASSUME NEW p \in Procs
      PROVE  TaskInv(p)'
  <2>1. CASE UNCHANGED vars \/ (Environment /\ UNCHANGED agentVars)
    <3>1. UNCHANGED <<finals, call, task, runs>>
      BY <2>1 DEF vars, guardVars, stored, agentVars, Environment, Tick, Mine
    <3> QED BY <3>1 DEF AnchorInv, TaskInv, Backed
  <2>2. ASSUME NEW q \in Procs, Request(q) \/ Claim(q) \/ Step(q) \/ AgentRestart(q)
        PROVE  TaskInv(p)'
    <3>1. p = q
      BY DEF OneProcess
    <3> QED BY <1>0, <2>2, <3>1, TaskKept
  <2> QED BY <2>1, <2>2 DEF Next
<1> QED BY <1>1, <1>2 DEF AnchorInv, TaskInv

LEMMA AnchorAlways ==
    ASSUME OneProcess
    PROVE  Spec => [](ServersInv /\ FinalsInv /\ AnchorInv)
<1>1. AgentInit => AnchorInv
  BY DEF AgentInit, Init, AnchorInv, Idle
<1>2. ServersInv /\ FinalsInv /\ AnchorInv /\ [Next]_vars => AnchorInv'
  BY AnchorStep
<1> QED BY <1>1, <1>2, FinalsAlways, PTL DEF Spec

(* The property RunAnchorBacked (MemoryGuardAgent._resume_claimed over     *)
(* save_finalization), of one server: a run that reports a transaction     *)
(* pending or verified has the ledger of finalizations behind it.          *)
THEOREM RunAnchorsAreBacked ==
    ASSUME OneProcess
    PROVE  Spec => []RunAnchorBacked
<1>1. AnchorInv => RunAnchorBacked
  BY DEF AnchorInv, RunAnchorBacked, Backed
<1> QED BY <1>1, AnchorAlways, PTL

----------------------------------------------------------------------------
(* The bound on decisions, and the type invariant. *)

LEMMA RoomLeft ==
    ASSUME OneProcess, NEW p \in Procs, NEW S, S \subseteq Procs, p \notin S, GuardTyped, Room(S)
    PROVE  Len(decisions) < MaxDecisions
<1>1. S = {}
  BY DEF OneProcess
<1>2. Cardinality(S) = 0
  BY <1>1, FS_EmptySet
<1>3. Len(decisions) \in Nat
  BY DEF GuardTyped
<1> QED BY <1>2, <1>3 DEF Room

(* While a draft is under way in its process, only its steps happen there. *)
LEMMA DuringDraft ==
    ASSUME ServersInv, OneProcess, [Next]_vars, NEW p \in Procs, call[p].at = "draft",
           call'[p].at = "returned"
    PROVE  task' = task
<1>0. /\ task \in [Procs -> TaskState] /\ call \in [Procs -> CallState]
      /\ GuardTyped /\ GuardPointing
  BY DEF ServersInv, ClaimInv, AgentTyped, GuardTyped
<1>1. task[p].at \in {"idle", "plan"}
  <2>1. task[p].at \in {"idle", "claim_run", "decide", "plan", "act", "claim_anchor", "finalize",
                        "anchored"}
    BY <1>0, ReadTask
  <2>2. call[p] # Idle
    BY DEF Idle
  <2>3. task[p].at # "anchored"
    BY DEF ServersInv, ClaimInv, Coupled
  <2>4. task[p].at \notin {"claim_run", "decide", "act", "claim_anchor", "finalize"}
    BY <2>2 DEF ServersInv, ClaimInv, Coupled
  <2> QED BY <2>1, <2>3, <2>4
<1>2. CASE UNCHANGED vars \/ (Environment /\ UNCHANGED agentVars)
  BY <1>2 DEF vars, agentVars
<1>3. CASE Request(p)
  BY <1>0, <1>1, <1>3 DEF Request, RunRequest, ResumeRequest, Cancel, GuardRequest, At, agentVars
<1>4. CASE Claim(p) \/ AgentRestart(p)
  <2>1. ~Claim(p)
    BY <1>1 DEF Claim, RunExisting, RunClaim, ResumeNothing, ResumeClaim, Doing
  <2> QED BY <1>0, <1>4, <2>1 DEF AgentRestart, Restart, Goto, Idle
<1>5. CASE Step(p)
  BY <1>0, <1>1, <1>5 DEF Step, RunDecide, RunPlan, RunAct, RunSave, ResumeFinalize, ResumeSave,
     Doing, At, DecideLoad, agentVars
<1>6. \A q \in Procs : q = p
  BY DEF OneProcess
<1> QED BY <1>2, <1>3, <1>4, <1>5, <1>6 DEF Next

LEMMA PendingKept ==
    ASSUME OneProcess, ServersInv, [Next]_vars, NEW p \in Procs, decisions' = decisions,
           Request(p) \/ Claim(p) \/ Step(p) \/ AgentRestart(p), Pending(p)'
    PROVE  Pending(p) \/ Len(decisions) < MaxDecisions
<1>0. /\ task \in [Procs -> TaskState] /\ call \in [Procs -> CallState]
      /\ task[p] \in TaskState /\ call[p] \in CallState
      /\ GuardTyped /\ GuardPointing /\ AgentTyped
  BY DEF ServersInv, ClaimInv, AgentTyped, GuardTyped
<1>1. CASE \E g \in Goals : RunRequest(p, g)
  <2>1. PICK g \in Goals : RunRequest(p, g)
    BY <1>1
  <2>2. call'[p].at = "idle" /\ UNCHANGED runs
        /\ task'[p].at = "claim_run" /\ task'[p].run = g.run
    BY <1>0, <2>1 DEF RunRequest, Do, guardVars, At
  <2>3. p \notin {q \in Procs : Deciding(q)}
    BY <2>1 DEF RunRequest, Deciding, At, Doing
  <2>4. runs[g.run] = Nothing
    BY <2>2 DEF Pending
  <2>5. Room({q \in Procs : Deciding(q)})
    BY <2>1, <2>4 DEF RunRequest
  <2> QED BY <1>0, <2>3, <2>5, RoomLeft
<1>2. CASE GuardRequest(p) /\ Doing(p, "idle") /\ UNCHANGED agentVars
  <2>1. call'[p].at = "draft"
    BY <1>2 DEF Pending, Doing, agentVars
  <2>2. call[p].at = "idle"
    BY <1>2 DEF GuardRequest, ObserveLoad, DecideLoad, FinalizeCheck, At
  <2>3. Room({q \in Procs : At(q, "draft")})
    BY <1>0, <1>2, <2>1 DEF GuardRequest, ObserveLoad, FinalizeCheck, Goto, Return
  <2>4. p \notin {q \in Procs : At(q, "draft")}
    BY <2>2 DEF At
  <2> QED BY <1>0, <2>3, <2>4, RoomLeft
<1>3. CASE (GuardStep(p) \/ Answer(p)) /\ UNCHANGED agentVars
  <2>1. ASSUME NEW i \in AnyIntent, DecideLoad(p, i)
        PROVE  FALSE
    <3>1. call[p].at = "idle"
      BY <2>1 DEF DecideLoad, At
    <3> QED BY <1>0, <1>3, <3>1, CallGoesOn DEF Answer, At
  <2>2. call'[p].at = "draft" => call[p].at = "draft"
    BY <1>0, <2>1, DraftCalls
  <2> QED BY <1>3, <2>2 DEF Pending, agentVars
<1>4. CASE RunClaim(p)
  BY <1>4 DEF RunClaim, Doing, Pending
<1>5. CASE RunDecide(p)
  BY <1>5 DEF RunDecide, Doing, Pending
<1>6. CASE \/ RunExisting(p) \/ ResumeNothing(p)
           \/ RunSave(p) \/ ResumeSave(p) \/ AgentRestart(p)
  <2>1. task'[p] = Idle /\ (call'[p] = call[p] \/ call'[p] = Idle)
    BY <1>0, <1>6 DEF RunExisting, ResumeNothing, RunSave, ResumeSave, AgentRestart, Restart, Do,
       Goto, guardVars
  <2> QED BY <2>1 DEF Pending, Idle
<1>7. CASE ResumeClaim(p)
  <2>1. [task[p] EXCEPT !.at = "finalize"]
           = [at |-> "finalize", run |-> task[p].run, tx |-> task[p].tx]
    BY <1>0, <1>7, ReadTask DEF ResumeClaim, Doing
  <2> QED BY <1>0, <1>7, <2>1 DEF ResumeClaim, Do, guardVars, Pending
<1>8. CASE \/ \E r \in RunIds, tx \in Txs \cup {NoTx} : ResumeRequest(p, r, tx)
           \/ \E r \in RunIds : Cancel(p, r)
  <2>1. task'[p].at \in {"idle", "claim_anchor"} /\ call'[p] = call[p]
    <3>1. CASE \E r \in RunIds, tx \in Txs \cup {NoTx} : ResumeRequest(p, r, tx)
      BY <1>0, <3>1 DEF ResumeRequest, Do, guardVars
    <3>2. CASE \E r \in RunIds : Cancel(p, r)
      BY <3>2 DEF Cancel, Doing, guardVars
    <3> QED BY <1>8, <3>1, <3>2
  <2> QED BY <2>1 DEF Pending
<1>9. CASE RunPlan(p) \/ RunAct(p) \/ ResumeFinalize(p)
  <2>1. call'[p].at # "draft"
    <3>1. ASSUME NEW i \in AnyIntent, DecideLoad(p, i)
          PROVE  call'[p].at # "draft"
      BY <1>0, <1>9, <3>1 DEF RunPlan, RunAct, ResumeFinalize, FinalizeCheck, DecideLoad, At, Goto,
         Return, guardVars, Idle
    <3>2. call[p].at # "draft" \/ call'[p] # call[p]
      <4>1. CASE RunPlan(p)
        BY <4>1 DEF RunPlan, At
      <4>2. CASE RunAct(p)
        BY <4>2 DEF RunAct, Doing, ServersInv, ClaimInv, Coupled, Idle
      <4>3. CASE ResumeFinalize(p)
        BY <4>3 DEF ResumeFinalize, FinalizeCheck, At
      <4> QED BY <1>9, <4>1, <4>2, <4>3
    <3> QED BY <1>0, <3>1, <3>2, DraftCalls
  <2>2. task'[p].at \in {"act", "anchored"}
    <3>1. CASE ResumeFinalize(p)
      <4>1. [task[p] EXCEPT !.at = "anchored"]
               = [at |-> "anchored", run |-> task[p].run, tx |-> task[p].tx]
        BY <1>0, <3>1, ReadTask DEF ResumeFinalize, Doing
      <4> QED BY <1>0, <3>1, <4>1 DEF ResumeFinalize, Do
    <3>2. CASE RunPlan(p) \/ RunAct(p)
      BY <1>0, <3>2, ActMoves
    <3> QED BY <1>9, <3>1, <3>2
  <2> QED BY <2>1, <2>2 DEF Pending
<1> QED BY <1>1, <1>2, <1>3, <1>4, <1>5, <1>6, <1>7, <1>8, <1>9 DEF Request, Claim, Step

LEMMA BoundStep ==
    ASSUME OneProcess, ServersInv, WithinBound, [Next]_vars
    PROVE  WithinBound'
<1>0. GuardTyped /\ GuardPointing /\ AgentTyped /\ GuardTyped'
  BY ServersStep DEF ServersInv, ClaimInv
<1>1. MaxDecisions \in Nat /\ Len(decisions) \in Nat
  BY <1>0, GuardConstants DEF GuardTyped
<1>2. ASSUME NEW p \in Procs, DecideSave(p)
      PROVE  WithinBound'
  <2>1. call[p].at = "draft" /\ Len(decisions) < MaxDecisions
    BY <1>2 DEF DecideSave, At, WithinBound, Pending
  <2>2. Len(decisions') = Len(decisions) + 1
    BY <1>0, <1>2 DEF DecideSave, GuardTyped
  <2>3. call'[p].at = "returned"
    BY <1>0, <1>2 DEF DecideSave, Goto, Return, GuardTyped
  <2>4. task[p].at \notin {"claim_run", "decide"}
    BY <2>1 DEF ServersInv, ClaimInv, Coupled, Idle
  <2>5. task'[p].at \notin {"claim_run", "decide"}
    <3>1. task' = task
      BY <2>1, <2>3, DuringDraft
    <3> QED BY <2>4, <3>1
  <2>6. \A q \in Procs : q = p
    BY DEF OneProcess
  <2> QED BY <1>1, <2>1, <2>2, <2>3, <2>5, <2>6 DEF WithinBound, Pending
<1>3. ASSUME decisions' = decisions, NEW p \in Procs,
             Request(p) \/ Claim(p) \/ Step(p) \/ AgentRestart(p)
      PROVE  WithinBound'
  <2>1. Pending(p)' => Len(decisions) < MaxDecisions
    <3> SUFFICES ASSUME Pending(p)'
                 PROVE  Len(decisions) < MaxDecisions
      OBVIOUS
    <3>1. Pending(p) \/ Len(decisions) < MaxDecisions
      BY <1>3, PendingKept
    <3> QED BY <3>1 DEF WithinBound
  <2>2. \A q \in Procs : q = p
    BY DEF OneProcess
  <2> QED BY <1>3, <2>1, <2>2 DEF WithinBound
<1>4. CASE UNCHANGED vars \/ (Environment /\ UNCHANGED agentVars)
  <2>1. UNCHANGED <<decisions, call, task, runs>>
    BY <1>4 DEF vars, guardVars, stored, agentVars, Environment, Tick, Mine
  <2> QED BY <2>1 DEF WithinBound, Pending
<1>5. decisions' = decisions \/ \E p \in Procs : DecideSave(p)
  <2>1. ASSUME NEW p \in Procs, GuardMove(p), ~DecideSave(p)
        PROVE  decisions' = decisions
    BY <2>1 DEF GuardMove, ObserveLoad, CommitCompare, CommitEvent, CommitEntity, DecideLoad,
       FinalizeCheck, FinalizeExisting, FinalizeAsk, FinalizeSave, Ends, stored
  <2> QED BY <1>0, <2>1, GuardMoves DEF Outside, guardVars, stored
<1> QED BY <1>2, <1>3, <1>4, <1>5 DEF Next

LEMMA BoundAlways ==
    ASSUME OneProcess
    PROVE  Spec => [](ServersInv /\ MemoryInv /\ WithinBound)
<1>1. AgentInit => WithinBound
  BY GuardConstants DEF AgentInit, Init, WithinBound, Pending, Idle
<1>2. ServersInv /\ WithinBound /\ [Next]_vars => WithinBound'
  BY BoundStep
<1> QED BY <1>1, <1>2, MemoryAlways, PTL DEF Spec

(* The type invariant, of one server (the bound on decisions counts the    *)
(* drafts under way in it).                                                *)
THEOREM AgentTypeCorrect ==
    ASSUME OneProcess
    PROVE  Spec => []TypeOK
<1>1. ServersInv /\ MemoryInv /\ WithinBound => TypeOK
  <2> SUFFICES ASSUME ServersInv, MemoryInv, WithinBound
               PROVE  TypeOK
    OBVIOUS
  <2>1. GuardTyped /\ AgentTyped /\ AgentPointing
    BY DEF ServersInv, ClaimInv
  <2>2. Range(memory) \cup acknowledged \subseteq Item
    BY <2>1, SubjectTyped DEF GuardTyped
  <2>3. \A d \in DOMAIN decisions : decisions[d].verdict \in {"deny", "ready", "needs_human"}
    <3>1. \A d \in DOMAIN decisions : decisions[d] \in Draft
      BY <2>1 DEF GuardTyped
    <3> QED BY <3>1 DEF Draft, Verdicts
  <2> QED BY <2>1, <2>2, <2>3 DEF TypeOK, GuardTyped, AgentTyped, AgentPointing, WithinBound
<1> QED BY <1>1, BoundAlways, PTL

----------------------------------------------------------------------------
(* What a call holds at its step, and what the ledgers hold, whatever other *)
(* servers do: a commit has a report under a key it has not seen, a draft  *)
(* is what the policy says of its root at some time that has come, and a   *)
(* result is what the plan or the chain can answer for its decision.       *)

Identifiers == (0..MaxObserved) \X Procs
PolicyVersions == {c.policy : c \in Configs}

KeepsReport(item, seen) ==
    \E o \in Observations, id \in Identifiers :
        /\ item = Kept(id, o)
        /\ \A i \in Range(seen) : i.key # o.key

ByPolicy(draft) ==
    \E intent \in AnyIntent, policy \in PolicyVersions, now \in 0..clock :
        draft = [intent  |-> intent,
                 verdict |-> Verdict(intent, Range(draft.root), now),
                 root    |-> draft.root,
                 policy  |-> policy,
                 expires |-> now + TTL]

Planned(final, d) ==
    /\ final.tx = NoTx
    /\ final.state \in {"local_finalized", "confirmation_required", "failed"}
    /\ final.state = "local_finalized" => decisions[d].verdict # "ready"
    /\ final.state = "failed" => decisions[d].verdict = "ready"

Witnessed(final, d) ==
    /\ final.tx \in Txs
    /\ final.state \in {"pending", "verified"}
    /\ final.state = "verified" => chain[final.tx] = [status |-> "anchored", root |-> d]

Supported(final, d) == Planned(final, d) \/ Witnessed(final, d)

(* The properties of decisions and finalizations on record. *)
DecisionsFollowPolicy == \A d \in DOMAIN decisions : ByPolicy(decisions[d])
FinalsSupported == \A d \in DOMAIN finals : finals[d] # Nothing => Supported(finals[d], d)

CallHolds(c) ==
    /\ c.at \in {"commit", "event", "entity"} => KeepsReport(c.item, c.seen)
    /\ c.at = "draft" => ByPolicy(c.decision)
    /\ c.at = "save" => Supported(c.result, c.d)

RecordInv ==
    /\ chain = [x \in Txs |-> chain[x]]
    /\ DecisionsFollowPolicy
    /\ FinalsSupported
    /\ \A p \in Procs : CallHolds(call[p])

LEMMA ChainKept ==
    ASSUME NEW p \in Procs, GuardMove(p)
    PROVE  UNCHANGED chain
  BY DEF GuardMove, ObserveLoad, CommitCompare, CommitEvent, CommitEntity, DecideLoad, DecideSave,
     FinalizeCheck, FinalizeExisting, FinalizeAsk, FinalizeSave, Ends

LEMMA TimeMoves ==
    ASSUME GuardTyped, AgentTyped, [Next]_vars
    PROVE  clock' \in {clock, clock + 1}
<1>1. ASSUME NEW p \in Procs, GuardMove(p)
      PROVE  UNCHANGED clock
  BY <1>1 DEF GuardMove, ObserveLoad, CommitCompare, CommitEvent, CommitEntity, DecideLoad,
     DecideSave, FinalizeCheck, FinalizeExisting, FinalizeAsk, FinalizeSave, Ends
<1> QED BY <1>1, GuardMoves DEF Outside, guardVars

(* What the chain has taken it keeps. *)
LEMMA ChainMoves ==
    ASSUME GuardTyped, AgentTyped, RecordInv, [Next]_vars
    PROVE  /\ chain' = [x \in Txs |-> chain'[x]]
           /\ \A x \in Txs : chain[x].status # "unmined" => chain'[x] = chain[x]
<1>1. CASE UNCHANGED chain
  BY <1>1 DEF RecordInv
<1>2. ASSUME NEW x \in Txs, NEW d \in DOMAIN decisions, Mine(x, d)
      PROVE  /\ chain' = [y \in Txs |-> chain'[y]]
             /\ \A y \in Txs : chain[y].status # "unmined" => chain'[y] = chain[y]
  <2> DEFINE new == IF \E y \in Txs : chain[y] = [status |-> "anchored", root |-> d]
                    THEN [status |-> "reverted", root |-> 0]
                    ELSE [status |-> "anchored", root |-> d]
  <2>1. chain[x].status = "unmined" /\ chain' = [chain EXCEPT ![x] = new]
    BY <1>2 DEF Mine
  <2>2. chain = [y \in Txs |-> chain[y]]
    BY DEF RecordInv
  <2> HIDE DEF new
  <2>3. chain' = [y \in Txs |-> IF y = x THEN new ELSE chain[y]]
    BY <2>1, <2>2
  <2> QED BY <2>1, <2>3
<1> QED BY <1>1, <1>2, GuardMoves, ChainKept DEF Outside, guardVars

(* What was supported stays so, under time, the chain and other drafts. *)
LEMMA PolicyStays ==
    ASSUME GuardTyped, AgentTyped, [Next]_vars, NEW draft, ByPolicy(draft)
    PROVE  ByPolicy(draft)'
<1>1. clock \in Nat /\ clock' \in {clock, clock + 1}
  BY TimeMoves DEF GuardTyped
<1>2. 0..clock \subseteq 0..clock'
  BY <1>1
<1> QED BY <1>2 DEF ByPolicy

LEMMA SupportStays ==
    ASSUME GuardTyped, AgentTyped, RecordInv, [Next]_vars,
           NEW d \in DOMAIN decisions, NEW final, Supported(final, d)
    PROVE  Supported(final, d)'
<1>1. decisions'[d] = decisions[d]
  BY DraftsStay
<1>2. ASSUME final.tx \in Txs, chain[final.tx] = [status |-> "anchored", root |-> d]
      PROVE  chain'[final.tx] = chain[final.tx]
  <2>1. chain[final.tx].status # "unmined"
    BY <1>2
  <2> QED BY <1>2, <2>1, ChainMoves
<1> QED BY <1>1, <1>2 DEF Supported, Planned, Witnessed

LEMMA HoldsNext ==
    ASSUME NEW q \in Procs, NEW c, call'[q] = c,
           c.at \in {"commit", "event", "entity"} => KeepsReport(c.item, c.seen),
           c.at = "draft" => ByPolicy(c.decision)',
           c.at = "save" => Supported(c.result, c.d)'
    PROVE  CallHolds(call[q])'
  BY DEF CallHolds, KeepsReport, ByPolicy, Supported, Planned, Witnessed

LEMMA MovedCall ==
    ASSUME GuardTyped, GuardPointing, AgentTyped, [Next]_vars, NEW q \in Procs
    PROVE  call'[q] = call[q] \/ GuardMove(q)
<1>0. call \in [Procs -> CallState]
  BY DEF GuardTyped
<1>1. ASSUME NEW p \in Procs, GuardMove(p), q # p
      PROVE  call'[q] = call[q]
  BY <1>0, <1>1, FinalizeMoves DEF GuardMove, ObserveLoad, CommitCompare, CommitEvent,
     CommitEntity, DecideLoad, DecideSave, FinalizeCheck, Ends, Goto, Return
<1> QED BY <1>1, GuardMoves DEF Outside, guardVars

LEMMA KeyIsNew ==
    ASSUME GuardTyped, NEW p \in Procs, NEW o \in Observations,
           Cardinality(journal) < MaxObserved, \A i \in Range(memory) : i.key # o.key
    PROVE  KeepsReport(Stored(p, o), memory)
<1> DEFINE id == <<Cardinality(journal), p>>
<1>1. id \in Identifiers
  <2>1. Cardinality(journal) \in Nat /\ MaxObserved \in Nat
    BY FS_CardinalityType, GuardConstants DEF GuardTyped
  <2> QED BY <2>1 DEF Identifiers
<1>2. Stored(p, o) = Kept(id, o)
  BY DEF Stored
<1>3. Kept(id, o).key = o.key
  BY DEF Kept
<1> HIDE DEF id
<1> QED BY <1>1, <1>2, <1>3 DEF KeepsReport

LEMMA AskSupported ==
    ASSUME GuardTyped, GuardPointing, NEW p \in Procs, FinalizeAsk(p)
    PROVE  \/ call'[p].at = "returned"
           \/ \E result \in Result :
                 /\ call'[p] = [at |-> "save", d |-> call[p].d, result |-> result]
                 /\ Supported(result, call[p].d)
<1> DEFINE d == call[p].d
           tx == call[p].tx
           Saves(s) == call'[p] = [at |-> "save", d |-> d, result |-> [state |-> s, tx |-> tx]]
<1>0. call \in [Procs -> CallState] /\ call[p].at = "ask" /\ tx \in Txs \cup {NoTx}
  BY ReadCall DEF FinalizeAsk, At, GuardTyped
<1>1. \/ call'[p].at = "returned"
      \/ tx # NoTx /\ \E s \in VerifyStates(p, d, tx) : s # "failed" /\ Saves(s)
      \/ tx = NoTx /\ \E s \in PlanStates(p, d) : Saves(s)
  BY <1>0 DEF FinalizeAsk, Goto, Return
<1>2. ASSUME NEW s \in VerifyStates(p, d, tx), s # "failed", tx # NoTx, Saves(s)
      PROVE  Witnessed([state |-> s, tx |-> tx], d)
  <2>1. s \in {"pending", "verified"}
        /\ (s = "verified" => chain[tx] = [status |-> "anchored", root |-> d])
    BY <1>2 DEF VerifyStates
  <2> QED BY <1>0, <1>2, <2>1 DEF Witnessed
<1>3. ASSUME NEW s \in PlanStates(p, d), tx = NoTx, Saves(s)
      PROVE  Planned([state |-> s, tx |-> tx], d)
  <2>1. /\ s \in {"confirmation_required", "failed", "local_finalized"}
        /\ s = "failed" => decisions[d].verdict = "ready"
        /\ s = "local_finalized" => decisions[d].verdict # "ready"
    BY DEF PlanStates
  <2> QED BY <1>3, <2>1 DEF Planned
<1>4. /\ \A s \in VerifyStates(p, d, tx) : [state |-> s, tx |-> tx] \in Result
      /\ \A s \in PlanStates(p, d) : [state |-> s, tx |-> tx] \in Result
  BY <1>0, AskResults
<1> HIDE DEF d, tx
<1>5. ASSUME NEW s, Saves(s), [state |-> s, tx |-> tx] \in Result,
             Supported([state |-> s, tx |-> tx], d)
      PROVE  \E result \in Result :
                 /\ call'[p] = [at |-> "save", d |-> d, result |-> result]
                 /\ Supported(result, d)
  BY <1>5
<1> HIDE DEF Saves
<1>6. \/ call'[p].at = "returned"
      \/ \E result \in Result : /\ call'[p] = [at |-> "save", d |-> d, result |-> result]
                                /\ Supported(result, d)
  BY <1>1, <1>2, <1>3, <1>4, <1>5 DEF Supported
<1> QED BY <1>6 DEF d

LEMMA CallsHold ==
    ASSUME GuardTyped, GuardPointing, AgentTyped, RecordInv, [Next]_vars, NEW q \in Procs
    PROVE  CallHolds(call[q])'
<1>0. /\ call \in [Procs -> CallState] /\ call[q] \in CallState
      /\ CallHolds(call[q])
  BY DEF GuardTyped, RecordInv
<1>1. CASE call'[q] = call[q]
  <2> DEFINE c == call[q]
  <2>1. c.at \in {"commit", "event", "entity"} => KeepsReport(c.item, c.seen)
    BY <1>0 DEF CallHolds
  <2>2. ASSUME c.at = "draft"
        PROVE  ByPolicy(c.decision)'
    <3>1. PICK e : e = c.decision
      OBVIOUS
    <3>2. ByPolicy(e)
      BY <1>0, <2>2, <3>1 DEF CallHolds
    <3>3. ByPolicy(e)'
      BY <3>2, PolicyStays
    <3>4. (c.decision)' = e
      BY <1>1, <3>1
    <3> QED BY <3>3, <3>4 DEF ByPolicy
  <2>3. ASSUME c.at = "save"
        PROVE  Supported(c.result, c.d)'
    <3>1. PICK e, d : e = c.result /\ d = c.d
      OBVIOUS
    <3>2. d \in DOMAIN decisions
      BY <2>3, <3>1 DEF GuardPointing
    <3>3. Supported(e, d)
      BY <1>0, <2>3, <3>1 DEF CallHolds
    <3>4. Supported(e, d)'
      BY <3>2, <3>3, SupportStays
    <3>5. (c.result)' = e /\ (c.d)' = d
      BY <1>1, <3>1
    <3> QED BY <3>4, <3>5 DEF Supported, Planned, Witnessed
  <2>4. KeepsReport(c.item, c.seen) => KeepsReport(c'.item, c'.seen)
    BY <1>1
  <2>5. c' = c
    BY <1>1
  <2> QED BY <2>1, <2>2, <2>3, <2>4, <2>5 DEF CallHolds
<1>2. ASSUME NEW o \in Observations, ObserveLoad(q, o)
      PROVE  CallHolds(call[q])'
  <2> DEFINE c == [at |-> "commit", item |-> Stored(q, o), seen |-> memory]
  <2>1. \/ call'[q] = c /\ KeepsReport(Stored(q, o), memory)
        \/ call'[q].at = "returned"
    BY <1>0, <1>2, KeyIsNew DEF ObserveLoad, Goto, Return
  <2>2. c.at = "commit" /\ c.item = Stored(q, o) /\ c.seen = memory
    OBVIOUS
  <2> HIDE DEF c
  <2> QED BY <2>1, <2>2 DEF CallHolds
<1>3. CASE CommitCompare(q) \/ CommitEvent(q)
  <2>1. call[q].at \in {"commit", "event"}
    BY <1>3 DEF CommitCompare, CommitEvent, At
  <2>2. KeepsReport(call[q].item, call[q].seen)
    BY <1>0, <2>1 DEF CallHolds
  <2>3. /\ [call[q] EXCEPT !.at = "event"]
              = [at |-> "event", item |-> call[q].item, seen |-> call[q].seen]
        /\ [call[q] EXCEPT !.at = "entity"]
              = [at |-> "entity", item |-> call[q].item, seen |-> call[q].seen]
    BY <1>0, <2>1, ReadCall
  <2>4. \/ call'[q] = [at |-> "event", item |-> call[q].item, seen |-> call[q].seen]
        \/ call'[q] = [at |-> "entity", item |-> call[q].item, seen |-> call[q].seen]
        \/ call'[q] = [at |-> "returned", result |-> Refused]
    BY <1>0, <1>3, <2>3 DEF CommitCompare, CommitEvent, Goto, Return
  <2>5. /\ call'[q].at \in {"event", "entity", "returned"}
        /\ call'[q].at \in {"event", "entity"} =>
              call'[q].item = call[q].item /\ call'[q].seen = call[q].seen
    BY <2>4
  <2> QED BY <2>2, <2>5 DEF CallHolds
<1>4. ASSUME NEW i \in AnyIntent, DecideLoad(q, i)
      PROVE  CallHolds(call[q])'
  <2> DEFINE draft == [intent |-> i, verdict |-> Verdict(i, Range(memory), clock), root |-> memory,
                       policy |-> config[q].policy, expires |-> clock + TTL]
  <2>1. call'[q] = [at |-> "draft", decision |-> draft] /\ UNCHANGED clock
    BY <1>0, <1>4 DEF DecideLoad, Goto
  <2>2. clock \in 0..clock /\ config[q].policy \in PolicyVersions
    BY DEF GuardTyped, PolicyVersions
  <2>3. draft.root = memory
    OBVIOUS
  <2>4. ByPolicy(draft)
    BY <2>2, <2>3 DEF ByPolicy
  <2> HIDE DEF draft
  <2>5. PICK e : e = draft
    OBVIOUS
  <2>6. ByPolicy(e)
    BY <2>4, <2>5
  <2>7. ByPolicy(e)'
    BY <2>6, PolicyStays
  <2>8. call'[q].at = "draft" /\ call'[q].decision = e
    BY <2>1, <2>5
  <2>9. ByPolicy(call[q].decision)'
    BY <2>7, <2>8 DEF ByPolicy
  <2> QED BY <2>8, <2>9 DEF CallHolds
<1>5. CASE FinalizeAsk(q)
  <2>1. CASE call'[q].at = "returned"
    BY <2>1 DEF CallHolds
  <2>2. ASSUME NEW result \in Result, NEW d, d = call[q].d,
               call'[q] = [at |-> "save", d |-> d, result |-> result], Supported(result, d)
        PROVE  CallHolds(call[q])'
    <3>1. d \in DOMAIN decisions
      BY <1>5, <2>2 DEF FinalizeAsk, At, GuardPointing
    <3>2. Supported(result, d)'
      BY <2>2, <3>1, SupportStays
    <3>3. call'[q].at = "save" /\ call'[q].d = d /\ call'[q].result = result
      BY <2>2
    <3>4. Supported(call[q].result, call[q].d)'
      BY <3>2, <3>3 DEF Supported, Planned, Witnessed
    <3> QED BY <3>3, <3>4 DEF CallHolds
  <2>3. PICK d : d = call[q].d
    OBVIOUS
  <2> QED BY <1>5, <2>1, <2>2, <2>3, AskSupported
<1>6. CASE FinalizeExisting(q)
  <2>1. call[q].at = "existing"
    BY <1>6 DEF FinalizeExisting, At
  <2>2. [call[q] EXCEPT !.at = "ask"] = [at |-> "ask", d |-> call[q].d, tx |-> call[q].tx]
    BY <1>0, <2>1, ReadCall
  <2>3. call'[q].at \in {"ask", "returned"}
    BY <1>0, <1>6, <2>2 DEF FinalizeExisting, Goto, Return
  <2> QED BY <2>3 DEF CallHolds
<1>7. CASE \/ CommitEntity(q) \/ DecideSave(q) \/ FinalizeSave(q) \/ Ends(q)
           \/ \E d \in DOMAIN decisions, tx \in Txs \cup {NoTx} : FinalizeCheck(q, d, tx)
  <2>1. call'[q].at \in {"idle", "existing", "returned"}
    BY <1>0, <1>7 DEF CommitEntity, DecideSave, FinalizeSave, Ends, FinalizeCheck, Goto, Return, Idle
  <2> QED BY <2>1 DEF CallHolds
<1> QED BY <1>1, <1>2, <1>3, <1>4, <1>5, <1>6, <1>7, MovedCall DEF GuardMove

LEMMA RecordsHold ==
    ASSUME GuardTyped, GuardPointing, AgentTyped, GuardTyped', RecordInv, [Next]_vars
    PROVE  DecisionsFollowPolicy' /\ FinalsSupported'
<1>1. ASSUME NEW d \in DOMAIN decisions'
      PROVE  ByPolicy(decisions[d])'
  <2>1. PICK e : e = decisions'[d]
    OBVIOUS
  <2>2. CASE d \in DOMAIN decisions
    <3>1. ByPolicy(e)
      BY <2>1, <2>2, DraftsStay DEF RecordInv, DecisionsFollowPolicy
    <3>2. ByPolicy(e)'
      BY <3>1, PolicyStays
    <3> QED BY <2>1, <3>2 DEF ByPolicy
  <2>3. CASE d \notin DOMAIN decisions
    <3>1. PICK p \in Procs : DecideSave(p) /\ decisions'[d] = call[p].decision
      BY <2>3, DraftsFromCalls
    <3>2. ByPolicy(e)
      BY <2>1, <3>1 DEF DecideSave, At, RecordInv, CallHolds
    <3>3. ByPolicy(e)'
      BY <3>2, PolicyStays
    <3> QED BY <2>1, <3>3 DEF ByPolicy
  <2> QED BY <2>2, <2>3
<1>2. ASSUME NEW d \in DOMAIN finals', finals'[d] # Nothing
      PROVE  Supported(finals[d], d)'
  <2>1. PICK e : e = finals'[d]
    OBVIOUS
  <2>2. ASSUME d \in DOMAIN finals
        PROVE  d \in DOMAIN decisions /\ Supported(e, d)
    <3>1. d \in DOMAIN decisions
      BY <2>2 DEF GuardTyped
    <3>2. CASE finals'[d] = finals[d]
      BY <1>2, <2>1, <2>2, <3>1, <3>2 DEF RecordInv, FinalsSupported
    <3>3. ASSUME NEW p \in Procs, FinalizeSave(p), d = call[p].d, finals'[d] = call[p].result
          PROVE  Supported(e, d)
      BY <2>1, <3>3 DEF FinalizeSave, At, RecordInv, CallHolds
    <3> QED BY <2>2, <3>1, <3>2, <3>3, FinalsMove
  <2>3. d \in DOMAIN finals
    <3>1. ASSUME NEW p \in Procs, DecideSave(p), d \notin DOMAIN finals
          PROVE  finals'[d] = Nothing
      <4>1. finals \in Seq(Result \cup {Nothing}) /\ finals' = Append(finals, Nothing)
        BY <3>1 DEF DecideSave, GuardTyped
      <4> QED BY <3>1, <4>1
    <3>2. ASSUME NEW p \in Procs, FinalizeSave(p)
          PROVE  DOMAIN finals' = DOMAIN finals
      BY <3>2 DEF FinalizeSave, GuardTyped
    <3>3. ASSUME NEW p \in Procs, GuardMove(p), ~DecideSave(p), ~FinalizeSave(p)
          PROVE  finals' = finals
      BY <3>3 DEF GuardMove, ObserveLoad, CommitCompare, CommitEvent, CommitEntity, DecideLoad,
         FinalizeCheck, FinalizeExisting, FinalizeAsk, Ends, stored
    <3> QED BY <1>2, <3>1, <3>2, <3>3, GuardMoves DEF Outside, guardVars, stored
  <2>4. Supported(e, d)'
    BY <2>2, <2>3, SupportStays
  <2> QED BY <2>1, <2>4 DEF Supported, Planned, Witnessed
<1> QED BY <1>1, <1>2 DEF DecisionsFollowPolicy, FinalsSupported

LEMMA RecordStep ==
    ASSUME ServersInv, RecordInv, [Next]_vars
    PROVE  RecordInv'
<1>0. GuardTyped /\ GuardPointing /\ AgentTyped /\ GuardTyped'
  BY ServersStep DEF ServersInv, ClaimInv
<1>1. chain' = [x \in Txs |-> chain'[x]]
  BY <1>0, ChainMoves
<1>2. \A q \in Procs : CallHolds(call[q])'
  BY <1>0, CallsHold
<1>3. DecisionsFollowPolicy' /\ FinalsSupported'
  BY <1>0, RecordsHold
<1> QED BY <1>1, <1>2, <1>3 DEF RecordInv

LEMMA RecordAlways == Spec => [](ServersInv /\ RecordInv)
<1>1. AgentInit => RecordInv
  BY DEF AgentInit, Init, RecordInv, DecisionsFollowPolicy, FinalsSupported, CallHolds, Idle
<1>2. ServersInv /\ RecordInv /\ [Next]_vars => RecordInv'
  BY RecordStep
<1> QED BY <1>1, <1>2, ServersAlways, PTL DEF Spec

(* A decision on record is what the policy says of the memory it names, at *)
(* a time that has come (MemoryGuard.decide over policy.decide): of any    *)
(* number of servers, so that it can be replayed from its own root.        *)
THEOREM DecisionsCanBeReplayed == Spec => []DecisionsFollowPolicy
<1>1. RecordInv => DecisionsFollowPolicy
  BY DEF RecordInv
<1> QED BY <1>1, RecordAlways, PTL

(* A finalization on record says what plan or chain support                *)
(* (MemoryGuard.finalize over the anchor adapter): VERIFIED names a        *)
(* transaction that anchors this very decision, and READY is never         *)
(* finalized locally, whatever other servers and restarts do meanwhile.    *)
THEOREM FinalsAreSupported == Spec => []FinalsSupported
<1>1. RecordInv => FinalsSupported
  BY DEF RecordInv
<1> QED BY <1>1, RecordAlways, PTL

----------------------------------------------------------------------------
(* One server implements DecisionLedger: the write of the subject observes, *)
(* the write of the draft decides, the write of the finalization plans or  *)
(* attaches, the answer acknowledges.  Every other step, a crash between   *)
(* two writes included, changes nothing a client can see.                  *)

LEMMA LedgerObserves ==
    ASSUME GuardTyped, RecordInv, MemoryInv, NEW p \in Procs, CommitEntity(p)
    PROVE  \E o \in Observations : Ledger!Observe(o)
<1>1. call[p].at = "entity" /\ memory' = Append(call[p].seen, call[p].item)
  BY DEF CommitEntity, At
<1>2. call[p].seen = memory
  BY <1>1 DEF MemoryInv
<1>3. PICK o \in Observations, id \in Identifiers :
          call[p].item = Kept(id, o) /\ \A i \in Range(call[p].seen) : i.key # o.key
  BY <1>1 DEF RecordInv, CallHolds, KeepsReport
<1>4. UNCHANGED <<acknowledged, decisions, finals, chain, clock>>
  BY DEF CommitEntity
<1>5. Ledger!Observe(o)
  BY <1>1, <1>2, <1>3, <1>4 DEF Ledger!Observe, Ledger!Remembered, Range, Identifiers
<1> QED BY <1>5

LEMMA LedgerDecides ==
    ASSUME RecordInv, MemoryInv, NEW p \in Procs, DecideSave(p)
    PROVE  \E intent \in AnyIntent, policy \in PolicyVersions, now \in 0..clock :
               Ledger!Decide(intent, policy, now)
<1>1. call[p].at = "draft" /\ decisions' = Append(decisions, call[p].decision)
      /\ finals' = Append(finals, Nothing)
  BY DEF DecideSave, At
<1>2. call[p].decision.root = memory
  BY <1>1 DEF MemoryInv, Recalled
<1>3. PICK intent \in AnyIntent, policy \in PolicyVersions, now \in 0..clock :
          call[p].decision = [intent  |-> intent,
                              verdict |-> Verdict(intent, Range(call[p].decision.root), now),
                              root    |-> call[p].decision.root,
                              policy  |-> policy,
                              expires |-> now + TTL]
  BY <1>1 DEF RecordInv, CallHolds, ByPolicy
<1>4. UNCHANGED <<memory, acknowledged, chain, clock>>
  BY DEF DecideSave
<1>5. Ledger!Decide(intent, policy, now)
  BY <1>1, <1>2, <1>3, <1>4 DEF Ledger!Decide, Ledger!Remembered, Range
<1> QED BY <1>5

LEMMA LedgerSettles ==
    ASSUME GuardTyped, GuardPointing, RecordInv, MemoryInv, FinalsInv,
           NEW p \in Procs, FinalizeSave(p)
    PROVE  \E d \in DOMAIN decisions :
              \/ \E state \in {"local_finalized", "confirmation_required", "failed"} :
                     Ledger!Plan(d, state)
              \/ \E x \in Txs, state \in {"pending", "verified"} : Ledger!Attach(d, x, state)
<1> DEFINE d == call[p].d
           result == call[p].result
<1>1. call[p].at = "save" /\ finals' = [finals EXCEPT ![d] = result]
      /\ UNCHANGED <<memory, acknowledged, decisions, chain, clock>>
  BY DEF FinalizeSave, At
<1>2. d \in DOMAIN decisions /\ d \in DOMAIN finals
  BY <1>1 DEF GuardPointing, GuardTyped
<1>3. result \in Result
  BY <1>1, ReadCall DEF GuardTyped
<1>4. result = [state |-> result.state, tx |-> result.tx]
  BY <1>3 DEF Result
<1>5. Supported(result, d)
  BY <1>1 DEF RecordInv, CallHolds
<1>6. MayAsk(finals[d], result.tx)
  BY <1>1 DEF FinalsInv
<1>7. decisions[d].verdict = "ready" => memory = decisions[d].root
  BY <1>1 DEF MemoryInv
<1>8. finals[d] \in Result \cup {Nothing}
  BY <1>2 DEF GuardTyped
<1> HIDE DEF d, result
<1>9. Ledger!Settle(d, result.state, result.tx)
  BY <1>1, <1>4, <1>7 DEF Ledger!Settle, Ledger!Standing
<1>10. CASE Planned(result, d)
  <2>1. finals[d] = Nothing
    BY <1>6, <1>10 DEF MayAsk, Planned
  <2>2. Ledger!Plan(d, result.state)
    BY <1>9, <1>10, <2>1 DEF Ledger!Plan, Planned
  <2> QED BY <1>2, <1>10, <2>2 DEF Planned
<1>11. CASE Witnessed(result, d)
  <2>1. Ledger!Open(d, result.tx)
    <3>1. CASE finals[d] = Nothing
      BY <3>1 DEF Ledger!Open
    <3>2. CASE finals[d] # Nothing
      <4>1. finals[d].state \in {"pending", "confirmation_required"}
        BY <1>6, <1>8, <3>2 DEF MayAsk, Terminal, Result
      <4>2. finals[d].state = "pending" => finals[d].tx = result.tx
        BY <1>6, <3>2 DEF MayAsk, OtherTransaction
      <4> QED BY <4>1, <4>2 DEF Ledger!Open
    <3> QED BY <3>1, <3>2
  <2>2. result.state = "verified" => Ledger!Anchors(result.tx, d)
    BY <1>11 DEF Witnessed, Ledger!Anchors
  <2>3. Ledger!Attach(d, result.tx, result.state)
    BY <1>9, <2>1, <2>2 DEF Ledger!Attach
  <2> QED BY <1>2, <1>11, <2>3 DEF Witnessed
<1> QED BY <1>5, <1>10, <1>11 DEF Supported

LEMMA LedgerMines ==
    ASSUME NEW x \in Txs, NEW d \in DOMAIN decisions, Mine(x, d)
    PROVE  Ledger!Mine(x)
<1>1. chain[x].status = "unmined"
      /\ UNCHANGED <<memory, acknowledged, decisions, finals, clock>>
  BY DEF Mine, stored
<1>2. CASE \E y \in Txs : chain[y] = [status |-> "anchored", root |-> d]
  <2>1. chain' = [chain EXCEPT ![x] = [status |-> "reverted", root |-> 0]]
    BY <1>2 DEF Mine
  <2> QED BY <1>1, <2>1 DEF Ledger!Mine
<1>3. CASE ~ \E y \in Txs : chain[y] = [status |-> "anchored", root |-> d]
  <2>1. chain' = [chain EXCEPT ![x] = [status |-> "anchored", root |-> d]]
    BY <1>3 DEF Mine
  <2> QED BY <1>1, <1>3, <2>1 DEF Ledger!Mine, Ledger!Anchors
<1> QED BY <1>2, <1>3

LEMMA LedgerInit == AgentInit => Ledger!Init
  BY DEF AgentInit, Init, Ledger!Init

LEMMA LedgerStep ==
    ASSUME ServersInv, RecordInv, MemoryInv, FinalsInv, [Next]_vars
    PROVE  [Ledger!Next]_Ledger!vars
<1>0. GuardTyped /\ GuardPointing /\ AgentTyped
  BY DEF ServersInv, ClaimInv
<1>1. CASE UNCHANGED guardVars
  BY <1>1 DEF guardVars, stored, Ledger!vars
<1>2. CASE Outside
  <2>1. UNCHANGED <<memory, acknowledged, decisions, finals>>
    BY <1>2 DEF Outside, stored
  <2>2. CASE UNCHANGED chain
    <3>1. UNCHANGED clock \/ Ledger!Tick
      BY <1>2, <2>1, <2>2 DEF Outside, Ledger!Tick
    <3> QED BY <2>1, <2>2, <3>1 DEF Ledger!Next, Ledger!vars
  <2>3. ASSUME NEW x \in Txs, NEW d \in DOMAIN decisions, Mine(x, d)
        PROVE  [Ledger!Next]_Ledger!vars
    <3>1. Ledger!Mine(x)
      BY <2>3, LedgerMines
    <3>2. UNCHANGED <<memory, acknowledged, decisions, finals, clock>>
      BY <3>1 DEF Ledger!Mine
    <3> QED BY <3>1, <3>2 DEF Ledger!Next, Ledger!vars
  <2> QED BY <1>2, <2>2, <2>3 DEF Outside
<1>3. ASSUME NEW p \in Procs, GuardMove(p)
      PROVE  [Ledger!Next]_Ledger!vars
  <2>1. CASE CommitEntity(p)
    <3>1. PICK o \in Observations : Ledger!Observe(o)
      BY <1>0, <2>1, LedgerObserves
    <3>2. UNCHANGED <<acknowledged, decisions, finals, chain, clock>>
      BY <3>1 DEF Ledger!Observe
    <3> QED BY <3>1, <3>2 DEF Ledger!Next, Ledger!vars
  <2>2. CASE DecideSave(p)
    <3>1. PICK intent \in AnyIntent, policy \in PolicyVersions, now \in 0..clock :
              Ledger!Decide(intent, policy, now)
      BY <2>2, LedgerDecides
    <3>2. decisions' # decisions
      BY <1>0, <2>2 DEF DecideSave, GuardTyped
    <3> QED BY <3>1, <3>2 DEF Ledger!Next, AnyIntent, PolicyVersions
  <2>3. CASE FinalizeSave(p)
    <3>1. PICK d \in DOMAIN decisions :
              \/ \E state \in {"local_finalized", "confirmation_required", "failed"} :
                     Ledger!Plan(d, state)
              \/ \E x \in Txs, state \in {"pending", "verified"} : Ledger!Attach(d, x, state)
      BY <1>0, <2>3, LedgerSettles
    <3>2. UNCHANGED <<memory, acknowledged, decisions, chain, clock>>
      BY <2>3 DEF FinalizeSave
    <3> QED BY <3>1, <3>2 DEF Ledger!Next, Ledger!vars
  <2>4. CASE Ends(p)
    <3>1. UNCHANGED <<memory, decisions, finals, chain, clock>>
      BY <2>4 DEF Ends, stored
    <3>2. CASE UNCHANGED acknowledged
      BY <3>1, <3>2 DEF Ledger!vars
    <3>3. CASE acknowledged' # acknowledged
      <4>1. /\ call[p].at = "returned" /\ call[p].result.state = "observed"
            /\ acknowledged' = acknowledged \cup {call[p].result.item}
        BY <2>4, <3>3 DEF Ends, At
      <4>2. call[p].result \in Observed
        BY <1>0, <4>1, ReadCall, ReadReply DEF GuardTyped
      <4>3. call[p].result.item \in Range(memory)
        BY <4>1, <4>2 DEF MemoryInv
      <4>4. Ledger!Acknowledge(call[p].result.item)
        BY <3>1, <4>1 DEF Ledger!Acknowledge
      <4> QED BY <3>3, <4>3, <4>4 DEF Ledger!Next, Ledger!Remembered, Range
    <3> QED BY <3>2, <3>3
  <2>5. CASE ~CommitEntity(p) /\ ~DecideSave(p) /\ ~FinalizeSave(p) /\ ~Ends(p)
    <3>1. UNCHANGED <<memory, acknowledged, decisions, finals, chain, clock>>
      BY <1>3, <2>5 DEF GuardMove, ObserveLoad, CommitCompare, CommitEvent, DecideLoad,
         FinalizeCheck, FinalizeExisting, FinalizeAsk, stored
    <3> QED BY <3>1 DEF Ledger!vars
  <2> QED BY <2>1, <2>2, <2>3, <2>4, <2>5
<1> QED BY <1>0, <1>1, <1>2, <1>3, GuardMoves

(* The property ImplementsLedger, of one server: what clients see of       *)
(* observe, decide and finalize, whatever they ask and wherever the server *)
(* dies and is restarted, is a ledger in which each is one step.           *)
THEOREM ServerImplementsLedger ==
    ASSUME OneProcess
    PROVE  Spec => ImplementsLedger
<1>1. AgentInit => Ledger!Init
  BY LedgerInit
<1>2. ServersInv /\ RecordInv /\ MemoryInv /\ FinalsInv /\ [Next]_vars => [Ledger!Next]_Ledger!vars
  BY LedgerStep
<1> QED BY <1>1, <1>2, RecordAlways, MemoryAlways, FinalsAlways, PTL
     DEF Spec, Ledger!Spec, ImplementsLedger
=============================================================================
