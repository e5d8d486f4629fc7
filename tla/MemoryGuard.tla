----------------------------- MODULE MemoryGuard -----------------------------
(***************************************************************************)
(* The v1 decision module (src/src/proofops_memoryguard/module.py with     *)
(* policy.py, proof.py, the Sibyl memory adapter and the Base anchor       *)
(* adapter): observe, decide and finalize for one subject, by one or more  *)
(* server processes over one database, with crashes, restarts under        *)
(* another configuration, and a chain that answers late or not at all.     *)
(*                                                                         *)
(* A process answers one request at a time (its routes run on the event    *)
(* loop, under the module's RLock); between two accesses to the database   *)
(* another process may act.  A decision's proof root is its number; the    *)
(* memory root is the sequence of observations itself, which is what the   *)
(* hash chain that validate_subject checks commits to.                     *)
(***************************************************************************)
EXTENDS Integers, FiniteSets, Sequences, SequencesExt

CONSTANTS
    Procs,         \* server processes
    Observations,  \* what clients report: [key, kind, mode, facts, text]
    Intents,       \* what they ask about: [mode, target, terms, chain, amount]
    Txs,           \* transactions they may name
    Configs,       \* [policy, anchor]: how a process may be started
    HomeChain,     \* the chain the anchor adapter is configured for
    TTL,           \* decision_ttl_seconds
    MaxTime, MaxDecisions, MaxObserved, MaxCrashes,  \* bounds
    NoTx, Nothing, Invalid

VARIABLES
    memory,        \* the subject entity: its observations, oldest first
    journal,       \* the observations the event log holds
    decisions,     \* saved decision drafts, by number
    finals,        \* finals[d]: the finalization entity of decision d
    chain,         \* chain[x]: what became of transaction x
    config,        \* config[p]: what process p was started with
    call,          \* call[p]: the module call p is executing
    clock,
    crashes,
    acknowledged   \* ghost: observations whose receipt a client was given

stored == <<memory, journal, decisions, finals>>
guardVars == <<stored, chain, config, call, clock, crashes, acknowledged>>

Trusted == {"demo_fixture", "identity_verified"}
Allowed == [baseline_approved |-> {"target", "terms", "max", "expires"},
            dispute_opened    |-> {"target", "dispute", "status"},
            target_revoked    |-> {"target", "reason"},
            vendor_note       |-> {}]

(* What classify_observation keeps: known fields with valid values, and    *)
(* only from a trusted source.  "terms" stands for chain_id and method.    *)
AcceptedFacts(o) ==
    IF o.mode \in Trusted
    THEN [f \in {g \in DOMAIN o.facts : g \in Allowed[o.kind] /\ o.facts[g] # Invalid}
            |-> o.facts[f]]
    ELSE << >>

Quarantined(o) ==
    (DOMAIN o.facts \ DOMAIN AcceptedFacts(o))
        \cup IF o.text # Nothing \/ o.kind = "vendor_note" THEN {"raw_text"} ELSE {}

(* A stored observation, and what finalizing a draft answers. *)
Item ==
    [n : Nat, by : Procs, key : {o.key : o \in Observations}, kind : DOMAIN Allowed,
     mode : {o.mode : o \in Observations}, facts : {AcceptedFacts(o) : o \in Observations},
     quarantined : SUBSET ({"raw_text"} \cup UNION {DOMAIN o.facts : o \in Observations}),
     text : {o.text : o \in Observations}]

Result ==
    [state : {"verified", "pending", "failed", "local_finalized", "confirmation_required"},
     tx : Txs \cup {NoTx}]

ASSUME GuardConstants ==
    /\ {TTL, MaxTime, MaxDecisions, MaxObserved, MaxCrashes} \subseteq Nat
    /\ \A o \in Observations : o.kind \in DOMAIN Allowed
    /\ Nothing \notin Procs \cup Result

(* What is kept of a report; its hash covers all of it.  id, a number and  *)
(* a process, stands for the observation_id.                               *)
Kept(id, o) ==
    [n |-> id[1], by |-> id[2], key |-> o.key, kind |-> o.kind, mode |-> o.mode,
     facts |-> AcceptedFacts(o), quarantined |-> Quarantined(o), text |-> o.text]

(* [mutant] the facts are stored as reported *)
Stored_Unfiltered(p, o) == [Kept(<<Cardinality(journal), p>>, o) EXCEPT !.facts = o.facts]

(* The observation as p stores it, under a fresh identifier. *)
Stored(p, o) == Kept(<<Cardinality(journal), p>>, o)

SameRequest(item, o) ==
    /\ <<item.kind, item.mode, item.text>> = <<o.kind, o.mode, o.text>>
    /\ item.facts = AcceptedFacts(o)
    /\ item.quarantined = Quarantined(o)

----------------------------------------------------------------------------
(* policy.decide *)

Fact(item, f, default) == IF f \in DOMAIN item.facts THEN item.facts[f] ELSE default

(* [mutant] one trusted source is as good as another *)
ActiveForMode_AnyTrusted(item, mode) ==
    DOMAIN item.facts # {} /\ item.mode \in Trusted

(* An item has a status that counts iff some fact of it was accepted. *)
ActiveForMode(item, mode) ==
    /\ DOMAIN item.facts # {}
    /\ item.mode \in IF mode = "demo_fixture" THEN Trusted ELSE Trusted \ {"demo_fixture"}

About(item, kind, intent) ==
    /\ ActiveForMode(item, intent.mode)
    /\ item.kind = kind
    /\ Fact(item, "target", Nothing) = intent.target

Denies(item, intent) ==
    \/ About(item, "target_revoked", intent)
    \/ About(item, "dispute_opened", intent)

Permits(item, intent, now) ==
    /\ About(item, "baseline_approved", intent)
    /\ Fact(item, "terms", Nothing) = intent.terms
    /\ Fact(item, "expires", MaxTime + 1) > now
    /\ intent.amount <= Fact(item, "max", 0)

(* [mutant] the newest observation about the target decides *)
Verdict_Newest(intent, items, now) ==
    LET relevant == {i \in items : Denies(i, intent) \/ Permits(i, intent, now)}
        newest   == CHOOSE i \in relevant : \A j \in relevant : j.n <= i.n
    IN  IF relevant = {} THEN "needs_human"
        ELSE IF Denies(newest, intent) THEN "deny" ELSE "ready"

Verdict(intent, items, now) ==
    IF \E i \in items : Denies(i, intent) THEN "deny"
    ELSE IF \E i \in items : Permits(i, intent, now) THEN "ready" ELSE "needs_human"

----------------------------------------------------------------------------
Idle == [at |-> "idle"]
At(p, step) == call[p].at = step
Goto(p, c) == call' = [call EXCEPT ![p] = c]
Return(p, result) == Goto(p, [at |-> "returned", result |-> result])
Refused == [state |-> "refused"]
Receipt(item) == [state |-> "observed", item |-> item]

Init ==
    /\ memory = << >> /\ journal = {} /\ decisions = << >> /\ finals = << >>
    /\ chain = [x \in Txs |-> [status |-> "unmined", root |-> 0]]
    /\ config \in [Procs -> Configs]
    /\ call = [p \in Procs |-> Idle]
    /\ clock = 0 /\ crashes = 0
    /\ acknowledged = {}

(* [mutant] a key that is known is stored again *)
ObserveLoad_EveryTime(p, o) ==
    /\ At(p, "idle")
    /\ Cardinality(journal) < MaxObserved
    /\ Goto(p, [at |-> "commit", item |-> Stored(p, o), seen |-> memory])
    /\ UNCHANGED <<stored, chain, config, clock, crashes, acknowledged>>

(* observe: the subject is loaded; a known key is answered at once or is a *)
(* conflict, which changes nothing.                                        *)
ObserveLoad(p, o) ==
    /\ At(p, "idle")
    /\ Cardinality(journal) < MaxObserved
    /\ LET known == {i \in Range(memory) : i.key = o.key}
       IN  IF known = {}
           THEN Goto(p, [at |-> "commit", item |-> Stored(p, o), seen |-> memory])
           ELSE \E i \in known : /\ SameRequest(i, o)
                                 /\ Return(p, Receipt(i))
    /\ UNCHANGED <<stored, chain, config, clock, crashes, acknowledged>>

(* commit_observation: the version is read again and compared ... *)
CommitCompare(p) ==
    /\ At(p, "commit")
    /\ IF Len(memory) = Len(call[p].seen)
       THEN Goto(p, [call[p] EXCEPT !.at = "event"])
       ELSE Return(p, Refused)
    /\ UNCHANGED <<stored, chain, config, clock, crashes, acknowledged>>

(* [mutant] the receipt is given once the event is written *)
CommitEvent_Enough(p) ==
    /\ At(p, "event")
    /\ journal' = journal \cup {call[p].item}
    /\ Return(p, Receipt(call[p].item))
    /\ UNCHANGED <<memory, decisions, finals, chain, config, clock, crashes, acknowledged>>

(* ... then the event is written ... *)
CommitEvent(p) ==
    /\ At(p, "event")
    /\ journal' = journal \cup {call[p].item}
    /\ Goto(p, [call[p] EXCEPT !.at = "entity"])
    /\ UNCHANGED <<memory, decisions, finals, chain, config, clock, crashes, acknowledged>>

(* ... then the whole subject, as it was loaded and extended. *)
CommitEntity(p) ==
    /\ At(p, "entity")
    /\ memory' = Append(call[p].seen, call[p].item)
    /\ Return(p, Receipt(call[p].item))
    /\ UNCHANGED <<journal, decisions, finals, chain, config, clock, crashes, acknowledged>>

(* decide: recall, policy, draft. *)
DecideLoad(p, intent) ==
    /\ At(p, "idle")
    /\ Goto(p, [at |-> "draft",
                decision |-> [intent  |-> intent,
                              verdict |-> Verdict(intent, Range(memory), clock),
                              root    |-> memory,
                              policy  |-> config[p].policy,
                              expires |-> clock + TTL]])
    /\ UNCHANGED <<stored, chain, config, clock, crashes, acknowledged>>

(* save_decision; the event line after the entity is not modelled. *)
DecideSave(p) ==
    /\ At(p, "draft")
    /\ decisions' = Append(decisions, call[p].decision)
    /\ finals' = Append(finals, Nothing)
    /\ Return(p, [state |-> "decided", decision |-> Len(decisions) + 1])
    /\ UNCHANGED <<memory, journal, chain, config, clock, crashes, acknowledged>>

(* [mutant] a READY draft is not compared with the subject *)
Fresh_NoRecall(d, p) ==
    /\ clock < decisions[d].expires
    /\ decisions[d].policy = config[p].policy

(* finalize, first part: an expired draft, another policy, or a READY      *)
(* draft whose subject has changed is refused.                             *)
Fresh(d, p) ==
    /\ clock < decisions[d].expires
    /\ decisions[d].policy = config[p].policy
    /\ decisions[d].verdict = "ready" => memory = decisions[d].root

FinalizeCheck(p, d, tx) ==
    /\ At(p, "idle")
    /\ d \in DOMAIN decisions
    /\ IF Fresh(d, p) THEN Goto(p, [at |-> "existing", d |-> d, tx |-> tx])
                      ELSE Return(p, Refused)
    /\ UNCHANGED <<stored, chain, config, clock, crashes, acknowledged>>

Terminal == {"verified", "local_finalized", "failed"}

(* [mutant] only VERIFIED is bound *)
OtherTransaction_VerifiedOnly(known, tx) ==
    /\ known.state = "verified"
    /\ tx # NoTx /\ tx # known.tx

(* A saved VERIFIED or PENDING result is bound to its transaction. *)
OtherTransaction(known, tx) ==
    /\ known.state \in {"verified", "pending"}
    /\ tx # NoTx /\ tx # known.tx

(* [mutant] what an earlier call has saved is not looked at *)
FinalizeExisting_Ignored(p) ==
    /\ At(p, "existing")
    /\ Goto(p, [call[p] EXCEPT !.at = "ask"])
    /\ UNCHANGED <<stored, chain, config, clock, crashes, acknowledged>>

(* finalize, second part: what an earlier call has saved. *)
FinalizeExisting(p) ==
    /\ At(p, "existing")
    /\ LET known == finals[call[p].d]
           tx    == call[p].tx
           ask   == Goto(p, [call[p] EXCEPT !.at = "ask"])
       IN  IF known = Nothing THEN ask
           ELSE IF OtherTransaction(known, tx) THEN Return(p, Refused)
           ELSE IF known.state \in Terminal \/ tx = NoTx THEN Return(p, known)
           ELSE ask
    /\ UNCHANGED <<stored, chain, config, clock, crashes, acknowledged>>

(* What verifying tx for d may answer: any failure of the RPC is FAILED,   *)
(* and so is every receipt but the one that anchors d.                     *)
VerifyStates(p, d, tx) ==
    {"failed"} \cup
    IF config[p].anchor /\ decisions[d].intent.chain = HomeChain
    THEN IF chain[tx].status = "unmined" THEN {"pending"}
         ELSE IF chain[tx] = [status |-> "anchored", root |-> d] THEN {"verified"} ELSE {}
    ELSE {}

PlanStates(p, d) ==
    IF config[p].anchor
    THEN IF decisions[d].intent.chain = HomeChain THEN {"confirmation_required"} ELSE {}
    ELSE IF decisions[d].verdict = "ready" THEN {"failed"} ELSE {"local_finalized"}

(* finalize, third part: the chain is asked about a transaction, or a plan *)
(* is made.  A failed verification is answered and not saved; a plan for   *)
(* another chain is refused.                                               *)
FinalizeAsk(p) ==
    /\ At(p, "ask")
    /\ LET d == call[p].d  tx == call[p].tx
           Save(s) == Goto(p, [at |-> "save", d |-> d, result |-> [state |-> s, tx |-> tx]])
       IN  IF tx # NoTx
           THEN \E s \in VerifyStates(p, d, tx) :
                    IF s = "failed" THEN Return(p, [state |-> s, tx |-> tx]) ELSE Save(s)
           ELSE IF PlanStates(p, d) = {} THEN Return(p, Refused)
           ELSE \E s \in PlanStates(p, d) : Save(s)
    /\ UNCHANGED <<stored, chain, config, clock, crashes, acknowledged>>

(* save_finalization; the event line before the entity is not modelled. *)
FinalizeSave(p) ==
    /\ At(p, "save")
    /\ finals' = [finals EXCEPT ![call[p].d] = call[p].result]
    /\ Return(p, call[p].result)
    /\ UNCHANGED <<memory, journal, decisions, chain, config, clock, crashes, acknowledged>>

(* The HTTP answer leaves the process. *)
Answer(p) ==
    /\ At(p, "returned")
    /\ Goto(p, Idle)
    /\ acknowledged' = acknowledged \cup
           IF call[p].result.state = "observed" THEN {call[p].result.item} ELSE {}
    /\ UNCHANGED <<stored, chain, config, clock, crashes>>

(* The process dies between two accesses and is started again, possibly    *)
(* with another policy or without an anchor.                               *)
Restart(p) ==
    /\ crashes < MaxCrashes
    /\ crashes' = crashes + 1
    /\ Goto(p, Idle)
    /\ \E c \in Configs : config' = [config EXCEPT ![p] = c]
    /\ UNCHANGED <<stored, chain, clock, acknowledged>>

Tick ==
    /\ clock < MaxTime
    /\ clock' = clock + 1
    /\ UNCHANGED <<stored, chain, config, call, crashes, acknowledged>>

(* MemoryProofAnchor.anchor: the first transaction with a root anchors it, *)
(* a later one reverts.  A transaction that anchors no root of this ledger *)
(* answers as a failing RPC does, and is not modelled apart.               *)
Mine(x, d) ==
    /\ chain[x].status = "unmined"
    /\ d \in DOMAIN decisions
    /\ chain' = [chain EXCEPT ![x] =
           IF \E y \in Txs : chain[y] = [status |-> "anchored", root |-> d]
           THEN [status |-> "reverted", root |-> 0]
           ELSE [status |-> "anchored", root |-> d]]
    /\ UNCHANGED <<stored, config, call, clock, crashes, acknowledged>>

(* The requests of the HTTP routes, and the steps of a call under way. *)
Room(pending) == Len(decisions) + Cardinality(pending) < MaxDecisions

GuardRequest(p) ==
    \/ \E o \in Observations : ObserveLoad(p, o)
    \/ Room({q \in Procs : At(q, "draft")}) /\ \E i \in Intents : DecideLoad(p, i)
    \/ \E d \in DOMAIN decisions, tx \in Txs \cup {NoTx} : FinalizeCheck(p, d, tx)

GuardStep(p) ==
    \/ CommitCompare(p) \/ CommitEvent(p) \/ CommitEntity(p)
    \/ DecideSave(p)
    \/ FinalizeExisting(p) \/ FinalizeAsk(p) \/ FinalizeSave(p)

Environment ==
    \/ Tick
    \/ \E x \in Txs, d \in DOMAIN decisions : Mine(x, d)

----------------------------------------------------------------------------
(* Every receipt given stands in the subject's memory, and every           *)
(* observation there has its line in the event log: a crash between the    *)
(* two writes of commit_observation loses nothing that was answered.       *)
ReceiptsKept ==
    /\ acknowledged \subseteq Range(memory)
    /\ Range(memory) \subseteq journal

(* A draft made after a dispute or a revocation was receipted denies what  *)
(* it is about, whatever was observed since, by whatever process and after *)
(* however many restarts.                                                  *)
DenialRecalled ==
    [][Len(decisions') > Len(decisions) =>
         LET draft == Last(decisions')
         IN  (\E i \in acknowledged : Denies(i, draft.intent)) => draft.verdict = "deny"]_guardVars

(* Only observations of a trusted source ever deny or permit, and a public *)
(* demonstration never speaks about an intent of another mode.             *)
AuthorityIsTrusted ==
    \A d \in DOMAIN decisions : decisions[d].verdict # "needs_human" =>
        \E i \in Range(decisions[d].root) :
            /\ i.mode \in Trusted
            /\ decisions[d].intent.mode # "demo_fixture" => i.mode = "identity_verified"

(* What is recorded of a READY draft's finalization is recorded while the  *)
(* memory it rests on is unchanged.                                        *)
ReadyRestsOnMemory ==
    [][\A d \in DOMAIN finals :
         finals'[d] # finals[d] /\ decisions[d].verdict = "ready"
             => memory = decisions[d].root]_guardVars

(* A finalization bound to a transaction keeps it, and once VERIFIED stays *)
(* VERIFIED.                                                               *)
OneTransaction ==
    [][\A d \in DOMAIN finals : finals[d] # Nothing /\ finals[d].tx # NoTx =>
         /\ finals'[d].tx = finals[d].tx
         /\ finals[d].state = "verified" => finals'[d].state = "verified"]_guardVars
=============================================================================
