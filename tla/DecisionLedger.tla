--------------------------- MODULE DecisionLedger ---------------------------
(***************************************************************************)
(* What the v1 decision module promises the clients of one subject: each   *)
(* report is remembered once, for good; a decision is what the policy says *)
(* of the whole memory at one instant; and a finalization settles at most  *)
(* once, on the memory its decision was made on and on what the chain      *)
(* holds.  Nothing here knows of requests under way, of events written     *)
(* before entities, of crashes or of restarts.                             *)
(***************************************************************************)
EXTENDS Naturals, Sequences

CONSTANTS
    Observations,      \* what clients report, each with a key
    Ids,               \* identifiers for what is remembered
    Kept(_, _),        \* Kept(id, o): what is remembered of o
    Intents, Policies,
    Verdict(_, _, _),  \* Verdict(intent, items, now): the policy
    TTL,
    Txs, NoTx, Nothing

VARIABLES
    memory,     \* what was observed, oldest first
    receipts,   \* what clients were told is remembered
    decisions,
    finals,     \* finals[d]: what has become of decision d
    chain,      \* chain[x]: what has become of transaction x
    clock

vars == <<memory, receipts, decisions, finals, chain, clock>>

Remembered == {memory[i] : i \in DOMAIN memory}
Anchors(x, d) == chain[x] = [status |-> "anchored", root |-> d]

Init ==
    /\ memory = << >> /\ receipts = {}
    /\ decisions = << >> /\ finals = << >>
    /\ chain = [x \in Txs |-> [status |-> "unmined", root |-> 0]]
    /\ clock = 0

(* A report is remembered, once per key. *)
Observe(o) ==
    /\ \A i \in Remembered : i.key # o.key
    /\ \E id \in Ids : memory' = Append(memory, Kept(id, o))
    /\ UNCHANGED <<receipts, decisions, finals, chain, clock>>

Acknowledge(item) ==
    /\ receipts' = receipts \cup {item}
    /\ UNCHANGED <<memory, decisions, finals, chain, clock>>

(* A decision names the memory it rests on, which is all there is, and the *)
(* time the policy was given, which has come.                              *)
Decide(intent, policy, now) ==
    /\ finals' = Append(finals, Nothing)
    /\ decisions' = Append(decisions,
           [intent  |-> intent,
            verdict |-> Verdict(intent, Remembered, now),
            root    |-> memory,
            policy  |-> policy,
            expires |-> now + TTL])
    /\ UNCHANGED <<memory, receipts, chain, clock>>

(* A READY decision is finalized on its own memory or not at all. *)
Standing(d) == decisions[d].verdict = "ready" => memory = decisions[d].root

Settle(d, state, tx) ==
    /\ Standing(d)
    /\ finals' = [finals EXCEPT ![d] = [state |-> state, tx |-> tx]]
    /\ UNCHANGED <<memory, receipts, decisions, chain, clock>>

(* The first word on a decision without a transaction: READY is never      *)
(* finalized locally, and only READY fails for want of a chain.            *)
Plan(d, state) ==
    /\ finals[d] = Nothing
    /\ state = "local_finalized" => decisions[d].verdict # "ready"
    /\ state = "failed" => decisions[d].verdict = "ready"
    /\ Settle(d, state, NoTx)

(* A transaction is bound to an open decision, or reported again; it is    *)
(* VERIFIED only when the chain holds it with this decision's root.        *)
Open(d, x) ==
    finals[d] # Nothing => \/ finals[d].state = "confirmation_required"
                           \/ finals[d].state = "pending" /\ finals[d].tx = x

Attach(d, x, state) ==
    /\ Open(d, x)
    /\ state = "verified" => Anchors(x, d)
    /\ Settle(d, state, x)

(* The contract takes a root once; a later transaction with it reverts. *)
Mine(x) ==
    /\ chain[x].status = "unmined"
    /\ \/ chain' = [chain EXCEPT ![x] = [status |-> "reverted", root |-> 0]]
       \/ \E d \in DOMAIN decisions :
             /\ \A y \in Txs : ~Anchors(y, d)
             /\ chain' = [chain EXCEPT ![x] = [status |-> "anchored", root |-> d]]
    /\ UNCHANGED <<memory, receipts, decisions, finals, clock>>

Tick == clock' = clock + 1 /\ UNCHANGED <<memory, receipts, decisions, finals, chain>>

(* Each step changes what it is about: to acknowledge or to attach the same *)
(* again is no step of the ledger.                                         *)
Next ==
    \/ memory' # memory /\ \E o \in Observations : Observe(o)
    \/ receipts' # receipts /\ \E item \in Remembered : Acknowledge(item)
    \/ /\ decisions' # decisions
       /\ \E intent \in Intents, policy \in Policies, now \in 0..clock : Decide(intent, policy, now)
    \/ /\ finals' # finals
       /\ \E d \in DOMAIN decisions :
             \/ \E state \in {"local_finalized", "confirmation_required", "failed"} : Plan(d, state)
             \/ \E x \in Txs, state \in {"pending", "verified"} : Attach(d, x, state)
    \/ chain' # chain /\ \E x \in Txs : Mine(x)
    \/ Tick

Spec == Init /\ [][Next]_vars
=============================================================================
