----------------------------- MODULE AuditAnchor -----------------------------
(***************************************************************************)
(* Audit anchors (service.py's prepare_anchor and verify_anchor over       *)
(* src/src/proofops_casework/anchoring.py): a plan is recorded, a human's  *)
(* wallet sends it, and the transaction is looked up by a sequence of      *)
(* reads of a chain that grows and reorganizes meanwhile.  The first read, *)
(* of the chain's id, is of something that does not change and left out.   *)
(*                                                                         *)
(* The service never signs: a transaction carries a plan only after the    *)
(* plan exists.  What its receipt, calldata and event are compared with is *)
(* whether it carries this plan, to this contract, from this attester.     *)
(***************************************************************************)
EXTENDS Calls

CONSTANTS
    Anchors,         \* AUDIT_ANCHOR artifacts
    Txs,
    Carries,         \* Carries[tx]: the anchor whose plan it carries, or Nothing
    Confirmations,   \* blocks required
    MaxHeight, MaxReorgs

ASSUME AnchorConstants ==
    Confirmations \in Nat \ {0} /\ MaxHeight \in Nat \ {0} /\ Nothing \notin Txs

VARIABLES
    anchors,   \* anchors[a]: [state, tx], tx the transaction it is bound to
    height,    \* of the chain's head
    block,     \* block[tx]: where the canonical chain has tx: [number, fork], or Nothing
    reorgs

anchorVars == <<anchors, height, block, reorgs>>
chainVars == <<height, block, reorgs>>

AnchorInit ==
    /\ anchors = [a \in Anchors |-> Nothing]
    /\ height = 0 /\ reorgs = 0
    /\ block = [x \in Txs |-> Nothing]

PrepareAnchor(a) ==
    /\ anchors[a] = Nothing
    /\ anchors' = [anchors EXCEPT ![a] = [state |-> "NOT_SUBMITTED", tx |-> Nothing]]
    /\ Writes
    /\ UNCHANGED <<clock, call, chainVars>>

(* A block, with some of the transactions that wait.  Heights count from   *)
(* the first plan: no transaction carries one before.                      *)
Mine(xs) ==
    /\ height < MaxHeight
    /\ \E a \in Anchors : anchors[a] # Nothing
    /\ \A x \in xs : block[x] = Nothing /\ (Carries[x] # Nothing => anchors[Carries[x]] # Nothing)
    /\ height' = height + 1
    /\ block' = [x \in Txs |-> IF x \in xs THEN [number |-> height + 1, fork |-> reorgs] ELSE block[x]]
    /\ UNCHANGED <<clock, call, fresh, anchors, reorgs>>

(* Blocks from n on are replaced by as many others, without their          *)
(* transactions.                                                           *)
Reorganize(n) ==
    /\ reorgs < MaxReorgs /\ n <= height
    /\ reorgs' = reorgs + 1
    /\ block' = [x \in Txs |-> IF block[x] # Nothing /\ block[x].number >= n
                               THEN Nothing ELSE block[x]]
    /\ UNCHANGED <<clock, call, fresh, anchors, height>>

Bindable(a, x) == anchors[a] # Nothing /\ anchors[a].tx \in {Nothing, x}

VerifyAnchor(w, a, x) ==
    /\ Doing(w, "idle")
    /\ Bindable(a, x)
    /\ Reads(w)
    /\ Goto(w, [at |-> "receipt", anchor |-> a, tx |-> x])
    /\ UNCHANGED <<clock, anchorVars>>

Answered(w, state) ==
    Goto(w, [at |-> "answer", anchor |-> call[w].anchor, tx |-> call[w].tx, state |-> state])

(* eth_getTransactionReceipt *)
VerifyReceipt(w) ==
    LET c == call[w] IN
    /\ Doing(w, "receipt")
    /\ IF block[c.tx] = Nothing THEN Answered(w, "PENDING")
       ELSE Goto(w, [at |-> "transaction", anchor |-> c.anchor, tx |-> c.tx, block |-> block[c.tx]])
    /\ UNCHANGED <<clock, fresh, anchorVars>>

(* eth_getTransactionByHash: in the block of the receipt, and all that     *)
(* either shows of sender, contract, calldata and event is of this plan?   *)
VerifyTransaction(w) ==
    LET c == call[w] IN
    /\ Doing(w, "transaction")
    /\ Goto(w, IF block[c.tx] = c.block /\ Carries[c.tx] = c.anchor
               THEN [c EXCEPT !.at = "canonical"] ELSE Idle)
    /\ UNCHANGED <<clock, fresh, anchorVars>>

(* eth_getBlockByNumber: still the block of the receipt? *)
VerifyCanonical(w) ==
    /\ Doing(w, "canonical")
    /\ Goto(w, IF block[call[w].tx] = call[w].block THEN [call[w] EXCEPT !.at = "height"] ELSE Idle)
    /\ UNCHANGED <<clock, fresh, anchorVars>>

(* eth_blockNumber *)
VerifyHeight(w) ==
    /\ Doing(w, "height")
    /\ Answered(w, IF height - call[w].block.number + 1 < Confirmations THEN "PENDING" ELSE "VERIFIED")
    /\ UNCHANGED <<clock, fresh, anchorVars>>

(* [mutant] the last answer is the state *)
NextState_Last(old, state) == state

(* A weaker answer does not displace a verification. *)
NextState(old, state) == IF old = "VERIFIED" THEN old ELSE state

VerifyRecord(w) ==
    LET c == call[w] IN
    /\ Doing(w, "answer")
    /\ IF w \in fresh /\ Bindable(c.anchor, c.tx)
       THEN /\ anchors' = [anchors EXCEPT ![c.anchor] =
                   [state |-> NextState(@.state, c.state), tx |-> c.tx]]
            /\ Writes
       ELSE UNCHANGED <<anchors, fresh>>
    /\ Goto(w, Idle)
    /\ UNCHANGED <<clock, chainVars>>

ChainMoves ==
    \/ \E xs \in SUBSET Txs : Mine(xs)
    \/ \E n \in 1..MaxHeight : Reorganize(n)

AnchorAsk(w) == \E a \in Anchors, x \in Txs : VerifyAnchor(w, a, x)

AnchorProgress(w) ==
    \/ VerifyReceipt(w) \/ VerifyTransaction(w) \/ VerifyCanonical(w)
    \/ VerifyHeight(w) \/ VerifyRecord(w)

(* An anchor's transaction never changes once recorded, though several     *)
(* people report transactions for it at once; it is called verified only   *)
(* with a transaction that carries its plan, after as many blocks since as *)
(* are required; and what was verified stays verified when a later look    *)
(* finds less, after a reorganization or in a slower answer (verify_anchor *)
(* 650-676, BaseAuditAnchor.verify).                                       *)
AnchorStands ==
    [][\A a \in Anchors : anchors[a] # Nothing =>
          /\ anchors[a].tx # Nothing => anchors'[a].tx = anchors[a].tx
          /\ anchors[a].state = "VERIFIED" => anchors'[a].state = "VERIFIED"
          /\ anchors'[a].state = "VERIFIED" =>
                Carries[anchors'[a].tx] = a /\ height >= Confirmations]_anchors
=============================================================================
