---------------------------- MODULE PartnerReview ----------------------------
(***************************************************************************)
(* Reviews by an external partner (src/src/proofops_casework/              *)
(* partner_review.py): a plan is prepared for a report, an operator        *)
(* creates and funds the external job by hand, and the job's history is    *)
(* read, outside the lock, to bind the job to the plan.                    *)
(***************************************************************************)
EXTENDS Calls, FiniteSets

CONSTANTS
    Reviewed,   \* reports
    ReviewIds,  \* ACP_REVIEW_PLAN artifacts
    Jobs,       \* external jobs
    ReviewTTL

ASSUME ReviewConstants == ReviewTTL \in Nat \ {0}

VARIABLE reviews   \* reviews[p]: [report, expires, job, state]

ReviewInit == reviews = [p \in ReviewIds |-> Nothing]

Prepared == {p \in ReviewIds : reviews[p] # Nothing}

(* A report's first plan is given again until it expires; artifacts keep   *)
(* the order they were filed in, and so do plans their numbers.            *)
Reusable(r) ==
    \E p \in Prepared :
        /\ reviews[p].report = r /\ reviews[p].expires > clock
        /\ \A q \in Prepared : reviews[q].report = r => p <= q

(* For a report that is valid (Casework, EvidenceDesk).                    *)
PrepareReview(r) ==
    LET p == Cardinality(Prepared) + 1 IN
    /\ ~Reusable(r) /\ p \in ReviewIds
    /\ reviews' = [reviews EXCEPT ![p] =
           [report |-> r, expires |-> clock + ReviewTTL, job |-> Nothing,
            state |-> "OPERATOR_ACTION_REQUIRED"]]
    /\ Writes
    /\ UNCHANGED <<clock, call>>

MayClaimJob(p, j) == p \in Prepared /\ reviews[p].job \in {Nothing, j}

VerifyReview(w, p, j) ==
    /\ Doing(w, "idle")
    /\ MayClaimJob(p, j)
    /\ Reads(w)
    /\ Goto(w, [at |-> "history", plan |-> p, job |-> j])
    /\ UNCHANGED <<clock, reviews>>

(* The job's history is asked for: some observation, or a failure.         *)
AskHistory(w) ==
    /\ Doing(w, "history")
    /\ \E found \in BOOLEAN :
         Goto(w, [at |-> "observed", plan |-> call[w].plan, job |-> call[w].job, found |-> found])
    /\ UNCHANGED <<clock, fresh, reviews>>

(* [mutant] a job already bound is only looked for in its own report's plans *)
JobFree_OwnReport(p, j) ==
    \A q \in Prepared \ {p} : reviews[q].report = reviews[p].report => reviews[q].job # j

JobFree(p, j) == \A q \in Prepared \ {p} : reviews[q].job # j

(* A failed query is noted and binds nothing.                              *)
RecordReview(w) ==
    LET c == call[w] IN
    /\ Doing(w, "observed")
    /\ IF w \in fresh /\ MayClaimJob(c.plan, c.job) /\ JobFree(c.plan, c.job)
       THEN /\ reviews' = [reviews EXCEPT ![c.plan].job = IF c.found THEN c.job ELSE @,
                                          ![c.plan].state = IF c.found THEN "HISTORY_OBSERVED"
                                                            ELSE "QUERY_FAILED"]
            /\ Writes
       ELSE UNCHANGED <<reviews, fresh>>
    /\ Goto(w, Idle)
    /\ UNCHANGED clock

ReviewAsk(w) == \E p \in ReviewIds, j \in Jobs : VerifyReview(w, p, j)
ReviewProgress(w) == AskHistory(w) \/ RecordReview(w)

(* One external job counts for one plan, however plans expire and are      *)
(* prepared again, histories fail and callers race (verify's save          *)
(* 115-133).                                                               *)
JobBoundOnce ==
    \A p, q \in Prepared : reviews[p].job # Nothing /\ reviews[p].job = reviews[q].job => p = q
=============================================================================
