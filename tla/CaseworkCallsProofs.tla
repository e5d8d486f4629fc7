------------------------- MODULE CaseworkCallsProofs -------------------------
(***************************************************************************)
(* What holds of the calls that leave the lock for every number of         *)
(* callers, commands, plans and deliveries: an external job is bound once. *)
(***************************************************************************)
EXTENDS CaseworkCalls, TLAPS

(* Which of the services' variables a step of the composition can touch.   *)
LEMMA StepOfOneService ==
    ASSUME CallsNext
    PROVE  \/ /\ (\E w \in Callers : Ask(w) \/ Progress(w)) \/ Around
              /\ UNCHANGED <<anchorVars, reviews, ingressVars>>
           \/ /\ \/ \E w \in Callers : AnchorAsk(w) \/ AnchorProgress(w)
                 \/ \E a \in Anchors : PrepareAnchor(a)
                 \/ ChainMoves
              /\ UNCHANGED <<deskVars, reviews, ingressVars>>
           \/ /\ \/ \E w \in Callers : ReviewAsk(w) \/ ReviewProgress(w)
                 \/ \E r \in Reviewed : PrepareReview(r)
              /\ UNCHANGED <<deskVars, anchorVars, ingressVars>>
           \/ /\ \E w \in Callers : IngressAsk(w) \/ IngressProgress(w)
              /\ UNCHANGED <<deskVars, anchorVars, reviews>>
<1>1. CASE CallBegins
  BY <1>1 DEF CallBegins, DeskOnly, AnchorOnly, ReviewOnly, IngressOnly
<1>2. CASE \E w \in Callers : CallGoesOn(w)
  BY <1>2 DEF CallGoesOn, DeskOnly, AnchorOnly, ReviewOnly, IngressOnly
<1>3. CASE Meanwhile
  BY <1>3 DEF Meanwhile, DeskOnly, AnchorOnly
<1>4. QED
  BY <1>1, <1>2, <1>3 DEF CallsNext

-----------------------------------------------------------------------------
(* Partner reviews *)

(* What JobBoundOnce needs to be inductive: every plan on record has a     *)
(* place for its job.                                                      *)
ReviewsOnRecord ==
    /\ reviews = [p \in ReviewIds |-> reviews[p]]
    /\ \A p \in Prepared :
         reviews[p] = [report |-> reviews[p].report, expires |-> reviews[p].expires,
                       job |-> reviews[p].job, state |-> reviews[p].state]

(* An external job is bound to at most one plan (verify's save): whoever   *)
(* records a history looks at every other plan as it then is.              *)
THEOREM JobsBoundOnce == CallsSpec => []JobBoundOnce
<1> DEFINE Inv == ReviewsOnRecord /\ JobBoundOnce
<1>1. CallsStart => Inv
  BY DEF CallsStart, ReviewInit, ReviewsOnRecord, JobBoundOnce, Prepared
<1>2. ASSUME Inv, [CallsNext]_callsVars PROVE Inv'
  <2>1. CASE UNCHANGED reviews
    BY <1>2, <2>1 DEF ReviewsOnRecord, JobBoundOnce, Prepared
  <2>2. ASSUME NEW r \in Reviewed, PrepareReview(r) PROVE Inv'
    <3> DEFINE new == Cardinality(Prepared) + 1
               plan == [report |-> r, expires |-> clock + ReviewTTL, job |-> Nothing,
                        state |-> "OPERATOR_ACTION_REQUIRED"]
    <3>1. reviews' = [reviews EXCEPT ![new] = plan]
      BY <2>2 DEF PrepareReview
    <3> HIDE DEF new
    <3>2. \A p \in ReviewIds : reviews'[p] = IF p = new THEN plan ELSE reviews[p]
      BY <1>2, <3>1 DEF ReviewsOnRecord
    <3>3. reviews' = [p \in ReviewIds |-> reviews'[p]]
      BY <1>2, <3>1 DEF ReviewsOnRecord
    <3>4. \A p \in Prepared' : p = new \/ p \in Prepared
      BY <3>2 DEF Prepared
    <3>5. QED
      BY <1>2, <3>2, <3>3, <3>4 DEF ReviewsOnRecord, JobBoundOnce, Prepared
  <2>3. ASSUME NEW w \in Callers, RecordReview(w), reviews' # reviews PROVE Inv'
    <3> DEFINE c == call[w]
               job == IF c.found THEN c.job ELSE reviews[c.plan].job
               state == IF c.found THEN "HISTORY_OBSERVED" ELSE "QUERY_FAILED"
    <3>1. /\ reviews' = [reviews EXCEPT ![c.plan].job = job, ![c.plan].state = state]
          /\ c.plan \in Prepared
          /\ \A q \in Prepared \ {c.plan} : reviews[q].job # c.job
      BY <2>3 DEF RecordReview, MayClaimJob, JobFree
    <3> DEFINE plan == [report |-> reviews[c.plan].report, expires |-> reviews[c.plan].expires,
                        job |-> job, state |-> state]
    <3>2. reviews' = [reviews EXCEPT ![c.plan] = plan]
      <4>1. reviews[c.plan] = [report |-> reviews[c.plan].report,
                               expires |-> reviews[c.plan].expires,
                               job |-> reviews[c.plan].job, state |-> reviews[c.plan].state]
        BY <1>2, <3>1 DEF ReviewsOnRecord
      <4>2. c.plan \in ReviewIds
        BY <3>1 DEF Prepared
      <4> DEFINE half == [reviews EXCEPT ![c.plan].job = job]
      <4>3. reviews' = [half EXCEPT ![c.plan].state = state]
        BY <3>1
      <4>4. half = [reviews EXCEPT ![c.plan] = [@ EXCEPT !.job = job]]
        OBVIOUS
      <4>5. c.plan \in DOMAIN reviews /\ c.plan \in DOMAIN half
        BY <1>2, <4>2 DEF ReviewsOnRecord
      <4>6. half[c.plan] = [report |-> reviews[c.plan].report,
                            expires |-> reviews[c.plan].expires,
                            job |-> job, state |-> reviews[c.plan].state]
        <5>1. half[c.plan] = [reviews[c.plan] EXCEPT !.job = job]
          BY <4>4, <4>5
        <5> HIDE DEF job, half
        <5>2. QED
          BY <4>1, <5>1
      <4>7. [half[c.plan] EXCEPT !.state = state] = plan
        <5> HIDE DEF job, state, half
        <5>1. QED
          BY <4>6
      <4>8. reviews' = [half EXCEPT ![c.plan] = plan]
        <5> HIDE DEF half, plan
        <5>1. QED
          BY <4>3, <4>5, <4>7
      <4>9. QED
        BY <4>8, <4>5
    <3>3. plan.job = job
      OBVIOUS
    <3> HIDE DEF plan, job, state
    <3>4. reviews' = [p \in ReviewIds |-> IF p = c.plan THEN plan ELSE reviews[p]]
      BY <1>2, <3>2 DEF ReviewsOnRecord
    <3>5. Prepared' \subseteq Prepared
      BY <3>1, <3>4 DEF Prepared
    <3>6. ReviewsOnRecord'
      <4>1. plan = [report |-> plan.report, expires |-> plan.expires,
                    job |-> plan.job, state |-> plan.state]
        BY DEF plan
      <4>2. QED
        BY <1>2, <3>4, <3>5, <4>1 DEF ReviewsOnRecord, Prepared
    <3>7. JobBoundOnce'
      <4>1. ASSUME NEW q \in Prepared, q # c.plan, reviews[q].job # Nothing
            PROVE  reviews[q].job # job
        BY <1>2, <3>1, <4>1 DEF JobBoundOnce, job
      <4>2. \A p \in Prepared : reviews'[p].job = IF p = c.plan THEN job ELSE reviews[p].job
        BY <3>3, <3>4 DEF Prepared
      <4>3. QED
        BY <1>2, <3>5, <4>1, <4>2 DEF JobBoundOnce
    <3>8. QED
      BY <3>6, <3>7
  <2>4. QED
    BY <1>2, <2>1, <2>2, <2>3, StepOfOneService
    DEF callsVars, ReviewAsk, ReviewProgress, VerifyReview, AskHistory
<1>3. QED
  BY <1>1, <1>2, PTL DEF CallsSpec
=============================================================================
