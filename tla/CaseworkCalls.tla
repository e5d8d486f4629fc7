---------------------------- MODULE CaseworkCalls ----------------------------
(***************************************************************************)
(* The services that leave the lock, at work on one workspace: evidence    *)
(* collection and investigation, audit anchors, partner reviews and        *)
(* incident deliveries.  They meet in the workspace's revision: what one   *)
(* writes, the others find has moved.  A restart ends all their calls.     *)
(***************************************************************************)
EXTENDS EvidenceDesk, AuditAnchor, PartnerReview, IncidentIngress

CONSTANT MaxCalls   \* bound on the commands sent

VARIABLE calls      \* how many were

callsVars == <<vars, anchorVars, reviews, ingressVars, calls>>

CallsStart ==
    Init /\ AnchorInit /\ ReviewInit /\ IngressInit /\ calls = 0

DeskOnly(A) == A /\ UNCHANGED <<anchorVars, reviews, ingressVars>>
AnchorOnly(A) == A /\ UNCHANGED <<deskVars, reviews, ingressVars>>
ReviewOnly(A) == A /\ UNCHANGED <<deskVars, anchorVars, ingressVars>>
IngressOnly(A) == A /\ UNCHANGED <<deskVars, anchorVars, reviews>>

CallBegins ==
    /\ calls < MaxCalls
    /\ calls' = calls + 1
    /\ \/ \E w \in Callers : \/ DeskOnly(Ask(w))
                            \/ AnchorOnly(AnchorAsk(w))
                            \/ ReviewOnly(ReviewAsk(w))
                            \/ IngressOnly(IngressAsk(w))
       \/ AnchorOnly(\E a \in Anchors : PrepareAnchor(a))
       \/ ReviewOnly(\E r \in Reviewed : PrepareReview(r))

CallGoesOn(w) ==
    /\ UNCHANGED calls
    /\ \/ DeskOnly(Progress(w))
       \/ AnchorOnly(AnchorProgress(w))
       \/ ReviewOnly(ReviewProgress(w))
       \/ IngressOnly(IngressProgress(w))

Meanwhile ==
    /\ UNCHANGED calls
    /\ DeskOnly(Around) \/ AnchorOnly(ChainMoves)

CallsNext == CallBegins \/ (\E w \in Callers : CallGoesOn(w)) \/ Meanwhile

CallsSpec == CallsStart /\ [][CallsNext]_callsVars
=============================================================================
