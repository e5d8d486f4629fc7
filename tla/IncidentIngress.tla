--------------------------- MODULE IncidentIngress ---------------------------
(***************************************************************************)
(* Signed incident deliveries (src/src/proofops_casework/                  *)
(* incident_ingress.py): each opens a case, through the same command log   *)
(* as everything else, at whatever revision the workspace has.             *)
(*                                                                         *)
(* A delivery that fails authentication never gets here.  Senders repeat   *)
(* deliveries they have no answer for, and may reuse an identifier.        *)
(***************************************************************************)
EXTENDS Calls

CONSTANTS
    Deliveries,   \* [id, body]: what a source signs
    IngressTries  \* attempts to insert (4 in the code)

ASSUME IngressConstants ==
    IngressTries \in Nat \ {0} /\ \A d \in Deliveries : d.body # Nothing

Ids == {d.id : d \in Deliveries}

VARIABLES
    inserted,   \* inserted[id]: the body on record under this delivery's key
    incidents   \* incidents[id]: how many cases its deliveries have opened

ingressVars == <<inserted, incidents>>

IngressInit ==
    /\ inserted = [i \in Ids |-> Nothing]
    /\ incidents = [i \in Ids |-> 0]

Deliver(w, d) ==
    /\ Doing(w, "idle")
    /\ Goto(w, [at |-> "ingest", delivery |-> d, tries |-> 0])
    /\ UNCHANGED <<clock, fresh, ingressVars>>

IngestRead(w) ==
    /\ Doing(w, "ingest")
    /\ Reads(w)
    /\ Goto(w, [call[w] EXCEPT !.at = "insert"])
    /\ UNCHANGED <<clock, ingressVars>>

(* [mutant] a delivery read at a current revision is inserted *)
Known_WhenBehind(w) == w \notin fresh /\ inserted[call[w].delivery.id] # Nothing

(* The key is looked for before the revision is compared: the old answer,  *)
(* or IDEMPOTENCY_CONFLICT for another body.                               *)
Known(w) == inserted[call[w].delivery.id] # Nothing

IngestKnown(w) ==
    /\ Doing(w, "insert") /\ Known(w)
    /\ Goto(w, Idle)
    /\ UNCHANGED <<clock, fresh, ingressVars>>

Ingest(w) ==
    LET d == call[w].delivery IN
    /\ Doing(w, "insert") /\ ~Known(w)
    /\ w \in fresh
    /\ inserted' = [inserted EXCEPT ![d.id] = d.body]
    /\ incidents' = [incidents EXCEPT ![d.id] = @ + 1]
    /\ Writes
    /\ Goto(w, Idle)
    /\ UNCHANGED clock

(* INCIDENT_CONTENTION after the last attempt *)
IngestConflict(w) ==
    /\ Doing(w, "insert") /\ ~Known(w)
    /\ w \notin fresh
    /\ Goto(w, IF call[w].tries + 1 = IngressTries THEN Idle
               ELSE [call[w] EXCEPT !.at = "ingest", !.tries = @ + 1])
    /\ UNCHANGED <<clock, fresh, ingressVars>>

IngressAsk(w) == \E d \in Deliveries : Deliver(w, d)
IngressProgress(w) == IngestRead(w) \/ IngestKnown(w) \/ Ingest(w) \/ IngestConflict(w)

(* A delivery opens one case, though it is repeated, sent to two threads   *)
(* at once, cut off by a restart, refused for contention or followed by    *)
(* another body under its identifier (handle 57-86).                       *)
DeliveredOnce == \A i \in Ids : incidents[i] <= 1
=============================================================================
