------------------------- MODULE EvidenceDeskProofs -------------------------
(***************************************************************************)
(* What holds of the evidence desk for every number of callers, commands,  *)
(* missions and restarts, with the other services at work around it; of    *)
(* the deliveries and anchors, which rest on the same account of who       *)
(* calls; and that all of it implements the log of the case's evidence.    *)
(***************************************************************************)
EXTENDS CaseworkCallsProofs, FiniteSetTheorems

(* The calls of the other services, and none. *)
Elsewhere == {"idle", "receipt", "transaction", "canonical", "height", "answer", "history", "observed"}

(* What a call holds at each of its steps. *)
CallTyped(c) ==
    \/ "at" \in DOMAIN c /\ c.at \in Elsewhere
    \/ /\ c.at \in {"reserve", "fetch"}
       /\ c = [at |-> c.at, key |-> c.key, version |-> c.version,
               mission |-> c.mission, step |-> c.step]
       /\ c.key \in Keys /\ c.mission \in Missions \cup {Nothing} /\ c.step \in Nat
    \/ /\ c.at \in {"finish", "record"}
       /\ c = [at |-> c.at, key |-> c.key, version |-> c.version,
               mission |-> c.mission, step |-> c.step,
               facts |-> c.facts, fetched |-> c.fetched, tries |-> c.tries]
       /\ c.key \in Keys /\ c.mission \in Missions \cup {Nothing} /\ c.step \in Nat
    \/ /\ c.at \in {"claim", "ask", "commit"}
       /\ c = [at |-> c.at, key |-> c.key, mission |-> c.mission,
               basis |-> c.basis, bundle |-> c.bundle]
       /\ c.key \in Investigations /\ c.mission \in Missions \cup {Nothing}
    \/ c \in [at : {"check", "investigate", "report"}, mission : Missions]
    \/ c \in [at : {"step"}, mission : Missions, step : Nat \ {0}]
    \/ /\ c.at \in {"ingest", "insert"}
       /\ c = [at |-> c.at, delivery |-> c.delivery, tries |-> c.tries]
       /\ c.delivery \in Deliveries

CallsTyped ==
    /\ call = [w \in Callers |-> call[w]]
    /\ \A w \in Callers : CallTyped(call[w])
    /\ requests = [k \in Keys |-> requests[k]]
    /\ attempts = [i \in Investigations |-> attempts[i]]

(* A step in which no call begins to read a source or to ask the planner,  *)
(* and no reservation or claim is withdrawn.                               *)
Quiet(c, d) ==
    /\ d.at \in {"fetch", "finish", "record"} =>
           c.at \in {"fetch", "finish", "record"} /\ d.key = c.key
    /\ d.at = "fetch" => c.at = "fetch"
    /\ d.at = "ask" => c.at = "ask" /\ d.key = c.key

Kept ==
    /\ requests' = [k \in Keys |-> requests'[k]]
    /\ attempts' = [i \in Investigations |-> attempts'[i]]
    /\ \A k \in Keys : requests'[k] = NoRequest => requests[k] = NoRequest
    /\ \A i \in Investigations : attempts'[i] = "NONE" => attempts[i] = "NONE"

Calm ==
    /\ \A w \in Callers : Quiet(call[w], call'[w])
    /\ Kept

(* Most steps touch no reservation and no claim, ...                       *)
LEMMA NothingWithdrawn ==
    ASSUME CallsTyped, UNCHANGED <<requests, attempts>>
    PROVE  Kept /\ Requested' = Requested
  BY DEF CallsTyped, Kept, Requested

(* ... and move one call. *)
LEMMA GoesOn ==
    ASSUME CallsTyped, NEW w \in Callers, NEW c, Goto(w, c), CallTyped(c), Kept
    PROVE  /\ CallsTyped'
           /\ Quiet(call[w], c) => Calm
  BY DEF CallsTyped, Calm, Kept, Goto, Quiet

(* A read that ends goes back to its mission or to nobody.                 *)
LEMMA Returns ==
    ASSUME CallsTyped, NEW w \in Callers, NEW ok \in BOOLEAN, Return(w, ok), Kept,
           call[w].at \in {"reserve", "record"}
    PROVE  CallsTyped' /\ Calm
<1> DEFINE c == IF ok /\ call[w].mission # Nothing
                THEN [at |-> "step", mission |-> call[w].mission, step |-> call[w].step + 1]
                ELSE Idle
<1>1. Goto(w, c)
  BY DEF Return
<1>2. CallTyped(call[w])
  BY DEF CallsTyped
<1>3. call[w].mission \in Missions \cup {Nothing} /\ call[w].step \in Nat
  BY <1>2 DEF CallTyped, Elsewhere
<1>4. CallTyped(c) /\ c.at \in {"step", "idle"}
  BY <1>3 DEF CallTyped, Elsewhere, Idle
<1>5. Quiet(call[w], c)
  BY <1>4 DEF Quiet
<1>6. QED
  BY <1>1, <1>4, <1>5, GoesOn

-----------------------------------------------------------------------------
(* Every step keeps calls well-formed, and but for these it begins no read *)
(* and no question and leaves the heads alone.                             *)
Telling(w) ==
    Reserve(w) \/ Fetch(w) \/ FinishRecord(w) \/ InvestigateClaim(w) \/ AskPlanner(w)

Untold == Calm /\ UNCHANGED <<asked, heads, newest>> /\ Requested' = Requested

LEMMA ReadSteps ==
    ASSUME CallsTyped, NEW w \in Callers,
           \/ \E k \in Keys : Collect(w, k)
           \/ ReserveReplay(w) \/ ReserveHit(w) \/ ReserveRefused(w)
           \/ FinishRead(w) \/ FinishConflict(w)
    PROVE  CallsTyped' /\ Untold
<1> DEFINE c == call[w]
<1>0. CallTyped(c)
  BY DEF CallsTyped
<1>1. ASSUME NEW k \in Keys, Collect(w, k) PROVE CallsTyped' /\ Untold
  <2> DEFINE d == Reading(k, Nothing, 0)
  <2>1. CallTyped(d) /\ Quiet(c, d)
    BY DEF CallTyped, Quiet, Reading, Elsewhere
  <2>2. Kept /\ Requested' = Requested
    BY <1>1, NothingWithdrawn DEF Collect, readVars, reportVars
  <2>3. QED
    BY <1>1, <2>1, <2>2, GoesOn DEF Collect, readVars, Untold
<1>2. CASE ReserveReplay(w)
  <2> DEFINE ok == requests[c.key].state \in {"OBSERVED", "CACHE_HIT"}
  <2>1. Return(w, ok) /\ c.at = "reserve" /\ ok \in BOOLEAN
    BY <1>2 DEF ReserveReplay, Doing
  <2>2. Kept /\ Requested' = Requested
    BY <1>2, NothingWithdrawn DEF ReserveReplay, readVars, reportVars
  <2> HIDE DEF ok
  <2>3. QED
    BY <1>2, <2>1, <2>2, Returns DEF ReserveReplay, readVars, Untold
<1>3. CASE ReserveHit(w)
  <2>1. Kept /\ Requested' = Requested
    BY <1>3 DEF ReserveHit, Kept, CallsTyped, reportVars, NoRequest, Requested
  <2>2. QED
    BY <1>3, <2>1, Returns DEF ReserveHit, Doing, Untold
<1>4. CASE ReserveRefused(w)
  <2>1. CallTyped(Idle) /\ Quiet(c, Idle)
    BY DEF CallTyped, Quiet, Idle, Elsewhere
  <2>2. Kept /\ Requested' = Requested
    BY <1>4, NothingWithdrawn DEF ReserveRefused, readVars, reportVars
  <2>3. QED
    BY <1>4, <2>1, <2>2, GoesOn DEF ReserveRefused, readVars, Untold
<1>5. CASE FinishRead(w)
  <2> DEFINE d == [c EXCEPT !.at = "record"]
  <2>1. CallTyped(d) /\ Quiet(c, d)
    BY <1>0, <1>5 DEF FinishRead, Doing, CallTyped, Quiet, Elsewhere
  <2>2. Kept /\ Requested' = Requested
    BY <1>5, NothingWithdrawn DEF FinishRead, readVars, reportVars
  <2>3. QED
    BY <1>5, <2>1, <2>2, GoesOn DEF FinishRead, readVars, Untold
<1>6. CASE FinishConflict(w)
  <2> DEFINE d == IF c.tries + 1 = FinishTries THEN Idle
                  ELSE [c EXCEPT !.at = "finish", !.tries = @ + 1]
  <2>1. CallTyped(d) /\ Quiet(c, d)
    BY <1>0, <1>6 DEF FinishConflict, Doing, CallTyped, Quiet, Elsewhere, Idle
  <2>2. Kept /\ Requested' = Requested
    BY <1>6, NothingWithdrawn DEF FinishConflict, readVars, reportVars
  <2>3. QED
    BY <1>6, <2>1, <2>2, GoesOn DEF FinishConflict, readVars, Untold
<1>7. QED
  BY <1>1, <1>2, <1>3, <1>4, <1>5, <1>6

(* investigate reads what is there: the same for its caller and a mission. *)
LEMMA ReadsForInvestigation ==
    ASSUME CallsTyped, NEW w \in Callers, NEW i \in Investigations,
           NEW mission \in Missions \cup {Nothing}, InvestigateRead(w, i, mission),
           call[w].at \in {"idle", "investigate"}
    PROVE  CallsTyped' /\ Untold
<1> DEFINE claim == [at |-> "claim", key |-> i, mission |-> mission, basis |-> Basis,
                     bundle |-> IF External THEN Context ELSE NoBundle]
           report == IF mission = Nothing THEN Idle ELSE [at |-> "report", mission |-> mission]
<1>1. Goto(w, claim) \/ Goto(w, report) \/ Goto(w, Idle)
  BY DEF InvestigateRead
<1>2. CallTyped(claim) /\ CallTyped(report) /\ CallTyped(Idle)
  <2> DEFINE basis == Basis
             bundle == IF External THEN Context ELSE NoBundle
  <2> HIDE DEF basis, bundle
  <2>1. CallTyped([at |-> "claim", key |-> i, mission |-> mission, basis |-> basis,
                   bundle |-> bundle])
    BY DEF CallTyped
  <2>2. QED
    BY <2>1 DEF CallTyped, Elsewhere, Idle, basis, bundle
<1>3. /\ claim.at \notin {"fetch", "finish", "record", "ask"}
      /\ report.at \notin {"fetch", "finish", "record", "ask"}
      /\ Idle.at \notin {"fetch", "finish", "record", "ask"}
  BY DEF Idle
<1>4. Quiet(call[w], claim) /\ Quiet(call[w], report) /\ Quiet(call[w], Idle)
  BY <1>3 DEF Quiet
<1>5. Kept /\ Requested' = Requested /\ UNCHANGED <<asked, heads, newest>>
  BY NothingWithdrawn DEF InvestigateRead, readVars, reportVars
<1> HIDE DEF claim, report
<1>6. QED
  BY <1>1, <1>2, <1>4, <1>5, GoesOn DEF Untold

LEMMA PlannerSteps ==
    ASSUME CallsTyped, NEW w \in Callers,
           \/ \E i \in Investigations : Investigate(w, i)
           \/ InvestigateRefused(w) \/ InvestigateCommit(w) \/ InvestigateStale(w)
    PROVE  CallsTyped' /\ Untold
<1> DEFINE c == call[w]
<1>0. CallTyped(c)
  BY DEF CallsTyped
<1>1. ASSUME NEW i \in Investigations, Investigate(w, i) PROVE CallsTyped' /\ Untold
  BY <1>1, ReadsForInvestigation DEF Investigate, Doing
<1>2. CASE InvestigateRefused(w)
  <2> DEFINE d == IF c.key \in Filed /\ c.mission # Nothing
                  THEN [at |-> "report", mission |-> c.mission] ELSE Idle
  <2>1. CallTyped(d) /\ Quiet(c, d)
    BY <1>0, <1>2 DEF InvestigateRefused, Doing, CallTyped, Quiet, Elsewhere, Idle
  <2>2. Kept /\ Requested' = Requested
    BY <1>2, NothingWithdrawn DEF InvestigateRefused, readVars, reportVars
  <2>3. QED
    BY <1>2, <2>1, <2>2, GoesOn DEF InvestigateRefused, readVars, Untold
<1>3. CASE InvestigateCommit(w)
  <2> DEFINE d == IF c.mission = Nothing THEN Idle ELSE [at |-> "report", mission |-> c.mission]
  <2>1. CallTyped(d) /\ Quiet(c, d)
    BY <1>0, <1>3 DEF InvestigateCommit, Doing, CallTyped, Quiet, Elsewhere, Idle
  <2>2. Kept /\ Requested' = Requested
    BY <1>3 DEF InvestigateCommit, CallsTyped, Kept, Requested, readVars
  <2>3. QED
    BY <1>3, <2>1, <2>2, GoesOn DEF InvestigateCommit, readVars, Untold
<1>4. CASE InvestigateStale(w)
  <2>1. CallTyped(Idle) /\ Quiet(c, Idle)
    BY <1>0, <1>4 DEF InvestigateStale, Doing, CallTyped, Quiet, Elsewhere, Idle
  <2>2. Kept /\ Requested' = Requested
    BY <1>4, NothingWithdrawn DEF InvestigateStale, readVars, reportVars
  <2>3. QED
    BY <1>4, <2>1, <2>2, GoesOn DEF InvestigateStale, readVars, Untold
<1>5. QED
  BY <1>1, <1>2, <1>3, <1>4

LEMMA MissionSteps ==
    ASSUME CallsTyped, NEW w \in Callers,
           \/ \E m \in Missions : MissionPlan(w, m) \/ MissionAgain(w, m)
           \/ MissionCheck(w) \/ MissionStep(w) \/ MissionSources(w)
           \/ MissionInvestigate(w) \/ MissionHandoff(w)
    PROVE  CallsTyped' /\ Untold
<1> DEFINE c == call[w]
<1>0. CallTyped(c)
  BY DEF CallsTyped
<1>1. ASSUME NEW m \in Missions, MissionPlan(w, m) \/ MissionAgain(w, m)
      PROVE  CallsTyped' /\ Untold
  <2> DEFINE d == [at |-> "check", mission |-> m]
  <2>1. CallTyped(d) /\ Quiet(c, d)
    BY DEF CallTyped, Quiet, Elsewhere
  <2>2. Kept /\ Requested' = Requested /\ Goto(w, d) /\ UNCHANGED <<asked, heads, newest>>
    BY <1>1, NothingWithdrawn DEF MissionPlan, MissionAgain, readVars, reportVars
  <2>3. QED
    BY <2>1, <2>2, GoesOn DEF Untold
<1>2. CASE MissionCheck(w)
  <2> DEFINE d == [at |-> "step", mission |-> c.mission, step |-> 1]
  <2>1. CallTyped(d) /\ Quiet(c, d) /\ CallTyped(Idle) /\ Quiet(c, Idle)
    BY <1>0, <1>2 DEF MissionCheck, Doing, CallTyped, Quiet, Elsewhere, Idle
  <2>2. Kept /\ Requested' = Requested
    BY <1>2, NothingWithdrawn DEF MissionCheck, readVars, reportVars
  <2>3. Goto(w, d) \/ Goto(w, Idle)
    BY <1>2 DEF MissionCheck
  <2>4. QED
    BY <1>2, <2>1, <2>2, <2>3, GoesOn DEF MissionCheck, readVars, Untold
<1>3. CASE MissionStep(w)
  <2> DEFINE k == Steps[c.mission][c.step]
             d == Reading(k, c.mission, c.step)
  <2>1. c.mission \in Missions /\ c.step \in Nat \ {0}
    BY <1>0, <1>3 DEF MissionStep, Doing, CallTyped, Elsewhere
  <2>2. k \in Keys
    BY <1>3, <2>1, DeskConstants DEF MissionStep
  <2> HIDE DEF k
  <2>3. CallTyped(d) /\ Quiet(c, d)
    BY <2>1, <2>2 DEF CallTyped, Quiet, Reading, Elsewhere
  <2>4. Kept /\ Requested' = Requested
    BY <1>3, NothingWithdrawn DEF MissionStep, readVars, reportVars
  <2>5. QED
    BY <1>3, <2>3, <2>4, GoesOn DEF MissionStep, readVars, Untold, k
<1>4. CASE MissionSources(w)
  <2> DEFINE d == IF DOMAIN plans[c.mission].specs \subseteq Got
                  THEN [at |-> "investigate", mission |-> c.mission] ELSE Idle
  <2>1. CallTyped(d) /\ Quiet(c, d)
    BY <1>0, <1>4 DEF MissionSources, Doing, CallTyped, Quiet, Elsewhere, Idle
  <2>2. Kept /\ Requested' = Requested
    BY <1>4, NothingWithdrawn DEF MissionSources, readVars, reportVars
  <2>3. QED
    BY <1>4, <2>1, <2>2, GoesOn DEF MissionSources, readVars, Untold
<1>5. CASE MissionInvestigate(w)
  <2>1. c.mission \in Missions /\ c.mission \in Investigations /\ c.at = "investigate"
    BY <1>0, <1>5, DeskConstants DEF MissionInvestigate, Doing, CallTyped, Elsewhere
  <2>2. CASE InvestigateRead(w, c.mission, c.mission)
    BY <2>1, <2>2, ReadsForInvestigation
  <2>3. CASE Goto(w, Idle) /\ UNCHANGED <<serverVars, caseVars, readVars, reportVars, fresh, asked>>
    <3>1. CallTyped(Idle) /\ Quiet(c, Idle)
      BY DEF CallTyped, Quiet, Elsewhere, Idle
    <3>2. QED
      BY <2>3, <3>1, GoesOn, NothingWithdrawn DEF readVars, reportVars, Untold
  <2>4. QED
    BY <1>5, <2>2, <2>3 DEF MissionInvestigate
<1>6. CASE MissionHandoff(w)
  <2>1. CallTyped(Idle) /\ Quiet(c, Idle)
    BY DEF CallTyped, Quiet, Elsewhere, Idle
  <2>2. UNCHANGED <<requests, attempts, asked, heads, newest>>
    BY <1>6 DEF MissionHandoff, HandedOff, readVars, reportVars
  <2>3. QED
    BY <1>6, <2>1, <2>2, GoesOn, NothingWithdrawn DEF MissionHandoff, Untold
<1>7. QED
  BY <1>1, <1>2, <1>3, <1>4, <1>5, <1>6

LEMMA StepsAround ==
    ASSUME CallsTyped, Around
    PROVE  CallsTyped' /\ Untold
<1>1. UNCHANGED <<requests, attempts, asked, heads, newest>>
  BY DEF Around, Handoff, HandedOff, Resolve, Reopen, OtherCommand, Tick, Restart,
         readVars, reportVars
<1>2. call' = call \/ call' = [w \in Callers |-> Idle]
  BY DEF Around, Handoff, Resolve, Reopen, OtherCommand, Tick, Restart
<1>3. CallTyped(Idle) /\ \A w \in Callers : Quiet(call[w], Idle) /\ Quiet(call[w], call[w])
  BY DEF CallTyped, Quiet, Elsewhere, Idle
<1>4. QED
  BY <1>1, <1>2, <1>3, NothingWithdrawn DEF CallsTyped, Calm, Untold

(* The steps that do begin a read or a question, or change a head.         *)
LEMMA TellingSteps ==
    ASSUME CallsTyped, NEW w \in Callers, Telling(w)
    PROVE  CallsTyped'
<1> DEFINE c == call[w]
<1>0. CallTyped(c)
  BY DEF CallsTyped
<1>1. CASE Reserve(w)
  <2> DEFINE d == [c EXCEPT !.at = "fetch"]
  <2>1. CallTyped(d)
    BY <1>0, <1>1 DEF Reserve, Doing, CallTyped, Elsewhere
  <2>2. Goto(w, d) /\ requests' = [k \in Keys |-> requests'[k]] /\ UNCHANGED attempts
    BY <1>1 DEF Reserve, CallsTyped, reportVars
  <2>3. QED
    BY <2>1, <2>2 DEF CallsTyped, Goto
<1>2. CASE Fetch(w)
  <2> DEFINE d(answer) == [at |-> "finish", key |-> c.key, version |-> c.version,
                  mission |-> c.mission, step |-> c.step,
                  facts |-> answer, fetched |-> clock, tries |-> 0]
  <2>1. PICK answer : Goto(w, d(answer))
    BY <1>2 DEF Fetch
  <2>2. CallTyped(d(answer))
    BY <1>0, <1>2 DEF Fetch, Doing, CallTyped, Elsewhere
  <2>3. UNCHANGED <<requests, attempts>>
    BY <1>2 DEF Fetch, readVars, reportVars
  <2> HIDE DEF d
  <2>4. QED
    BY <2>1, <2>2, <2>3, GoesOn, NothingWithdrawn
<1>3. CASE FinishRecord(w)
  <2>1. Return(w, requests'[c.key].state = "OBSERVED") /\ c.at = "record"
    BY <1>3 DEF FinishRecord, Doing
  <2>2. Kept
    BY <1>3 DEF FinishRecord, Recorded, Kept, CallsTyped, reportVars, NoRequest
  <2>3. QED
    BY <2>1, <2>2, Returns
<1>4. CASE InvestigateClaim(w)
  <2> DEFINE d == [c EXCEPT !.at = "ask"]
  <2>1. CallTyped(d)
    BY <1>0, <1>4 DEF InvestigateClaim, Doing, CallTyped, Elsewhere
  <2>2. Goto(w, d) /\ attempts' = [i \in Investigations |-> attempts'[i]] /\ UNCHANGED requests
    BY <1>4 DEF InvestigateClaim, CallsTyped, readVars
  <2>3. QED
    BY <2>1, <2>2 DEF CallsTyped, Goto
<1>5. CASE AskPlanner(w)
  <2> DEFINE d == [c EXCEPT !.at = "commit"]
  <2>1. CallTyped(d)
    BY <1>0, <1>5 DEF AskPlanner, Doing, CallTyped, Elsewhere
  <2>2. Goto(w, d) /\ UNCHANGED <<requests, attempts>>
    BY <1>5 DEF AskPlanner, readVars, reportVars
  <2>3. QED
    BY <2>1, <2>2, GoesOn, NothingWithdrawn
<1>6. QED
  BY <1>1, <1>2, <1>3, <1>4, <1>5 DEF Telling

LEMMA DeskSteps ==
    ASSUME CallsTyped, (\E w \in Callers : Ask(w) \/ Progress(w)) \/ Around
    PROVE  CallsTyped' /\ (Untold \/ \E w \in Callers : Telling(w))
<1>1. CASE Around
  BY <1>1, StepsAround
<1>2. ASSUME NEW w \in Callers, Ask(w) PROVE CallsTyped' /\ Untold
  BY <1>2, ReadSteps, PlannerSteps, MissionSteps DEF Ask
<1>3. ASSUME NEW w \in Callers, Progress(w) PROVE CallsTyped' /\ (Untold \/ Telling(w))
  <2>1. CASE Telling(w)
    BY <2>1, TellingSteps
  <2>2. CASE ReserveReplay(w) \/ ReserveHit(w) \/ ReserveRefused(w)
               \/ FinishRead(w) \/ FinishConflict(w)
    BY <2>2, ReadSteps
  <2>3. CASE InvestigateRefused(w) \/ InvestigateCommit(w) \/ InvestigateStale(w)
    BY <2>3, PlannerSteps
  <2>4. CASE MissionCheck(w) \/ MissionStep(w) \/ MissionSources(w)
               \/ MissionInvestigate(w) \/ MissionHandoff(w)
    BY <2>4, MissionSteps
  <2>5. QED
    BY <1>3, <2>1, <2>2, <2>3, <2>4 DEF Progress, Telling
<1>4. QED
  BY <1>1, <1>2, <1>3

(* The other services do not touch the desk.                               *)
LEMMA OtherSteps ==
    ASSUME CallsTyped, UNCHANGED deskVars,
           \/ \E w \in Callers : AnchorAsk(w) \/ AnchorProgress(w)
           \/ (\E a \in Anchors : PrepareAnchor(a)) \/ ChainMoves
           \/ \E w \in Callers : ReviewAsk(w) \/ ReviewProgress(w)
           \/ \E r \in Reviewed : PrepareReview(r)
           \/ \E w \in Callers : IngressAsk(w) \/ IngressProgress(w)
    PROVE  CallsTyped' /\ Untold
<1>0. UNCHANGED <<requests, attempts, asked, heads, newest>> /\ Kept
      /\ Requested' = Requested
  BY NothingWithdrawn DEF deskVars, readVars, reportVars
<1>1. CASE UNCHANGED call
  BY <1>0, <1>1 DEF CallsTyped, Calm, Quiet, Untold
<1>2. ASSUME NEW w \in Callers, NEW c, Goto(w, c), CallTyped(c),
             c.at \notin {"fetch", "finish", "record", "ask"}
      PROVE  CallsTyped' /\ Untold
  BY <1>0, <1>2, GoesOn DEF Quiet, Untold
<1>3. CallTyped(Idle) /\ Idle.at \notin {"fetch", "finish", "record", "ask"}
  BY DEF CallTyped, Elsewhere, Idle
<1>4. (\E a \in Anchors : PrepareAnchor(a)) \/ ChainMoves \/ (\E r \in Reviewed : PrepareReview(r))
        => UNCHANGED call
  BY DEF PrepareAnchor, ChainMoves, Mine, Reorganize, PrepareReview
<1>5. ASSUME NEW w \in Callers, NEW a \in Anchors, NEW x \in Txs, VerifyAnchor(w, a, x)
      PROVE  CallsTyped' /\ Untold
  BY <1>2, <1>5 DEF VerifyAnchor, CallTyped, Elsewhere
<1>6. ASSUME NEW w \in Callers, AnchorProgress(w) PROVE CallsTyped' /\ Untold
  <2> DEFINE c == call[w]
             mined == [at |-> "transaction", anchor |-> c.anchor, tx |-> c.tx, block |-> block[c.tx]]
             canonical == [c EXCEPT !.at = "canonical"]
             highest == [c EXCEPT !.at = "height"]
             answer(s) == [at |-> "answer", anchor |-> c.anchor, tx |-> c.tx, state |-> s]
  <2>1. CallTyped(mined) /\ mined.at = "transaction"
    BY DEF CallTyped, Elsewhere
  <2>2. \A s : CallTyped(answer(s)) /\ answer(s).at = "answer"
    BY DEF CallTyped, Elsewhere
  <2>3. /\ VerifyTransaction(w) => CallTyped(canonical) /\ canonical.at = "canonical"
        /\ VerifyCanonical(w) => CallTyped(highest) /\ highest.at = "height"
    BY DEF VerifyTransaction, VerifyCanonical, Doing, CallsTyped, CallTyped, Elsewhere
  <2>4. \/ Goto(w, Idle) \/ Goto(w, mined) \/ \E s : Goto(w, answer(s))
        \/ VerifyTransaction(w) /\ Goto(w, canonical)
        \/ VerifyCanonical(w) /\ Goto(w, highest)
    BY <1>6 DEF AnchorProgress, VerifyReceipt, VerifyTransaction, VerifyCanonical, VerifyHeight,
        VerifyRecord, Answered
  <2> HIDE DEF mined, canonical, highest, answer
  <2>5. QED
    BY <1>2, <1>3, <2>1, <2>2, <2>3, <2>4
<1>7. ASSUME NEW w \in Callers, NEW p \in ReviewIds, NEW j \in Jobs, VerifyReview(w, p, j)
      PROVE  CallsTyped' /\ Untold
  BY <1>2, <1>7 DEF VerifyReview, CallTyped, Elsewhere
<1>8. ASSUME NEW w \in Callers, ReviewProgress(w) PROVE CallsTyped' /\ Untold
  BY <1>2, <1>3, <1>8 DEF ReviewProgress, AskHistory, RecordReview, CallTyped, Elsewhere
<1>9. ASSUME NEW w \in Callers, NEW d \in Deliveries, Deliver(w, d)
      PROVE  CallsTyped' /\ Untold
  BY <1>2, <1>9 DEF Deliver, CallTyped, Elsewhere
<1>10. ASSUME NEW w \in Callers, IngressProgress(w) PROVE CallsTyped' /\ Untold
  <2> DEFINE c == call[w]
             insert == [c EXCEPT !.at = "insert"]
             again == [c EXCEPT !.at = "ingest", !.tries = @ + 1]
  <2>0. CallTyped(c)
    BY DEF CallsTyped
  <2>1. IngestRead(w) => CallTyped(insert) /\ insert.at = "insert"
    BY <2>0 DEF IngestRead, Doing, CallTyped, Elsewhere
  <2>2. IngestConflict(w) => CallTyped(again) /\ again.at = "ingest"
    <3>1. ASSUME IngestConflict(w)
          PROVE  c = [at |-> c.at, delivery |-> c.delivery, tries |-> c.tries]
                 /\ c.delivery \in Deliveries
      BY <2>0, <3>1 DEF IngestConflict, Doing, CallTyped, Elsewhere
    <3> HIDE DEF c
    <3>2. ASSUME IngestConflict(w)
          PROVE  /\ again = [at |-> again.at, delivery |-> again.delivery, tries |-> again.tries]
                 /\ again.at = "ingest" /\ again.delivery \in Deliveries
      <4> DEFINE n == c.tries + 1
      <4>1. again = [c EXCEPT !.at = "ingest", !.tries = n]
        BY <3>1, <3>2
      <4> HIDE DEF n, again
      <4>2. again = [at |-> "ingest", delivery |-> c.delivery, tries |-> n]
        BY <3>1, <3>2, <4>1
      <4>3. QED
        BY <3>1, <3>2, <4>2
    <3> HIDE DEF again
    <3>3. QED
      BY <3>2 DEF CallTyped
  <2>3. \/ Goto(w, Idle)
        \/ IngestRead(w) /\ Goto(w, insert)
        \/ IngestConflict(w) /\ Goto(w, again)
    BY <1>10 DEF IngressProgress, IngestRead, IngestKnown, Ingest, IngestConflict
  <2> HIDE DEF insert, again
  <2>4. QED
    BY <1>2, <1>3, <2>1, <2>2, <2>3
<1>11. QED
  BY <1>1, <1>4, <1>5, <1>6, <1>7, <1>8, <1>9, <1>10 DEF AnchorAsk, ReviewAsk, IngressAsk

LEMMA AllSteps ==
    ASSUME CallsTyped, [CallsNext]_callsVars
    PROVE  CallsTyped' /\ (Untold \/ \E w \in Callers : Telling(w))
<1>1. CASE UNCHANGED callsVars
  BY <1>1 DEF callsVars, vars, deskVars, readVars, reportVars,
              CallsTyped, Untold, Calm, Kept, Quiet, Requested
<1>2. CASE CallsNext
  BY <1>2, StepOfOneService, DeskSteps, OtherSteps
<1>3. QED
  BY <1>1, <1>2

LEMMA Begins == CallsStart => CallsTyped
  BY DEF CallsStart, Init, CallsInit, CallsTyped, CallTyped, Elsewhere, Idle

-----------------------------------------------------------------------------
(* What AskedOnce needs to be inductive: who has yet to ask is one call,   *)
(* whose reservation or claim is on record, and what is not on record has  *)
(* not been asked.                                                         *)
AskedTyped ==
    /\ asked = [k \in Keys \cup Investigations |-> asked[k]]
    /\ \A k \in Keys \cup Investigations : asked[k] \in {0, 1}

AskedOnRecord ==
    /\ \A k \in Keys : requests[k] = NoRequest => asked[k] = 0
    /\ \A i \in Investigations : attempts[i] = "NONE" => asked[i] = 0

OneReads ==
    \A w \in Callers : call[w].at = "fetch" =>
      /\ requests[call[w].key] # NoRequest
      /\ asked[call[w].key] = 0
      /\ \A v \in Callers : call[v].at = "fetch" /\ call[v].key = call[w].key => v = w

OneAsks ==
    \A w \in Callers : call[w].at = "ask" =>
      /\ attempts[call[w].key] # "NONE"
      /\ asked[call[w].key] = 0
      /\ \A v \in Callers : call[v].at = "ask" /\ call[v].key = call[w].key => v = w

AskedForGood == AskedTyped /\ AskedOnRecord /\ OneReads /\ OneAsks

LEMMA KeysApart ==
    ASSUME CallsTyped, NEW w \in Callers
    PROVE  /\ call[w].at \in {"reserve", "fetch", "finish", "record"} => call[w].key \in Keys
           /\ call[w].at \in {"claim", "ask"} => call[w].key \in Investigations
           /\ Keys \cap Investigations = {}
  BY DeskConstants DEF CallsTyped, CallTyped, Elsewhere

LEMMA AskedStep ==
    ASSUME CallsTyped, AskedForGood, [CallsNext]_callsVars
    PROVE  AskedForGood'
<1>0. /\ \A v \in Callers : call[v].at = "fetch" => call[v].key \in Keys
      /\ \A v \in Callers : call[v].at = "ask" => call[v].key \in Investigations
      /\ \A k \in Keys : k \notin Investigations
  <2>1. \A k \in Keys : k \notin Investigations
    BY DeskConstants
  <2>2. QED
    BY <2>1, KeysApart
<1>1. CASE Untold
  <2>1. AskedTyped' /\ AskedOnRecord'
    BY <1>1 DEF Untold, Calm, Kept, AskedForGood, AskedTyped, AskedOnRecord
  <2>2. OneReads'
    BY <1>1, KeysApart DEF Untold, Calm, Kept, Quiet, AskedForGood, OneReads
  <2>3. OneAsks'
    BY <1>1, KeysApart DEF Untold, Calm, Kept, Quiet, AskedForGood, OneAsks
  <2>4. QED
    BY <2>1, <2>2, <2>3 DEF AskedForGood
<1>2. ASSUME NEW w \in Callers, Reserve(w) PROVE AskedForGood'
  <2> DEFINE k == call[w].key
             new == [state |-> "PENDING", version |-> case.version, spec |-> SpecOf(SourceOf(k))]
  <2>1. /\ requests' = [requests EXCEPT ![k] = new]
        /\ new # NoRequest /\ requests[k] = NoRequest /\ k \in Keys
        /\ UNCHANGED <<asked, attempts>>
    BY <1>2, KeysApart DEF Reserve, Doing, NoRequest, reportVars
  <2>2. /\ \A v \in Callers : v # w => call'[v] = call[v]
        /\ call'[w].at = "fetch" /\ call'[w].key = k
    <3>1. CallTyped(call[w]) /\ call[w].at = "reserve" /\ Goto(w, [call[w] EXCEPT !.at = "fetch"])
      BY <1>2 DEF Reserve, Doing, CallsTyped
    <3>2. QED
      BY <3>1 DEF CallsTyped, Goto, CallTyped, Elsewhere
  <2> HIDE DEF new, k
  <2>3. \A j \in Keys : requests'[j] = IF j = k THEN new ELSE requests[j]
    BY <2>1 DEF CallsTyped
  <2>4. AskedTyped'
    BY <1>0, <2>1, <2>2, <2>3 DEF AskedForGood, AskedTyped
  <2>5. AskedOnRecord'
    BY <1>0, <2>1, <2>2, <2>3 DEF AskedForGood, AskedOnRecord, OneReads, OneAsks
  <2>6. OneReads'
    BY <1>0, <2>1, <2>2, <2>3 DEF AskedForGood, AskedOnRecord, OneReads
  <2>7. OneAsks'
    BY <1>0, <2>1, <2>2, <2>3 DEF AskedForGood, AskedOnRecord, OneAsks
  <2>8. QED
    BY <2>4, <2>5, <2>6, <2>7 DEF AskedForGood
<1>3. ASSUME NEW w \in Callers, Fetch(w) PROVE AskedForGood'
  <2>1. /\ call[w].at = "fetch"
        /\ asked' = [asked EXCEPT ![call[w].key] = @ + 1]
        /\ UNCHANGED <<requests, attempts>>
    BY <1>3 DEF Fetch, Doing, readVars, reportVars
  <2>2. /\ \A v \in Callers : v # w => call'[v] = call[v]
        /\ call'[w].at = "finish"
    BY <1>3 DEF Fetch, Goto, CallsTyped
  <2>3. /\ asked' = [k \in Keys \cup Investigations |-> asked'[k]]
        /\ \A k \in Keys \cup Investigations :
             asked'[k] = IF k = call[w].key THEN asked[k] + 1 ELSE asked[k]
    BY <2>1 DEF AskedForGood, AskedTyped
  <2>4. AskedTyped'
    <3>1. asked[call[w].key] = 0
      BY <2>1 DEF AskedForGood, OneReads, OneAsks
    <3>2. \A k \in Keys \cup Investigations : asked[k] \in {0, 1}
      BY DEF AskedForGood, AskedTyped
    <3>3. QED
      BY <2>3, <3>1, <3>2 DEF AskedTyped
  <2>5. AskedOnRecord'
    BY <1>0, <2>1, <2>2, <2>3 DEF AskedForGood, AskedOnRecord, OneReads, OneAsks
  <2>6. OneReads'
    BY <1>0, <2>1, <2>2, <2>3 DEF AskedForGood, AskedOnRecord, OneReads
  <2>7. OneAsks'
    BY <1>0, <2>1, <2>2, <2>3 DEF AskedForGood, AskedOnRecord, OneAsks
  <2>8. QED
    BY <2>4, <2>5, <2>6, <2>7 DEF AskedForGood
<1>4. ASSUME NEW w \in Callers, FinishRecord(w) PROVE AskedForGood'
  <2>1. /\ \A v \in Callers : v # w => call'[v] = call[v]
        /\ call'[w].at \in {"step", "idle"}
    BY <1>4 DEF FinishRecord, Return, Goto, CallsTyped, Idle
  <2>2. /\ \A k \in Keys : requests'[k] = NoRequest => requests[k] = NoRequest
        /\ UNCHANGED <<asked, attempts>>
    BY <1>4 DEF FinishRecord, Recorded, CallsTyped, NoRequest, reportVars
  <2>3. AskedTyped'
    BY <1>0, <2>1, <2>2 DEF AskedForGood, AskedTyped
  <2>4. AskedOnRecord'
    BY <1>0, <2>1, <2>2 DEF AskedForGood, AskedOnRecord, OneReads, OneAsks
  <2>5. OneReads'
    BY <1>0, <2>1, <2>2 DEF AskedForGood, AskedOnRecord, OneReads
  <2>6. OneAsks'
    BY <1>0, <2>1, <2>2 DEF AskedForGood, AskedOnRecord, OneAsks
  <2>7. QED
    BY <2>3, <2>4, <2>5, <2>6 DEF AskedForGood
<1>5. ASSUME NEW w \in Callers, InvestigateClaim(w) PROVE AskedForGood'
  <2> DEFINE i == call[w].key
  <2>1. /\ attempts' = [attempts EXCEPT ![i] = "PENDING"]
        /\ attempts[i] = "NONE" /\ i \in Investigations
        /\ UNCHANGED <<asked, requests>>
    BY <1>5, KeysApart DEF InvestigateClaim, MayClaim, Doing, readVars
  <2>2. /\ \A v \in Callers : v # w => call'[v] = call[v]
        /\ call'[w].at = "ask" /\ call'[w].key = i
    <3>1. CallTyped(call[w]) /\ call[w].at = "claim" /\ Goto(w, [call[w] EXCEPT !.at = "ask"])
      BY <1>5 DEF InvestigateClaim, Doing, CallsTyped
    <3>2. QED
      BY <3>1 DEF CallsTyped, Goto, CallTyped, Elsewhere
  <2> HIDE DEF i
  <2>3. \A j \in Investigations : attempts'[j] = IF j = i THEN "PENDING" ELSE attempts[j]
    BY <2>1 DEF CallsTyped
  <2>4. AskedTyped'
    BY <1>0, <2>1, <2>2, <2>3 DEF AskedForGood, AskedTyped
  <2>5. AskedOnRecord'
    BY <1>0, <2>1, <2>2, <2>3 DEF AskedForGood, AskedOnRecord, OneReads, OneAsks
  <2>6. OneReads'
    BY <1>0, <2>1, <2>2, <2>3 DEF AskedForGood, AskedOnRecord, OneReads
  <2>7. OneAsks'
    BY <1>0, <2>1, <2>2, <2>3 DEF AskedForGood, AskedOnRecord, OneAsks
  <2>8. QED
    BY <2>4, <2>5, <2>6, <2>7 DEF AskedForGood
<1>6. ASSUME NEW w \in Callers, AskPlanner(w) PROVE AskedForGood'
  <2>1. /\ call[w].at = "ask"
        /\ asked' = [asked EXCEPT ![call[w].key] = @ + 1]
        /\ UNCHANGED <<requests, attempts>>
    BY <1>6 DEF AskPlanner, Doing, readVars, reportVars
  <2>2. /\ \A v \in Callers : v # w => call'[v] = call[v]
        /\ call'[w].at = "commit"
    <3>1. CallTyped(call[w]) /\ Goto(w, [call[w] EXCEPT !.at = "commit"])
      BY <1>6 DEF AskPlanner, CallsTyped
    <3>2. QED
      BY <2>1, <3>1 DEF CallsTyped, Goto, CallTyped, Elsewhere
  <2>3. /\ asked' = [k \in Keys \cup Investigations |-> asked'[k]]
        /\ \A k \in Keys \cup Investigations :
             asked'[k] = IF k = call[w].key THEN asked[k] + 1 ELSE asked[k]
    BY <2>1 DEF AskedForGood, AskedTyped
  <2>4. AskedTyped'
    <3>1. asked[call[w].key] = 0
      BY <2>1 DEF AskedForGood, OneReads, OneAsks
    <3>2. \A k \in Keys \cup Investigations : asked[k] \in {0, 1}
      BY DEF AskedForGood, AskedTyped
    <3>3. QED
      BY <2>3, <3>1, <3>2 DEF AskedTyped
  <2>5. AskedOnRecord'
    BY <1>0, <2>1, <2>2, <2>3 DEF AskedForGood, AskedOnRecord, OneReads, OneAsks
  <2>6. OneReads'
    BY <1>0, <2>1, <2>2, <2>3 DEF AskedForGood, AskedOnRecord, OneReads
  <2>7. OneAsks'
    BY <1>0, <2>1, <2>2, <2>3 DEF AskedForGood, AskedOnRecord, OneAsks
  <2>8. QED
    BY <2>4, <2>5, <2>6, <2>7 DEF AskedForGood
<1>7. QED
  BY <1>1, <1>2, <1>3, <1>4, <1>5, <1>6, AllSteps DEF Telling

-----------------------------------------------------------------------------
(* Every head points at the last request reserved for its source, and what *)
(* is being read was reserved.                                             *)
HeadsNewest ==
    /\ heads = [s \in Sources |-> heads[s]]
    /\ newest = [s \in Sources |-> newest[s]]
    /\ \A s \in Sources : newest[s] = Nothing => heads[s] = Nothing
    /\ \A s \in Sources : newest[s] # Nothing =>
         /\ heads[s] = [version |-> heads[s].version, request |-> newest[s],
                        state |-> heads[s].state]
         /\ newest[s] \in Keys /\ SourceOf(newest[s]) = s
    /\ \A w \in Callers : call[w].at \in {"fetch", "finish", "record"} =>
         newest[SourceOf(call[w].key)] # Nothing

LEMMA HeadsStep ==
    ASSUME CallsTyped, HeadsNewest, [CallsNext]_callsVars
    PROVE  HeadsNewest'
<1>1. CASE Untold
  BY <1>1 DEF Untold, Calm, Quiet, HeadsNewest
<1>2. ASSUME NEW w \in Callers, Reserve(w) PROVE HeadsNewest'
  <2> DEFINE k == call[w].key
             s == SourceOf(k)
             head == [version |-> case.version, request |-> k, state |-> "PENDING"]
  <2>1. /\ heads' = [heads EXCEPT ![s] = head]
        /\ newest' = [newest EXCEPT ![s] = k]
        /\ k \in Keys /\ k # Nothing /\ s \in Sources
    BY <1>2, KeysApart, DeskConstants DEF Reserve, Doing, SourceOf
  <2>2. head = [version |-> head.version, request |-> k, state |-> head.state]
    OBVIOUS
  <2>3. /\ \A v \in Callers : v # w => call'[v] = call[v]
        /\ call'[w].key = k
    <3>1. CallTyped(call[w]) /\ call[w].at = "reserve" /\ Goto(w, [call[w] EXCEPT !.at = "fetch"])
      BY <1>2 DEF Reserve, Doing, CallsTyped
    <3>2. QED
      BY <3>1 DEF CallsTyped, Goto, CallTyped, Elsewhere
  <2> HIDE DEF head
  <2>4. \A t \in Sources : /\ heads'[t] = IF t = s THEN head ELSE heads[t]
                           /\ newest'[t] = IF t = s THEN k ELSE newest[t]
    BY <2>1 DEF HeadsNewest
  <2>5. \A v \in Callers : call[v].at \in {"fetch", "finish", "record"} =>
          SourceOf(call[v].key) \in Sources
    BY KeysApart, DeskConstants DEF SourceOf
  <2>6. /\ heads' = [t \in Sources |-> heads'[t]]
        /\ newest' = [t \in Sources |-> newest'[t]]
    BY <2>1 DEF HeadsNewest
  <2> DEFINE Pointed(head1, new1, t) ==
        /\ new1 = Nothing => head1 = Nothing
        /\ new1 # Nothing => /\ head1 = [version |-> head1.version, request |-> new1,
                                          state |-> head1.state]
                             /\ new1 \in Keys /\ SourceOf(new1) = t
  <2>7. ASSUME NEW t \in Sources PROVE Pointed(heads'[t], newest'[t], t)
    <3>1. Pointed(heads[t], newest[t], t) /\ Pointed(head, k, s)
      BY <2>1, <2>2 DEF HeadsNewest
    <3> HIDE DEF Pointed
    <3>2. QED
      BY <2>4, <3>1
  <2>8. ASSUME NEW v \in Callers, call'[v].at \in {"fetch", "finish", "record"}
        PROVE  newest'[SourceOf(call'[v].key)] # Nothing
    <3>1. CASE v = w
      BY <2>1, <2>3, <2>4, <3>1
    <3>2. CASE v # w
      <4>1. call'[v] = call[v] /\ newest[SourceOf(call[v].key)] # Nothing
        BY <2>3, <2>8, <3>2 DEF HeadsNewest
      <4>2. QED
        BY <2>1, <2>4, <2>5, <2>8, <4>1
    <3>3. QED
      BY <3>1, <3>2
  <2>9. QED
    BY <2>6, <2>7, <2>8 DEF HeadsNewest
<1>3. ASSUME NEW w \in Callers, FinishRecord(w) PROVE HeadsNewest'
  <2> DEFINE s == SourceOf(call[w].key)
  <2>1. /\ newest' = newest
        /\ newest[s] # Nothing /\ s \in Sources
        /\ \/ heads' = heads
           \/ \E state : heads' = [heads EXCEPT ![s].state = state]
    BY <1>3, KeysApart, DeskConstants DEF FinishRecord, Recorded, Doing, SourceOf, HeadsNewest
  <2>2. /\ \A v \in Callers : v # w => call'[v] = call[v]
        /\ call'[w].at \in {"step", "idle"}
    BY <1>3 DEF FinishRecord, Return, Goto, CallsTyped, Idle
  <2> HIDE DEF s
  <2>3. QED
    BY <2>1, <2>2 DEF HeadsNewest
<1>4. ASSUME NEW w \in Callers, Fetch(w) PROVE HeadsNewest'
  <2>1. call[w].at = "fetch" /\ UNCHANGED <<heads, newest>>
    BY <1>4 DEF Fetch, Doing, readVars
  <2>2. /\ \A v \in Callers : v # w => call'[v] = call[v]
        /\ call'[w].key = call[w].key
    BY <1>4 DEF Fetch, Goto, CallsTyped
  <2>3. QED
    BY <2>1, <2>2 DEF HeadsNewest
<1>5. ASSUME NEW w \in Callers, InvestigateClaim(w) \/ AskPlanner(w) PROVE HeadsNewest'
  <2>1. CallTyped(call[w]) /\ call[w].at \in {"claim", "ask"} /\ UNCHANGED <<heads, newest>>
    BY <1>5 DEF InvestigateClaim, AskPlanner, Doing, CallsTyped, readVars
  <2>2. Goto(w, [call[w] EXCEPT !.at = "ask"]) \/ Goto(w, [call[w] EXCEPT !.at = "commit"])
    BY <1>5 DEF InvestigateClaim, AskPlanner
  <2>3. /\ \A v \in Callers : v # w => call'[v] = call[v]
        /\ call'[w].at \in {"ask", "commit"}
    BY <2>1, <2>2 DEF CallsTyped, Goto, CallTyped, Elsewhere
  <2>4. QED
    BY <2>1, <2>3 DEF HeadsNewest
<1>6. QED
  BY <1>1, <1>2, <1>3, <1>4, <1>5, AllSteps DEF Telling

(* A case never rests on a receipt that a later reservation for the source *)
(* has displaced, in whatever order the reads end (collect's finish).      *)
THEOREM RefreshesDisplace == CallsSpec => []RefreshDisplaces
<1>1. CallsStart => CallsTyped /\ HeadsNewest
  BY Begins DEF CallsStart, Init, CallsInit, HeadsNewest, Idle
<1>2. CallsTyped /\ HeadsNewest /\ [CallsNext]_callsVars => (CallsTyped /\ HeadsNewest)'
  BY AllSteps, HeadsStep
<1>3. HeadsNewest => RefreshDisplaces
  BY DEF HeadsNewest, RefreshDisplaces, Accepted, Heads
<1>4. QED
  BY <1>1, <1>2, <1>3, PTL DEF CallsSpec

-----------------------------------------------------------------------------
(* What WithinBudget needs to be inductive: the budget bounds what was     *)
(* reserved, and only what was reserved is read.                           *)
RequestedOf(s) == {k \in Requested : SourceOf(k) = s}

ReservedFirst ==
    /\ \A s \in Sources : Cardinality(RequestedOf(s)) <= Budget
    /\ \A k \in Keys : asked[k] > 0 => k \in Requested
    /\ \A w \in Callers : call[w].at \in {"fetch", "finish", "record"} => call[w].key \in Requested

LEMMA ReservedStep ==
    ASSUME CallsTyped, AskedTyped, ReservedFirst, [CallsNext]_callsVars
    PROVE  ReservedFirst'
<1>0. \A s \in Sources : IsFiniteSet(RequestedOf(s)) /\ Cardinality(RequestedOf(s)) \in Nat
  <2>1. \A s \in Sources : RequestedOf(s) \subseteq Keys
    BY DEF RequestedOf, Requested
  <2>2. QED
    BY <2>1, DeskConstants, FS_Subset, FS_CardinalityType
<1>1. CASE Untold
  BY <1>1 DEF Untold, Calm, Quiet, ReservedFirst, RequestedOf
<1>2. ASSUME NEW w \in Callers, Reserve(w) PROVE ReservedFirst'
  <2> DEFINE k == call[w].key
  <2>1. /\ k \in Keys /\ SourceOf(k) \in Sources /\ k \notin Requested
        /\ Cardinality(RequestedOf(SourceOf(k))) < Budget
        /\ asked' = asked
    BY <1>2, KeysApart, DeskConstants
    DEF Reserve, Doing, SourceOf, BudgetLeft, RequestedOf, Requested, NoRequest
  <2>2. Requested' = Requested \cup {k}
    BY <1>2, <2>1 DEF Reserve, Requested, CallsTyped
  <2>3. /\ \A v \in Callers : v # w => call'[v] = call[v]
        /\ call'[w].key = k
    <3>1. CallTyped(call[w]) /\ call[w].at = "reserve" /\ Goto(w, [call[w] EXCEPT !.at = "fetch"])
      BY <1>2 DEF Reserve, Doing, CallsTyped
    <3>2. QED
      BY <3>1 DEF CallsTyped, Goto, CallTyped, Elsewhere
  <2> HIDE DEF k
  <2>4. ASSUME NEW s \in Sources PROVE Cardinality(RequestedOf(s)') <= Budget
    <3>1. CASE s = SourceOf(k)
      <4>1. RequestedOf(s)' = RequestedOf(s) \cup {k} /\ k \notin RequestedOf(s)
        BY <2>1, <2>2, <3>1 DEF RequestedOf, SourceOf
      <4>2. Cardinality(RequestedOf(s) \cup {k}) = Cardinality(RequestedOf(s)) + 1
        BY <1>0, <4>1, FS_AddElement
      <4>3. Budget \in Nat
        BY DeskConstants
      <4>4. QED
        BY <1>0, <2>1, <3>1, <4>1, <4>2, <4>3
    <3>2. CASE s # SourceOf(k)
      <4>1. RequestedOf(s)' = RequestedOf(s)
        BY <2>2, <3>2 DEF RequestedOf, SourceOf
      <4>2. QED
        BY <4>1 DEF ReservedFirst
    <3>3. QED
      BY <3>1, <3>2
  <2>5. QED
    BY <2>1, <2>2, <2>3, <2>4 DEF ReservedFirst
<1>3. ASSUME NEW w \in Callers, FinishRecord(w) PROVE ReservedFirst'
  <2>1. /\ \A v \in Callers : v # w => call'[v] = call[v]
        /\ call'[w].at \in {"step", "idle"}
    BY <1>3 DEF FinishRecord, Return, Goto, CallsTyped, Idle
  <2>2. call[w].key \in Requested /\ UNCHANGED asked
    BY <1>3 DEF FinishRecord, Doing, ReservedFirst
  <2>3. Requested' = Requested
    BY <1>3, <2>2 DEF FinishRecord, Recorded, Requested, CallsTyped
  <2>4. QED
    BY <2>1, <2>2, <2>3 DEF ReservedFirst, RequestedOf
<1>4. ASSUME NEW w \in Callers, Fetch(w) PROVE ReservedFirst'
  <2>1. call[w].at = "fetch" /\ UNCHANGED requests /\ asked' = [asked EXCEPT ![call[w].key] = @ + 1]
    BY <1>4 DEF Fetch, Doing, readVars
  <2>2. /\ \A v \in Callers : v # w => call'[v] = call[v]
        /\ call'[w].key = call[w].key
    BY <1>4 DEF Fetch, Goto, CallsTyped
  <2>3. call[w].key \in Requested /\ Requested' = Requested
    BY <2>1 DEF ReservedFirst, Requested
  <2>4. \A k \in Keys : k # call[w].key => asked'[k] = asked[k]
    BY <2>1 DEF AskedTyped
  <2>5. QED
    BY <2>1, <2>2, <2>3, <2>4 DEF ReservedFirst, RequestedOf
<1>5. ASSUME NEW w \in Callers, InvestigateClaim(w) \/ AskPlanner(w) PROVE ReservedFirst'
  <2>1. CallTyped(call[w]) /\ call[w].at \in {"claim", "ask"} /\ UNCHANGED requests
    BY <1>5 DEF InvestigateClaim, AskPlanner, Doing, CallsTyped, readVars
  <2>2. Goto(w, [call[w] EXCEPT !.at = "ask"]) \/ Goto(w, [call[w] EXCEPT !.at = "commit"])
    BY <1>5 DEF InvestigateClaim, AskPlanner
  <2>3. /\ \A v \in Callers : v # w => call'[v] = call[v]
        /\ call'[w].at \in {"ask", "commit"}
    BY <2>1, <2>2 DEF CallsTyped, Goto, CallTyped, Elsewhere
  <2>4. \A k \in Keys : asked'[k] = asked[k]
    <3>1. CASE InvestigateClaim(w)
      BY <3>1 DEF InvestigateClaim
    <3>2. CASE AskPlanner(w)
      <4>1. call[w].key \notin Keys /\ asked' = [asked EXCEPT ![call[w].key] = @ + 1]
        BY <3>2, KeysApart DEF AskPlanner, Doing
      <4>2. QED
        BY <4>1 DEF AskedTyped
    <3>3. QED
      BY <1>5, <3>1, <3>2
  <2>5. Requested' = Requested
    BY <2>1 DEF Requested
  <2>6. QED
    BY <2>3, <2>4, <2>5 DEF ReservedFirst, RequestedOf
<1>6. QED
  BY <1>1, <1>2, <1>3, <1>4, <1>5, AllSteps DEF Telling

(* Over all versions of a case, outcomes and restarts, a source is read no *)
(* oftener than its budget: what is read was counted first (collect        *)
(* 186-189).                                                               *)
THEOREM ReadsWithinBudget == CallsSpec => []WithinBudget
<1> DEFINE Inv == CallsTyped /\ AskedForGood /\ ReservedFirst
<1>1. CallsStart => Inv
  <2>1. ASSUME CallsStart PROVE ReservedFirst
    <3>1. Requested = {} /\ \A w \in Callers : call[w] = Idle
      BY <2>1 DEF CallsStart, Init, CallsInit, Requested, NoRequest
    <3>2. \A s \in Sources : RequestedOf(s) = {}
      BY <3>1 DEF RequestedOf
    <3>3. \A s \in Sources : Cardinality(RequestedOf(s)) = 0
      BY <3>2, FS_EmptySet
    <3>4. \A k \in Keys : asked[k] = 0
      BY <2>1 DEF CallsStart, Init
    <3>5. \A w \in Callers : call[w].at = "idle"
      BY <2>1 DEF CallsStart, Init, CallsInit, Idle
    <3>6. \A s \in Sources : Cardinality(RequestedOf(s)) <= Budget
      BY <3>3, DeskConstants
    <3>7. QED
      BY <3>4, <3>5, <3>6 DEF ReservedFirst
  <2>2. CallsStart => AskedForGood
    BY DEF CallsStart, Init, CallsInit, AskedForGood, AskedTyped, AskedOnRecord,
           OneReads, OneAsks, Idle, NoRequest
  <2>3. QED
    BY <2>1, <2>2, Begins
<1>2. Inv /\ [CallsNext]_callsVars => Inv'
  BY AllSteps, AskedStep, ReservedStep DEF AskedForGood
<1>3. Inv => WithinBudget
  <2> SUFFICES ASSUME Inv, NEW s \in Sources
               PROVE  Cardinality({k \in Keys : SourceOf(k) = s /\ asked[k] > 0}) <= Budget
    BY DEF WithinBudget
  <2> DEFINE read == {k \in Keys : SourceOf(k) = s /\ asked[k] > 0}
  <2>1. read \subseteq RequestedOf(s) /\ RequestedOf(s) \subseteq Keys
    BY DEF ReservedFirst, RequestedOf, Requested
  <2>2. Cardinality(read) <= Cardinality(RequestedOf(s))
    BY <2>1, DeskConstants, FS_Subset
  <2>3. Cardinality(read) \in Nat /\ Cardinality(RequestedOf(s)) \in Nat /\ Budget \in Nat
    BY <2>1, DeskConstants, FS_Subset, FS_CardinalityType
  <2>4. Cardinality(RequestedOf(s)) <= Budget
    BY DEF ReservedFirst
  <2> HIDE DEF read
  <2>5. Cardinality(read) <= Budget
    BY <2>2, <2>3, <2>4
  <2>6. QED
    BY <2>5 DEF read
<1>4. QED
  BY <1>1, <1>2, <1>3, PTL DEF CallsSpec

(* A source is read, and the planner asked, at most once under one key,    *)
(* however commands are repeated, resumed, raced or cut off by a restart:  *)
(* the reservation outlives the call; and no source beyond its budget      *)
(* (collect 174-218, investigate 301-362).                                 *)
THEOREM EachAskedOnce == CallsSpec => []AskedOnce
<1>1. CallsStart => CallsTyped /\ AskedForGood
  BY Begins DEF CallsStart, Init, CallsInit, AskedForGood, AskedTyped, AskedOnRecord,
                OneReads, OneAsks, Idle, NoRequest
<1>2. CallsTyped /\ AskedForGood /\ [CallsNext]_callsVars => (CallsTyped /\ AskedForGood)'
  BY AllSteps, AskedStep
<1>3. WithinBudget /\ AskedForGood => AskedOnce
  BY DEF AskedForGood, AskedTyped, AskedOnce
<1>4. QED
  BY <1>1, <1>2, <1>3, ReadsWithinBudget, PTL DEF CallsSpec

-----------------------------------------------------------------------------
(* What DeliveredOnce needs to be inductive: a delivery that has opened a  *)
(* case is on record.                                                      *)
DeliveredOnRecord ==
    /\ inserted = [i \in Ids |-> inserted[i]]
    /\ incidents = [i \in Ids |-> incidents[i]]
    /\ \A i \in Ids : \/ incidents[i] = 0
                      \/ incidents[i] = 1 /\ inserted[i] # Nothing

(* A delivery opens one case, however it is repeated, raced or cut off: it *)
(* is put on record by the command that opens the case (handle 57-86).     *)
THEOREM EachDeliveredOnce == CallsSpec => []DeliveredOnce
<1> DEFINE Inv == CallsTyped /\ DeliveredOnRecord
<1>1. CallsStart => Inv
  BY Begins DEF CallsStart, IngressInit, DeliveredOnRecord
<1>2. ASSUME Inv, [CallsNext]_callsVars PROVE Inv'
  <2>1. CallsTyped'
    BY <1>2, AllSteps
  <2>2. CASE UNCHANGED ingressVars
    BY <1>2, <2>1, <2>2 DEF DeliveredOnRecord, ingressVars
  <2>3. ASSUME NEW w \in Callers, Ingest(w) PROVE DeliveredOnRecord'
    <3> DEFINE d == call[w].delivery
    <3>1. CallTyped(call[w]) /\ call[w].at = "insert"
      BY <1>2, <2>3 DEF Ingest, Doing, CallsTyped
    <3>2. d \in Deliveries /\ d.body # Nothing /\ d.id \in Ids
      BY <3>1, IngressConstants DEF CallTyped, Elsewhere, Ids
    <3>3. /\ inserted[d.id] = Nothing
          /\ inserted' = [inserted EXCEPT ![d.id] = d.body]
          /\ incidents' = [incidents EXCEPT ![d.id] = @ + 1]
      BY <2>3 DEF Ingest, Known
    <3> HIDE DEF d
    <3>4. incidents[d.id] = 0
      BY <1>2, <3>2, <3>3 DEF DeliveredOnRecord
    <3>5. /\ inserted' = [i \in Ids |-> inserted'[i]]
          /\ incidents' = [i \in Ids |-> incidents'[i]]
          /\ \A i \in Ids : inserted'[i] = IF i = d.id THEN d.body ELSE inserted[i]
          /\ \A i \in Ids : incidents'[i] = IF i = d.id THEN 1 ELSE incidents[i]
      <4>1. /\ inserted = [i \in Ids |-> inserted[i]]
            /\ incidents = [i \in Ids |-> incidents[i]]
        BY <1>2 DEF DeliveredOnRecord
      <4>2. incidents' = [incidents EXCEPT ![d.id] = 1]
        BY <3>3, <3>4
      <4>3. DOMAIN inserted = Ids /\ DOMAIN incidents = Ids
        BY <4>1
      <4>4. inserted' = [i \in Ids |-> IF i = d.id THEN d.body ELSE inserted[i]]
        BY <3>3, <4>3
      <4>5. incidents' = [i \in Ids |-> IF i = d.id THEN 1 ELSE incidents[i]]
        BY <4>2, <4>3
      <4>6. QED
        BY <4>4, <4>5
    <3>6. \A i \in Ids : incidents[i] = 0 \/ (incidents[i] = 1 /\ inserted[i] # Nothing)
      BY <1>2 DEF DeliveredOnRecord
    <3>7. QED
      BY <3>2, <3>5, <3>6 DEF DeliveredOnRecord
  <2>4. QED
    BY <1>2, <2>1, <2>2, <2>3, StepOfOneService
    DEF callsVars, IngressAsk, IngressProgress, Deliver, IngestRead, IngestKnown, IngestConflict
<1>3. Inv => DeliveredOnce
  BY DEF DeliveredOnRecord, DeliveredOnce
<1>4. QED
  BY <1>1, <1>2, <1>3, PTL DEF CallsSpec

-----------------------------------------------------------------------------
(* What is known of a report: it is filed by the attempt it completes, and *)
(* a mission that has one to hand over finds it there.                     *)
ReportOfAttempt(i) ==
    /\ i \in Filed <=> attempts[i] = "COMPLETED"
    /\ i \in Filed => reports[i] = [basis |-> reports[i].basis, bundle |-> reports[i].bundle,
                                    handed |-> reports[i].handed]

(* A call to the planner for a mission is about the mission's own report.  *)
Promised(c) ==
    /\ c.at = "report" => c.mission \in Filed
    /\ c.at \in {"claim", "ask", "commit"} => c.mission \in {Nothing, c.key}

ReportsOnRecord ==
    /\ reports = [i \in Investigations |-> reports[i]]
    /\ \A i \in Investigations : ReportOfAttempt(i)
    /\ \A w \in Callers : Promised(call[w])

(* What the planner's steps do to reports and attempts; nothing else       *)
(* touches them, and only a verification looks at the chain.               *)
ReportsMove ==
    \/ UNCHANGED <<reports, attempts>>
    \/ \E w \in Callers : InvestigateClaim(w) \/ InvestigateCommit(w)
    \/ \E i \in Filed : ValidReport(i) /\ HandedOff(i)

CallsMove ==
    \A w \in Callers :
        \/ call'[w] = call[w]
        \/ /\ "at" \in DOMAIN call'[w] /\ call'[w].at \notin {"claim", "ask", "commit", "report"}
           /\ call'[w].at \in {"receipt", "transaction", "canonical", "height", "answer"} =>
                AnchorAsk(w) \/ AnchorProgress(w)
        \/ \E i \in Investigations, m \in Missions \cup {Nothing} :
              InvestigateRead(w, i, m) /\ m \in {Nothing, i}
        \/ InvestigateClaim(w) \/ InvestigateRefused(w)
        \/ AskPlanner(w) \/ InvestigateCommit(w)

LEMMA CallsMoveOne ==
    ASSUME CallsTyped, NEW w \in Callers, NEW c, Goto(w, c),
           "at" \in DOMAIN c, c.at \notin {"claim", "ask", "commit", "report"},
           c.at \in {"receipt", "transaction", "canonical", "height", "answer"} =>
              AnchorAsk(w) \/ AnchorProgress(w)
    PROVE  CallsMove
  BY DEF CallsTyped, CallsMove, Goto

LEMMA CallsMoveByRead ==
    ASSUME CallsTyped, NEW w \in Callers, NEW c, Goto(w, c),
           \/ \E i \in Investigations, m \in Missions \cup {Nothing} :
                 InvestigateRead(w, i, m) /\ m \in {Nothing, i}
           \/ InvestigateClaim(w) \/ InvestigateRefused(w)
           \/ AskPlanner(w) \/ InvestigateCommit(w)
    PROVE  CallsMove
  BY DEF CallsTyped, CallsMove, Goto

LEMMA HandoffsMove ==
    ASSUME CallsTyped, ReportsOnRecord,
           \/ \E i \in Investigations : Handoff(i)
           \/ \E w \in Callers : MissionHandoff(w)
    PROVE  ReportsMove /\ CallsMove
<1>1. ASSUME NEW i \in Investigations, Handoff(i) PROVE ReportsMove /\ CallsMove
  BY <1>1 DEF Handoff, ReportsMove, CallsMove
<1>2. ASSUME NEW w \in Callers, MissionHandoff(w) PROVE ReportsMove /\ CallsMove
  <2> DEFINE m == call[w].mission
  <2>1. m \in Missions /\ m \in Investigations /\ call[w].at = "report"
    BY <1>2, DeskConstants DEF MissionHandoff, Doing, CallsTyped, CallTyped, Elsewhere
  <2>2. m \in Filed
    BY <2>1 DEF ReportsOnRecord, Promised
  <2>3. ReportsMove
    BY <1>2, <2>1, <2>2 DEF MissionHandoff, ReportsMove, reportVars
  <2>4. CallsMove
    BY <1>2, CallsMoveOne DEF MissionHandoff, Idle
  <2>5. QED
    BY <2>3, <2>4
<1>3. QED
  BY <1>1, <1>2

LEMMA DeskMoves ==
    ASSUME CallsTyped, ReportsOnRecord,
           (\E w \in Callers : Ask(w) \/ Progress(w)) \/ Around
    PROVE  ReportsMove /\ CallsMove
<1>1. CASE Around
  <2>1. CASE \E i \in Investigations : Handoff(i)
    BY <2>1, HandoffsMove
  <2>2. CASE ~\E i \in Investigations : Handoff(i)
    <3>1. UNCHANGED <<reports, attempts>>
      BY <1>1, <2>2 DEF Around, Resolve, Reopen, OtherCommand, Tick, Restart, reportVars
    <3>2. call' = call \/ call' = [w \in Callers |-> Idle]
      BY <1>1, <2>2 DEF Around, Resolve, Reopen, OtherCommand, Tick, Restart
    <3>3. CallsMove
      BY <3>2 DEF CallsMove, Idle
    <3>4. QED
      BY <3>1, <3>3 DEF ReportsMove
  <2>3. QED
    BY <2>1, <2>2
<1>2. ASSUME NEW w \in Callers, Ask(w) PROVE ReportsMove /\ CallsMove
  <2>1. ASSUME NEW k \in Keys, Collect(w, k) PROVE ReportsMove /\ CallsMove
    <3>1. Goto(w, Reading(k, Nothing, 0)) /\ UNCHANGED <<reports, attempts>>
      BY <2>1 DEF Collect, reportVars
    <3>2. "at" \in DOMAIN Reading(k, Nothing, 0) /\ Reading(k, Nothing, 0).at = "reserve"
      BY DEF Reading
    <3>3. QED
      BY <3>1, <3>2, CallsMoveOne DEF ReportsMove
  <2>2. ASSUME NEW i \in Investigations, Investigate(w, i) PROVE ReportsMove /\ CallsMove
    <3>1. InvestigateRead(w, i, Nothing)
      BY <2>2 DEF Investigate
    <3>2. UNCHANGED <<reports, attempts>> /\ \E c : Goto(w, c)
      BY <3>1 DEF InvestigateRead, reportVars
    <3>3. QED
      BY <3>1, <3>2, CallsMoveByRead DEF ReportsMove
  <2>3. ASSUME NEW m \in Missions, MissionPlan(w, m) \/ MissionAgain(w, m)
        PROVE  ReportsMove /\ CallsMove
    <3>1. Goto(w, [at |-> "check", mission |-> m]) /\ UNCHANGED <<reports, attempts>>
      BY <2>3 DEF MissionPlan, MissionAgain, reportVars
    <3>2. QED
      BY <3>1, CallsMoveOne DEF ReportsMove
  <2>4. QED
    BY <1>2, <2>1, <2>2, <2>3 DEF Ask
<1>3. ASSUME NEW w \in Callers, Progress(w) PROVE ReportsMove /\ CallsMove
  <2> DEFINE c == call[w]
  <2>0. CallTyped(c)
    BY DEF CallsTyped
  <2>1. CASE ReserveReplay(w) \/ ReserveHit(w) \/ FinishRecord(w)
    <3> DEFINE onward == [at |-> "step", mission |-> c.mission, step |-> c.step + 1]
    <3>1. UNCHANGED <<reports, attempts>> /\ (Goto(w, onward) \/ Goto(w, Idle))
      BY <2>1 DEF ReserveReplay, ReserveHit, FinishRecord, Return, reportVars
    <3>2. "at" \in DOMAIN onward /\ onward.at = "step" /\ "at" \in DOMAIN Idle /\ Idle.at = "idle"
      BY DEF Idle
    <3> HIDE DEF onward
    <3>3. QED
      BY <3>1, <3>2, CallsMoveOne DEF ReportsMove
  <2>2. CASE ReserveRefused(w) \/ InvestigateStale(w)
    BY <2>2, CallsMoveOne DEF ReserveRefused, InvestigateStale, Idle, ReportsMove, reportVars
  <2>3. CASE Reserve(w) \/ FinishRead(w) \/ FinishConflict(w)
    <3> DEFINE fetch == [c EXCEPT !.at = "fetch"]
               record == [c EXCEPT !.at = "record"]
               again == IF c.tries + 1 = FinishTries THEN Idle
                        ELSE [c EXCEPT !.at = "finish", !.tries = @ + 1]
    <3>1. "at" \in DOMAIN c
      BY <2>0, <2>3 DEF Reserve, FinishRead, FinishConflict, Doing, CallTyped, Elsewhere
    <3>2. /\ "at" \in DOMAIN fetch /\ fetch.at = "fetch"
          /\ "at" \in DOMAIN record /\ record.at = "record"
      BY <3>1
    <3>3. FinishConflict(w) => "at" \in DOMAIN again /\ again.at \in {"finish", "idle"}
      BY <2>0 DEF FinishConflict, Doing, CallTyped, Elsewhere, Idle
    <3>4. /\ UNCHANGED <<reports, attempts>>
          /\ Goto(w, fetch) \/ Goto(w, record) \/ (FinishConflict(w) /\ Goto(w, again))
      BY <2>3 DEF Reserve, FinishRead, FinishConflict, reportVars
    <3> HIDE DEF fetch, record, again
    <3>5. QED
      BY <3>2, <3>3, <3>4, CallsMoveOne DEF ReportsMove
  <2>4. CASE Fetch(w)
    <3> DEFINE d(answer) == [at |-> "finish", key |-> c.key, version |-> c.version,
                             mission |-> c.mission, step |-> c.step,
                             facts |-> answer, fetched |-> clock, tries |-> 0]
    <3>1. PICK answer : Goto(w, d(answer))
      BY <2>4 DEF Fetch
    <3>2. "at" \in DOMAIN d(answer) /\ d(answer).at = "finish" /\ UNCHANGED <<reports, attempts>>
      BY <2>4 DEF Fetch, reportVars
    <3> HIDE DEF d
    <3>3. QED
      BY <3>1, <3>2, CallsMoveOne DEF ReportsMove
  <2>5. CASE \/ InvestigateClaim(w) \/ InvestigateRefused(w) \/ AskPlanner(w) \/ InvestigateCommit(w)
    <3>1. \E d : Goto(w, d)
      BY <2>5 DEF InvestigateClaim, InvestigateRefused, AskPlanner, InvestigateCommit
    <3>2. ReportsMove
      BY <2>5 DEF InvestigateRefused, AskPlanner, ReportsMove, reportVars
    <3>3. QED
      BY <2>5, <3>1, <3>2, CallsMoveByRead
  <2>6. CASE MissionCheck(w) \/ MissionSources(w)
    <3> DEFINE step == [at |-> "step", mission |-> c.mission, step |-> 1]
               investigate == [at |-> "investigate", mission |-> c.mission]
    <3>1. UNCHANGED <<reports, attempts>> /\ (Goto(w, step) \/ Goto(w, investigate) \/ Goto(w, Idle))
      BY <2>6 DEF MissionCheck, MissionSources, reportVars
    <3>2. /\ "at" \in DOMAIN step /\ step.at = "step"
          /\ "at" \in DOMAIN investigate /\ investigate.at = "investigate"
          /\ "at" \in DOMAIN Idle /\ Idle.at = "idle"
      BY DEF Idle
    <3> HIDE DEF step, investigate
    <3>3. QED
      BY <3>1, <3>2, CallsMoveOne DEF ReportsMove
  <2>7. CASE MissionStep(w)
    <3> DEFINE d == Reading(Steps[c.mission][c.step], c.mission, c.step)
    <3>1. Goto(w, d) /\ UNCHANGED <<reports, attempts>>
      BY <2>7 DEF MissionStep, reportVars
    <3>2. "at" \in DOMAIN d /\ d.at = "reserve"
      BY DEF Reading
    <3> HIDE DEF d
    <3>3. QED
      BY <3>1, <3>2, CallsMoveOne DEF ReportsMove
  <2>8. CASE MissionInvestigate(w)
    <3>1. c.mission \in Missions /\ c.mission \in Investigations
      BY <2>0, <2>8, DeskConstants DEF MissionInvestigate, Doing, CallTyped, Elsewhere
    <3>2. UNCHANGED <<reports, attempts>>
      BY <2>8 DEF MissionInvestigate, InvestigateRead, reportVars
    <3>3. CASE InvestigateRead(w, c.mission, c.mission)
      <4>1. \E d : Goto(w, d)
        BY <3>3 DEF InvestigateRead
      <4>2. QED
        BY <3>1, <3>2, <3>3, <4>1, CallsMoveByRead DEF ReportsMove
    <3>4. CASE Goto(w, Idle)
      BY <3>2, <3>4, CallsMoveOne DEF ReportsMove, Idle
    <3>5. QED
      BY <2>8, <3>3, <3>4 DEF MissionInvestigate
  <2>9. CASE MissionHandoff(w)
    BY <2>9, HandoffsMove
  <2>10. QED
    BY <1>3, <2>1, <2>2, <2>3, <2>4, <2>5, <2>6, <2>7, <2>8, <2>9 DEF Progress
<1>4. QED
  BY <1>1, <1>2, <1>3

LEMMA OthersMove ==
    ASSUME CallsTyped, UNCHANGED deskVars,
           \/ \E w \in Callers : AnchorAsk(w) \/ AnchorProgress(w)
           \/ (\E a \in Anchors : PrepareAnchor(a)) \/ ChainMoves
           \/ \E w \in Callers : ReviewAsk(w) \/ ReviewProgress(w)
           \/ \E r \in Reviewed : PrepareReview(r)
           \/ \E w \in Callers : IngressAsk(w) \/ IngressProgress(w)
    PROVE  ReportsMove /\ CallsMove /\ clock' = clock
<1>1. UNCHANGED <<reports, attempts>>
  BY DEF deskVars, reportVars
<1>2. (\E a \in Anchors : PrepareAnchor(a)) \/ ChainMoves \/ (\E r \in Reviewed : PrepareReview(r))
        => CallsMove /\ clock' = clock
  BY DEF PrepareAnchor, ChainMoves, Mine, Reorganize, PrepareReview, CallsMove
<1>3. ASSUME NEW w \in Callers, AnchorAsk(w) \/ ReviewAsk(w) \/ IngressAsk(w)
      PROVE  CallsMove /\ clock' = clock
  BY <1>3, CallsMoveOne
  DEF AnchorAsk, ReviewAsk, IngressAsk, VerifyAnchor, VerifyReview, Deliver
<1>4. ASSUME NEW w \in Callers, AnchorProgress(w) PROVE CallsMove /\ clock' = clock
  <2> DEFINE c == call[w]
             mined == [at |-> "transaction", anchor |-> c.anchor, tx |-> c.tx, block |-> block[c.tx]]
             canonical == [c EXCEPT !.at = "canonical"]
             highest == [c EXCEPT !.at = "height"]
             answer(s) == [at |-> "answer", anchor |-> c.anchor, tx |-> c.tx, state |-> s]
  <2>1. /\ VerifyTransaction(w) => "at" \in DOMAIN canonical /\ canonical.at = "canonical"
        /\ VerifyCanonical(w) => "at" \in DOMAIN highest /\ highest.at = "height"
    BY DEF VerifyTransaction, VerifyCanonical, Doing, CallsTyped, CallTyped, Elsewhere
  <2>2. \/ Goto(w, Idle) \/ Goto(w, mined) \/ \E s : Goto(w, answer(s))
        \/ VerifyTransaction(w) /\ Goto(w, canonical)
        \/ VerifyCanonical(w) /\ Goto(w, highest)
    BY <1>4 DEF AnchorProgress, VerifyReceipt, VerifyTransaction, VerifyCanonical, VerifyHeight,
        VerifyRecord, Answered
  <2>3. /\ "at" \in DOMAIN Idle /\ Idle.at = "idle"
        /\ "at" \in DOMAIN mined /\ mined.at = "transaction"
        /\ \A s : "at" \in DOMAIN answer(s) /\ answer(s).at = "answer"
    BY DEF Idle
  <2>4. clock' = clock
    BY <1>4 DEF AnchorProgress, VerifyReceipt, VerifyTransaction, VerifyCanonical, VerifyHeight,
        VerifyRecord
  <2> HIDE DEF mined, canonical, highest, answer
  <2>5. QED
    BY <1>4, <2>1, <2>2, <2>3, <2>4, CallsMoveOne
<1>5. ASSUME NEW w \in Callers, ReviewProgress(w) PROVE CallsMove /\ clock' = clock
  BY <1>5, CallsMoveOne DEF ReviewProgress, AskHistory, RecordReview, Idle
<1>6. ASSUME NEW w \in Callers, IngressProgress(w) PROVE CallsMove /\ clock' = clock
  <2> DEFINE c == call[w]
             insert == [c EXCEPT !.at = "insert"]
             again == [c EXCEPT !.at = "ingest", !.tries = @ + 1]
  <2>1. IngestRead(w) \/ IngestConflict(w) => "at" \in DOMAIN c
    BY DEF IngestRead, IngestConflict, Doing, CallsTyped, CallTyped, Elsewhere
  <2>2. /\ IngestRead(w) => "at" \in DOMAIN insert /\ insert.at = "insert"
        /\ IngestConflict(w) => "at" \in DOMAIN again /\ again.at = "ingest"
    BY <2>1
  <2>3. \/ Goto(w, Idle)
        \/ IngestRead(w) /\ Goto(w, insert)
        \/ IngestConflict(w) /\ Goto(w, again)
    BY <1>6 DEF IngressProgress, IngestRead, IngestKnown, Ingest, IngestConflict
  <2>4. clock' = clock
    BY <1>6 DEF IngressProgress, IngestRead, IngestKnown, Ingest, IngestConflict
  <2> HIDE DEF insert, again
  <2>5. QED
    BY <2>2, <2>3, <2>4, CallsMoveOne DEF Idle
<1>7. QED
  BY <1>1, <1>2, <1>3, <1>4, <1>5, <1>6 DEF ReportsMove

LEMMA AllMove ==
    ASSUME CallsTyped, ReportsOnRecord, [CallsNext]_callsVars
    PROVE  ReportsMove /\ CallsMove
<1>1. CASE UNCHANGED callsVars
  BY <1>1 DEF callsVars, vars, deskVars, reportVars, ReportsMove, CallsMove
<1>2. CASE CallsNext
  BY <1>2, StepOfOneService, DeskMoves, OthersMove
<1>3. QED
  BY <1>1, <1>2

(* A report is filed once, and then only marked as handed off. *)
LEMMA ReportsFiledOnce ==
    ASSUME CallsTyped, ReportsOnRecord, ReportsMove
    PROVE  /\ reports' = [i \in Investigations |-> reports'[i]]
           /\ \A i \in Investigations : ReportOfAttempt(i)'
           /\ \A i \in Filed : /\ i \in Filed'
                               /\ reports'[i].basis = reports[i].basis
                               /\ reports'[i].bundle = reports[i].bundle
<1>0. /\ reports = [i \in Investigations |-> reports[i]]
      /\ attempts = [i \in Investigations |-> attempts[i]]
      /\ \A i \in Investigations : ReportOfAttempt(i)
      /\ \A i \in Filed : i \in Investigations
  BY DEF CallsTyped, ReportsOnRecord, Filed
<1>1. CASE UNCHANGED <<reports, attempts>>
  BY <1>0, <1>1 DEF ReportOfAttempt, Filed
<1>2. ASSUME NEW w \in Callers, InvestigateClaim(w)
      PROVE  /\ reports' = reports
             /\ \A i \in Investigations : ReportOfAttempt(i)'
  <2>1. /\ reports' = reports
        /\ attempts' = [attempts EXCEPT ![call[w].key] = "PENDING"]
        /\ attempts[call[w].key] = "NONE"
    BY <1>2 DEF InvestigateClaim, MayClaim
  <2>2. Filed' = Filed
    BY <2>1 DEF Filed
  <2>3. QED
    BY <1>0, <2>1, <2>2 DEF ReportOfAttempt
<1>3. ASSUME NEW w \in Callers, InvestigateCommit(w)
      PROVE  /\ reports' = [i \in Investigations |-> reports'[i]]
             /\ \A i \in Investigations : ReportOfAttempt(i)'
             /\ \A i \in Filed : i \in Filed' /\ reports'[i] = reports[i]
  <2> DEFINE k == call[w].key
             new == [basis |-> call[w].basis, bundle |-> call[w].bundle, handed |-> FALSE]
  <2>1. /\ reports' = [reports EXCEPT ![k] = new]
        /\ attempts' = [attempts EXCEPT ![k] = "COMPLETED"]
        /\ attempts[k] = "PENDING"
    BY <1>3 DEF InvestigateCommit, StillStands
  <2>2. /\ new # NoReport
        /\ new = [basis |-> new.basis, bundle |-> new.bundle, handed |-> new.handed]
    BY DEF NoReport
  <2> HIDE DEF k, new
  <2>3. /\ reports' = [i \in Investigations |-> IF i = k THEN new ELSE reports[i]]
        /\ attempts' = [i \in Investigations |-> IF i = k THEN "COMPLETED" ELSE attempts[i]]
    BY <1>0, <2>1
  <2>4. Filed' = Filed \cup ({k} \cap Investigations)
    BY <2>2, <2>3 DEF Filed
  <2>5. k \notin Filed
    BY <1>0, <2>1 DEF ReportOfAttempt
  <2>6. QED
    BY <1>0, <2>2, <2>3, <2>4, <2>5 DEF ReportOfAttempt
<1>4. ASSUME NEW h \in Filed, HandedOff(h)
      PROVE  /\ reports' = [i \in Investigations |-> reports'[i]]
             /\ \A i \in Investigations : ReportOfAttempt(i)'
             /\ \A i \in Filed : /\ i \in Filed'
                                 /\ reports'[i].basis = reports[i].basis
                                 /\ reports'[i].bundle = reports[i].bundle
  <2> DEFINE new == [basis |-> reports[h].basis, bundle |-> reports[h].bundle, handed |-> TRUE]
  <2>1. attempts' = attempts /\ reports' = [reports EXCEPT ![h].handed = TRUE]
    BY <1>4 DEF HandedOff
  <2>2. reports[h] = [basis |-> reports[h].basis, bundle |-> reports[h].bundle,
                      handed |-> reports[h].handed]
    BY <1>0 DEF ReportOfAttempt
  <2>3. [reports[h] EXCEPT !.handed = TRUE] = new
    <3>1. ASSUME NEW r, NEW y, r = [basis |-> r.basis, bundle |-> r.bundle, handed |-> r.handed]
          PROVE  [r EXCEPT !.handed = y] = [basis |-> r.basis, bundle |-> r.bundle, handed |-> y]
      BY <3>1
    <3>2. QED
      BY <2>2, <3>1, Zenon
  <2>4. /\ new # NoReport
        /\ new = [basis |-> new.basis, bundle |-> new.bundle, handed |-> new.handed]
        /\ new.basis = reports[h].basis /\ new.bundle = reports[h].bundle
    BY DEF NoReport
  <2> HIDE DEF new
  <2>5. reports' = [i \in Investigations |-> IF i = h THEN new ELSE reports[i]]
    BY <1>0, <2>1, <2>3
  <2>6. Filed' = Filed
    BY <1>0, <2>4, <2>5 DEF Filed
  <2>7. QED
    BY <1>0, <2>1, <2>4, <2>5, <2>6 DEF ReportOfAttempt
<1>5. QED
  <2>1. ASSUME NEW w \in Callers, InvestigateClaim(w)
        PROVE  Filed' = Filed /\ reports' = reports
    BY <1>2, <2>1 DEF Filed
  <2>2. QED
    BY <1>0, <1>1, <1>2, <1>3, <1>4, <2>1 DEF ReportsMove

LEMMA ReportsStep ==
    ASSUME CallsTyped, ReportsOnRecord, [CallsNext]_callsVars
    PROVE  ReportsOnRecord'
<1>1. ReportsMove /\ CallsMove
  BY AllMove
<1>2. /\ reports' = [i \in Investigations |-> reports'[i]]
      /\ \A i \in Investigations : ReportOfAttempt(i)'
      /\ \A i \in Filed : i \in Filed'
  BY <1>1, ReportsFiledOnce
<1>3. ASSUME NEW w \in Callers PROVE Promised(call[w])'
  <2> DEFINE c == call[w]
             d == call'[w]
  <2>0. CallTyped(c) /\ Promised(c) /\ call = [v \in Callers |-> call[v]]
    BY DEF CallsTyped, ReportsOnRecord
  <2>1. CASE d = c
    BY <1>2, <2>0, <2>1 DEF Promised
  <2>2. CASE d.at \notin {"claim", "ask", "commit", "report"}
    BY <2>2 DEF Promised
  <2>3. ASSUME NEW i \in Investigations, NEW m \in Missions \cup {Nothing},
               InvestigateRead(w, i, m), m \in {Nothing, i}
        PROVE  Promised(call[w])'
    <3> DEFINE claim == [at |-> "claim", key |-> i, mission |-> m, basis |-> Basis,
                         bundle |-> IF External THEN Context ELSE NoBundle]
               report == [at |-> "report", mission |-> m]
    <3>1. \/ d = Idle
          \/ d = report /\ m # Nothing /\ i \in Filed
          \/ d = claim
      BY <2>0, <2>3 DEF InvestigateRead, Goto
    <3>2. claim.at = "claim" /\ claim.mission = m /\ claim.key = i
      OBVIOUS
    <3>3. report.at = "report" /\ report.mission = m /\ Idle.at = "idle"
      BY DEF Idle
    <3> HIDE DEF claim, report
    <3>4. CASE d = Idle
      BY <3>3, <3>4 DEF Promised
    <3>5. CASE d = report /\ m # Nothing /\ i \in Filed
      BY <1>2, <2>3, <3>3, <3>5 DEF Promised
    <3>6. CASE d = claim
      BY <2>3, <3>2, <3>6 DEF Promised
    <3>7. QED
      BY <3>1, <3>4, <3>5, <3>6
  <2>4. CASE InvestigateClaim(w) \/ AskPlanner(w)
    <3>1. /\ d = [c EXCEPT !.at = "ask"] \/ d = [c EXCEPT !.at = "commit"]
          /\ c.at \in {"claim", "ask"}
      BY <2>0, <2>4 DEF InvestigateClaim, AskPlanner, Goto, Doing
    <3>2. /\ d.at \in {"ask", "commit"}
          /\ d.key = c.key /\ d.mission = c.mission
      BY <2>0, <3>1 DEF CallTyped, Elsewhere
    <3>3. QED
      BY <2>0, <3>1, <3>2 DEF Promised
  <2>5. CASE InvestigateRefused(w)
    <3>1. /\ c.at = "claim"
          /\ d = Idle \/ (d = [at |-> "report", mission |-> c.mission]
                          /\ c.key \in Filed /\ c.mission # Nothing)
      BY <2>0, <2>5 DEF InvestigateRefused, Goto, Doing
    <3>2. QED
      BY <1>2, <2>0, <3>1 DEF Promised, Idle
  <2>6. CASE InvestigateCommit(w)
    <3> DEFINE new == [basis |-> c.basis, bundle |-> c.bundle, handed |-> FALSE]
    <3>1. /\ c.at = "commit"
          /\ d = Idle \/ (d = [at |-> "report", mission |-> c.mission] /\ c.mission # Nothing)
          /\ reports' = [reports EXCEPT ![c.key] = new]
      BY <2>0, <2>6 DEF InvestigateCommit, Goto, Doing
    <3>2. c.key \in Investigations
      BY <2>0, <3>1 DEF CallTyped, Elsewhere
    <3>3. new # NoReport
      BY DEF NoReport
    <3> HIDE DEF new
    <3>4. reports'[c.key] = new
      BY <3>1, <3>2 DEF ReportsOnRecord
    <3>5. c.key \in Filed'
      BY <3>2, <3>3, <3>4 DEF Filed
    <3>6. QED
      BY <2>0, <3>1, <3>5 DEF Promised, Idle
  <2>7. QED
    BY <1>1, <2>1, <2>2, <2>3, <2>4, <2>5, <2>6 DEF CallsMove
<1>4. QED
  BY <1>2, <1>3 DEF ReportsOnRecord

LEMMA ReportsBegin == CallsStart => ReportsOnRecord
  BY DEF CallsStart, Init, CallsInit, ReportsOnRecord, ReportOfAttempt, Promised, Filed, Idle

-----------------------------------------------------------------------------
(* Audit anchors.  What AnchorStands needs to be inductive: how far a      *)
(* verification has come says what the chain has shown of its transaction, *)
(* and what is verified was shown to be.                                   *)
Shown(a, x) == x \in Txs /\ Carries[x] = a /\ height >= Confirmations

ChainTyped ==
    /\ height \in Nat
    /\ block = [x \in Txs |-> block[x]]
    /\ \A x \in Txs : block[x] # Nothing => block[x].number \in Nat \ {0}

Looked(c) ==
    /\ c.at \in {"receipt", "transaction", "canonical", "height"} => c.tx \in Txs
    /\ c.at \in {"transaction", "canonical"} =>
         c = [at |-> c.at, anchor |-> c.anchor, tx |-> c.tx, block |-> c.block]
    /\ c.at \in {"transaction", "canonical", "height"} => c.block.number \in Nat \ {0}
    /\ c.at \in {"canonical", "height"} => Carries[c.tx] = c.anchor
    /\ c.at = "answer" => (c.state = "VERIFIED" => Shown(c.anchor, c.tx))

AnchorsShown ==
    /\ anchors = [a \in Anchors |-> anchors[a]]
    /\ \A a \in Anchors :
         anchors[a] # Nothing /\ anchors[a].state = "VERIFIED" => Shown(a, anchors[a].tx)

AnchorInv == ChainTyped /\ (\A w \in Callers : Looked(call[w])) /\ AnchorsShown

(* Only the chain's own steps move it, and a verification reads it.        *)
LEMMA ChainStep ==
    ASSUME ChainTyped, [CallsNext]_callsVars
    PROVE  /\ ChainTyped' /\ height' >= height
           /\ \A a, x : Shown(a, x) => Shown(a, x)'
<1>1. CASE UNCHANGED <<height, block>>
  BY <1>1 DEF ChainTyped, Shown
<1>2. ASSUME NEW xs \in SUBSET Txs, Mine(xs)
      PROVE  ChainTyped' /\ height' >= height
  <2> DEFINE new == [number |-> height + 1, fork |-> reorgs]
  <2>1. height' = height + 1 /\ block' = [x \in Txs |-> IF x \in xs THEN new ELSE block[x]]
    BY <1>2 DEF Mine
  <2>2. new.number = height + 1
    OBVIOUS
  <2> HIDE DEF new
  <2>3. QED
    BY <2>1, <2>2 DEF ChainTyped
<1>3. ASSUME NEW n \in 1..MaxHeight, Reorganize(n)
      PROVE  ChainTyped' /\ height' >= height
  BY <1>3 DEF Reorganize, ChainTyped
<1>4. ChainTyped' /\ height' >= height
  <2>1. CASE ChainMoves
    BY <1>2, <1>3, <2>1 DEF ChainMoves
  <2>2. CASE ~ChainMoves
    BY <1>1, <2>2, StepOfOneService
    DEF callsVars, anchorVars, chainVars, AnchorAsk, AnchorProgress, PrepareAnchor,
        VerifyAnchor, VerifyReceipt, VerifyTransaction, VerifyCanonical, VerifyHeight, VerifyRecord
  <2>3. QED
    BY <2>1, <2>2
<1>5. QED
  BY <1>4, AnchorConstants DEF ChainTyped, Shown

(* One look at a time, each rests on the one before.                       *)
LEMMA LookStep ==
    ASSUME CallsTyped, AnchorInv, NEW w \in Callers, AnchorAsk(w) \/ AnchorProgress(w)
    PROVE  Looked(call'[w])
<1> DEFINE c == call[w]
           d == call'[w]
<1>0. Looked(c)
  BY DEF AnchorInv
<1>1. ASSUME NEW a \in Anchors, NEW x \in Txs, VerifyAnchor(w, a, x) PROVE Looked(d)
  <2>1. d = [at |-> "receipt", anchor |-> a, tx |-> x]
    BY <1>1 DEF VerifyAnchor, Goto, CallsTyped
  <2>2. QED
    BY <2>1 DEF Looked
<1>2. CASE d = Idle
  BY <1>2 DEF Idle, Looked
<1>3. CASE VerifyReceipt(w)
  <2>1. c.tx \in Txs
    BY <1>0, <1>3 DEF VerifyReceipt, Doing, Looked
  <2>2. CASE d = [at |-> "answer", anchor |-> c.anchor, tx |-> c.tx, state |-> "PENDING"]
    BY <2>2 DEF Looked
  <2>3. ASSUME d = [at |-> "transaction", anchor |-> c.anchor, tx |-> c.tx, block |-> block[c.tx]],
               block[c.tx] # Nothing
        PROVE  Looked(d)
    BY <2>1, <2>3 DEF Looked, AnchorInv, ChainTyped
  <2>4. QED
    BY <1>3, <2>2, <2>3 DEF VerifyReceipt, Answered, Goto, CallsTyped
<1>4. CASE VerifyTransaction(w)
  <2>1. c = [at |-> c.at, anchor |-> c.anchor, tx |-> c.tx, block |-> c.block]
        /\ c.tx \in Txs /\ c.block.number \in Nat \ {0}
    BY <1>0, <1>4 DEF VerifyTransaction, Doing, Looked
  <2>2. (d = [c EXCEPT !.at = "canonical"] /\ Carries[c.tx] = c.anchor) \/ d = Idle
    BY <1>4 DEF VerifyTransaction, Goto, CallsTyped
  <2> HIDE DEF c
  <2>3. [c EXCEPT !.at = "canonical"]
          = [at |-> "canonical", anchor |-> c.anchor, tx |-> c.tx, block |-> c.block]
    BY <2>1
  <2>4. QED
    BY <1>2, <2>1, <2>2, <2>3 DEF Looked
<1>5. CASE VerifyCanonical(w)
  <2>1. c = [at |-> c.at, anchor |-> c.anchor, tx |-> c.tx, block |-> c.block]
        /\ c.tx \in Txs /\ Carries[c.tx] = c.anchor /\ c.block.number \in Nat \ {0}
    BY <1>0, <1>5 DEF VerifyCanonical, Doing, Looked
  <2>2. d = [c EXCEPT !.at = "height"] \/ d = Idle
    BY <1>5 DEF VerifyCanonical, Goto, CallsTyped
  <2> HIDE DEF c
  <2>3. [c EXCEPT !.at = "height"]
          = [at |-> "height", anchor |-> c.anchor, tx |-> c.tx, block |-> c.block]
    BY <2>1
  <2>4. QED
    BY <1>2, <2>1, <2>2, <2>3 DEF Looked
<1>6. CASE VerifyHeight(w)
  <2> DEFINE state == IF height - c.block.number + 1 < Confirmations THEN "PENDING" ELSE "VERIFIED"
  <2>1. d = [at |-> "answer", anchor |-> c.anchor, tx |-> c.tx, state |-> state]
    BY <1>6 DEF VerifyHeight, Answered, Goto, CallsTyped
  <2>2. /\ c.tx \in Txs /\ Carries[c.tx] = c.anchor
        /\ c.block.number \in Nat \ {0} /\ height \in Nat
    BY <1>0, <1>6 DEF VerifyHeight, Doing, Looked, AnchorInv, ChainTyped
  <2>3. state = "VERIFIED" => Shown(c.anchor, c.tx)
    BY <2>2, AnchorConstants DEF Shown
  <2> HIDE DEF state
  <2>4. QED
    BY <2>1, <2>3 DEF Looked
<1>7. CASE VerifyRecord(w)
  BY <1>2, <1>7 DEF VerifyRecord, Goto, CallsTyped
<1>8. QED
  BY <1>1, <1>3, <1>4, <1>5, <1>6, <1>7 DEF AnchorAsk, AnchorProgress

(* Nobody else looks.                                                      *)
LEMMA OnlyVerifiersLook ==
    ASSUME CallsTyped, AnchorInv, ReportsOnRecord, [CallsNext]_callsVars, NEW w \in Callers
    PROVE  Looked(call'[w])
<1> DEFINE c == call[w]
           d == call'[w]
<1>0. CallsMove /\ Looked(c) /\ CallTyped(c)
  BY AllMove DEF AnchorInv, CallsTyped
<1>1. CASE d.at \notin {"receipt", "transaction", "canonical", "height", "answer"}
  BY <1>1 DEF Looked
<1>2. CASE d = c
  BY <1>0, <1>2
<1>3. CASE AnchorAsk(w) \/ AnchorProgress(w)
  BY <1>3, LookStep
<1>4. ASSUME NEW i \in Investigations, NEW m \in Missions \cup {Nothing}, InvestigateRead(w, i, m)
      PROVE  d.at \in {"idle", "report", "claim"}
  <2> DEFINE claim == [at |-> "claim", key |-> i, mission |-> m, basis |-> Basis,
                       bundle |-> IF External THEN Context ELSE NoBundle]
             report == [at |-> "report", mission |-> m]
  <2>1. d = Idle \/ d = report \/ d = claim
    BY <1>4 DEF InvestigateRead, Goto, CallsTyped
  <2>2. Idle.at = "idle" /\ report.at = "report" /\ claim.at = "claim"
    BY DEF Idle
  <2> HIDE DEF claim, report
  <2>3. QED
    BY <2>1, <2>2
<1>5. CASE InvestigateClaim(w) \/ AskPlanner(w)
  <2>1. "at" \in DOMAIN c
    BY <1>0, <1>5 DEF InvestigateClaim, AskPlanner, Doing, CallTyped, Elsewhere
  <2>2. d = [c EXCEPT !.at = "ask"] \/ d = [c EXCEPT !.at = "commit"]
    BY <1>5 DEF InvestigateClaim, AskPlanner, Goto, CallsTyped
  <2> HIDE DEF c
  <2>3. d.at \in {"ask", "commit"}
    BY <2>1, <2>2
  <2>4. QED
    BY <1>1, <2>3
<1>6. CASE InvestigateRefused(w) \/ InvestigateCommit(w)
  <2> DEFINE report == [at |-> "report", mission |-> c.mission]
  <2>1. d = Idle \/ d = report
    BY <1>6 DEF InvestigateRefused, InvestigateCommit, Goto, CallsTyped
  <2>2. Idle.at = "idle" /\ report.at = "report"
    BY DEF Idle
  <2> HIDE DEF report
  <2>3. QED
    BY <1>1, <2>1, <2>2
<1>7. QED
  BY <1>0, <1>1, <1>2, <1>3, <1>4, <1>5, <1>6 DEF CallsMove

(* A step that records an answer looks at the anchor as it then is.        *)
Stands(a) ==
    /\ anchors[a].tx # Nothing => anchors'[a].tx = anchors[a].tx
    /\ anchors[a].state = "VERIFIED" => anchors'[a].state = "VERIFIED"

LEMMA RecordStep ==
    ASSUME AnchorInv, [CallsNext]_callsVars
    PROVE  /\ anchors' = [a \in Anchors |-> anchors'[a]]
           /\ \A a \in Anchors : anchors[a] # Nothing =>
                 /\ Stands(a)
                 /\ anchors'[a].state = "VERIFIED" => Shown(a, anchors'[a].tx)
           /\ \A a \in Anchors : anchors[a] = Nothing =>
                 anchors'[a] = Nothing \/ anchors'[a].state = "NOT_SUBMITTED"
<1>0. AnchorsShown
  BY DEF AnchorInv
<1>1. CASE UNCHANGED anchors
  BY <1>0, <1>1 DEF AnchorsShown, Stands
<1>2. ASSUME NEW b \in Anchors, PrepareAnchor(b)
      PROVE  /\ anchors' = [a \in Anchors |-> anchors'[a]]
             /\ \A a \in Anchors : anchors[a] # Nothing => anchors'[a] = anchors[a]
             /\ \A a \in Anchors : anchors[a] = Nothing =>
                   anchors'[a] = Nothing \/ anchors'[a].state = "NOT_SUBMITTED"
  BY <1>0, <1>2 DEF PrepareAnchor, AnchorsShown
<1>3. ASSUME NEW w \in Callers, VerifyRecord(w), anchors' # anchors
      PROVE  /\ anchors' = [a \in Anchors |-> anchors'[a]]
             /\ \A a \in Anchors : anchors[a] # Nothing =>
                   /\ Stands(a)
                   /\ anchors'[a].state = "VERIFIED" => Shown(a, anchors'[a].tx)
             /\ \A a \in Anchors : anchors[a] = Nothing => anchors'[a] = Nothing
  <2> DEFINE c == call[w]
             b == c.anchor
             new == [state |-> NextState(anchors[b].state, c.state), tx |-> c.tx]
  <2>1. /\ anchors' = [anchors EXCEPT ![b] = new]
        /\ anchors[b] # Nothing /\ anchors[b].tx \in {Nothing, c.tx}
        /\ c.at = "answer"
    BY <1>3 DEF VerifyRecord, Bindable, Doing
  <2>2. /\ anchors[b].state = "VERIFIED" => new.state = "VERIFIED"
        /\ new.state = "VERIFIED" => anchors[b].state = "VERIFIED" \/ c.state = "VERIFIED"
        /\ new.tx = c.tx
    BY DEF NextState
  <2>3. c.state = "VERIFIED" => Shown(b, c.tx)
    BY <2>1 DEF AnchorInv, Looked
  <2> HIDE DEF new
  <2>4. \A a \in Anchors : anchors'[a] = IF a = b THEN new ELSE anchors[a]
    BY <1>0, <2>1 DEF AnchorsShown
  <2>5. ASSUME NEW a \in Anchors, a = b
        PROVE  Stands(a) /\ (anchors'[a].state = "VERIFIED" => Shown(a, anchors'[a].tx))
    <3>1. Stands(a)
      BY <2>1, <2>2, <2>4, <2>5 DEF Stands
    <3>2. CASE anchors[b].state = "VERIFIED"
      BY <1>0, <2>1, <2>2, <2>4, <2>5, <3>1, <3>2, AnchorConstants DEF AnchorsShown, Shown
    <3>3. CASE anchors[b].state # "VERIFIED"
      BY <2>2, <2>3, <2>4, <2>5, <3>1, <3>3 DEF Shown
    <3>4. QED
      BY <3>1, <3>2, <3>3
  <2>6. QED
    BY <1>0, <2>1, <2>4, <2>5 DEF AnchorsShown, Stands
<1>4. QED
  BY <1>0, <1>1, <1>2, <1>3, StepOfOneService
  DEF callsVars, anchorVars, chainVars, AnchorAsk, AnchorProgress, ChainMoves, Mine, Reorganize,
      VerifyAnchor, VerifyReceipt, VerifyTransaction, VerifyCanonical, VerifyHeight,
      AnchorsShown, Stands

LEMMA AnchorStep ==
    ASSUME CallsTyped, ReportsOnRecord, AnchorInv, [CallsNext]_callsVars
    PROVE  AnchorInv'
<1>1. /\ ChainTyped'
      /\ \A a, x : Shown(a, x) => Shown(a, x)'
  BY ChainStep DEF AnchorInv
<1>2. ASSUME NEW w \in Callers PROVE Looked(call[w])'
  BY <1>1, OnlyVerifiersLook DEF Looked
<1>3. AnchorsShown'
  BY <1>1, RecordStep DEF AnchorsShown
<1>4. QED
  BY <1>1, <1>2, <1>3 DEF AnchorInv

(* An anchor is verified only by what the chain has shown of a transaction *)
(* that carries its plan, and no later answer of the chain, however late,  *)
(* unbinds it or takes its verification back (verify_anchor).              *)
THEOREM AnchorsStand == CallsSpec => AnchorStands
<1> DEFINE Inv == CallsTyped /\ ReportsOnRecord /\ AnchorInv
<1>1. CallsStart => Inv
  <2>1. CallsStart => /\ height = 0 /\ anchors = [a \in Anchors |-> Nothing]
                      /\ block = [x \in Txs |-> Nothing]
                      /\ \A w \in Callers : call[w].at = "idle"
    BY DEF CallsStart, AnchorInit, Init, CallsInit, Idle
  <2>2. QED
    BY <2>1, Begins, ReportsBegin DEF AnchorInv, ChainTyped, Looked, AnchorsShown
<1>2. Inv /\ [CallsNext]_callsVars => Inv'
  BY AllSteps, ReportsStep, AnchorStep
<1>3. Inv /\ [CallsNext]_callsVars
        => [\A a \in Anchors : anchors[a] # Nothing =>
              /\ anchors[a].tx # Nothing => anchors'[a].tx = anchors[a].tx
              /\ anchors[a].state = "VERIFIED" => anchors'[a].state = "VERIFIED"
              /\ anchors'[a].state = "VERIFIED" =>
                    Carries[anchors'[a].tx] = a /\ height >= Confirmations]_anchors
  BY RecordStep DEF Stands, Shown
<1>4. QED
  BY <1>1, <1>2, <1>3, PTL DEF CallsSpec, AnchorStands

-----------------------------------------------------------------------------
(* What ObligationsStand needs to be inductive.  What was demanded is      *)
(* always held by the guard and the filed bundles together, which demand   *)
(* no more; and a threshold comes with a policy, a policy with a source.   *)
Demands == {guard} \cup {b.floor : b \in Bundles}

Sound(floor) ==
    /\ floor.groups \in Nat
    /\ floor.groups > 0 => floor.configured
    /\ floor.configured => floor.required # {}

Thresholds ==
    /\ config \in Configs
    /\ demanded = [required |-> demanded.required, groups |-> demanded.groups]
    /\ \A f \in Demands :
         Sound(f) /\ f.required \subseteq demanded.required /\ f.groups <= demanded.groups
    /\ demanded.required \subseteq UNION {f.required : f \in Demands}
    /\ \E f \in Demands : demanded.groups = f.groups

LEMMA LargestIs ==
    ASSUME NEW S \in SUBSET Nat, NEW m \in S \cup {0}, \A n \in S : n <= m
    PROVE  Largest(S) = m
<1>1. m \in Nat /\ \A n \in S \cup {0} : n \in Nat /\ m >= n
  OBVIOUS
<1>2. \A n \in S \cup {0} : (\A k \in S \cup {0} : n >= k) => n = m
  BY <1>1
<1>3. QED
  BY <1>1, <1>2 DEF Largest, Max

LEMMA LargestOfTwo ==
    ASSUME NEW m \in Nat, NEW n \in Nat
    PROVE  Largest({m, n}) = IF m <= n THEN n ELSE m
<1>1. CASE m <= n
  BY <1>1, LargestIs
<1>2. CASE ~(m <= n)
  BY <1>2, LargestIs
<1>3. QED
  BY <1>1, <1>2

(* What is owed is what was demanded, and of the sources maybe more. *)
LEMMA OwedIsDemanded ==
    ASSUME Thresholds
    PROVE  /\ demanded.groups \in Nat
           /\ Obligations.groups = demanded.groups
           /\ demanded.required \subseteq Obligations.required
           /\ Obligations.configured <=> \E f \in Demands : f.configured
<1> DEFINE S == {guard.groups} \cup {b.floor.groups : b \in Bundles}
<1>1. \A n : n \in S <=> \E f \in Demands : n = f.groups
  BY DEF Demands
<1> HIDE DEF S
<1>2. demanded.groups \in S /\ \A n \in S : n \in Nat /\ n <= demanded.groups
  BY <1>1 DEF Thresholds, Sound
<1>3. Largest(S) = demanded.groups
  BY <1>2, LargestIs
<1>4. Obligations.groups = demanded.groups
  BY <1>3 DEF Obligations, S
<1>5. \A f \in Demands : f.required \subseteq Obligations.required
  BY DEF Demands, Obligations
<1>6. demanded.required \subseteq Obligations.required
  BY <1>5 DEF Thresholds
<1>7. Obligations.configured <=> \E f \in Demands : f.configured
  BY DEF Obligations, Demands
<1>8. QED
  BY <1>2, <1>4, <1>6, <1>7

(* The floor of the moment asks at least what was demanded. *)
LEMMA FloorAsksMore ==
    ASSUME Thresholds
    PROVE  /\ Floor.groups \in Nat /\ demanded.groups <= Floor.groups
           /\ demanded.required \subseteq Floor.required
           /\ Floor.groups > 0 => Floor.configured
           /\ Floor.configured => Floor.required # {}
<1>1. /\ demanded.groups \in Nat
      /\ Obligations.groups = demanded.groups
      /\ demanded.required \subseteq Obligations.required
      /\ Obligations.configured <=> \E f \in Demands : f.configured
  BY OwedIsDemanded
<1>2. CASE Policy = Nothing
  <2>1. Floor = Obligations
    BY <1>2 DEF Floor
  <2>2. Obligations.groups > 0 => Obligations.configured
    BY <1>1 DEF Thresholds, Sound
  <2>3. Obligations.configured => Obligations.required # {}
    <3>1. \A f \in Demands : f.configured => f.required # {}
      BY DEF Thresholds, Sound
    <3>2. \A f \in Demands : f.required \subseteq demanded.required
      BY DEF Thresholds
    <3>3. QED
      BY <1>1, <3>1, <3>2
  <2>4. QED
    BY <1>1, <2>1, <2>2, <2>3
<1>3. CASE Policy # Nothing
  <2>1. config \in Configs \ {Nothing} /\ Policy = config.policy
    BY <1>3 DEF Policy, Thresholds
  <2>2. Policy.required # {} /\ Policy.groups \in Nat \ {0}
    BY <1>3, <2>1, DeskConstants
  <2>3. /\ Floor.required = Obligations.required \cup Policy.required
        /\ Floor.groups = Largest({Obligations.groups, Policy.groups})
        /\ Floor.configured
    BY <1>3 DEF Floor
  <2>4. Floor.groups = IF demanded.groups <= Policy.groups THEN Policy.groups ELSE demanded.groups
    BY <1>1, <2>2, <2>3, LargestOfTwo
  <2>5. QED
    BY <1>1, <2>2, <2>3, <2>4
<1>4. QED
  BY <1>2, <1>3

(* The guard moves only with what is demanded. *)
LEMMA GuardMoves ==
    ASSUME (\E w \in Callers : Ask(w) \/ Progress(w)) \/ Around
    PROVE  /\ config' \in {config} \cup Configs
           /\ \/ UNCHANGED <<guard, demanded>>
              \/ \E used : RememberPolicy(used) /\ UNCHANGED <<config, reports>>
              \/ \E w \in Callers : InvestigateCommit(w)
<1>1. CASE Around
  BY <1>1
  DEF Around, Handoff, HandedOff, Resolve, Reopen, OtherCommand, Tick, Restart,
      serverVars, caseVars, reportVars
<1>2. ASSUME NEW w \in Callers, Ask(w)
      PROVE  config' = config /\ (\/ UNCHANGED <<guard, demanded>>
                                  \/ \E used : RememberPolicy(used) /\ UNCHANGED reports)
  <2>1. CASE \E k \in Keys : Collect(w, k)
    BY <2>1 DEF Collect, serverVars, caseVars
  <2>2. CASE \E i \in Investigations : Investigate(w, i)
    BY <2>2 DEF Investigate, InvestigateRead, serverVars, caseVars
  <2>3. CASE \E m \in Missions : MissionPlan(w, m) \/ MissionAgain(w, m)
    BY <2>3 DEF MissionPlan, MissionAgain, serverVars, caseVars, reportVars
  <2>4. QED
    BY <1>2, <2>1, <2>2, <2>3 DEF Ask
<1>3. ASSUME NEW w \in Callers, Progress(w)
      PROVE  config' = config /\ (\/ UNCHANGED <<guard, demanded>>
                                  \/ \E used : RememberPolicy(used) /\ UNCHANGED reports
                                  \/ InvestigateCommit(w))
  <2>1. CASE ReserveHit(w) \/ Reserve(w)
    BY <2>1 DEF ReserveHit, Reserve, serverVars, reportVars
  <2>2. CASE \/ ReserveReplay(w) \/ ReserveRefused(w) \/ Fetch(w) \/ FinishRead(w)
             \/ FinishRecord(w) \/ FinishConflict(w)
    BY <2>2
    DEF ReserveReplay, ReserveRefused, Fetch, FinishRead, FinishRecord, FinishConflict,
        serverVars, caseVars
  <2>3. CASE \/ InvestigateClaim(w) \/ InvestigateRefused(w) \/ AskPlanner(w)
             \/ InvestigateCommit(w) \/ InvestigateStale(w)
    BY <2>3
    DEF InvestigateClaim, InvestigateRefused, AskPlanner, InvestigateCommit, InvestigateStale,
        serverVars, caseVars
  <2>4. CASE \/ MissionCheck(w) \/ MissionStep(w) \/ MissionSources(w)
             \/ MissionInvestigate(w) \/ MissionHandoff(w)
    BY <2>4
    DEF MissionCheck, MissionStep, MissionSources, MissionInvestigate, MissionHandoff,
        InvestigateRead, HandedOff, serverVars, caseVars
  <2>5. QED
    BY <1>3, <2>1, <2>2, <2>3, <2>4 DEF Progress
<1>4. QED
  BY <1>1, <1>2, <1>3

(* A bundle is filed with the report it is of, at the floor of the moment. *)
LEMMA BundlesMove ==
    ASSUME CallsTyped, ReportsOnRecord, ReportsMove
    PROVE  \/ Bundles' = Bundles /\ \A w \in Callers : ~InvestigateCommit(w)
           \/ Bundles' = Bundles /\ UNCHANGED <<config, guard, demanded>>
           \/ Bundles' = Bundles \cup {Context} /\ Demand(Floor) /\ UNCHANGED <<config, guard>>
<1>0. /\ \A i \in Filed : i \in Filed' /\ reports'[i].bundle = reports[i].bundle
      /\ reports = [i \in Investigations |-> reports[i]]
      /\ Filed \subseteq Investigations
  BY ReportsFiledOnce DEF ReportsOnRecord, Filed
<1>1. CASE \E w \in Callers : InvestigateCommit(w)
  <2>1. PICK w \in Callers : InvestigateCommit(w)
    BY <1>1
  <2> DEFINE c == call[w]
             new == [basis |-> c.basis, bundle |-> c.bundle, handed |-> FALSE]
  <2>2. /\ reports' = [reports EXCEPT ![c.key] = new]
        /\ c.bundle # NoBundle => c.bundle = Context
        /\ IF c.bundle = NoBundle THEN UNCHANGED demanded ELSE Demand(c.bundle.floor)
        /\ UNCHANGED <<config, guard>>
        /\ c.key \in Investigations
    BY <2>1 DEF InvestigateCommit, StillStands, Doing, CallsTyped, CallTyped, Elsewhere, serverVars
  <2>3. new # NoReport /\ new.bundle = c.bundle
    BY DEF NoReport
  <2>4. c.key \notin Filed
    BY <2>1, <2>2 DEF InvestigateCommit, StillStands, ReportsOnRecord, ReportOfAttempt
  <2> HIDE DEF new
  <2>5. reports' = [i \in Investigations |-> IF i = c.key THEN new ELSE reports[i]]
    BY <1>0, <2>2
  <2>6. Filed' = Filed \cup {c.key}
    BY <2>2, <2>3, <2>5 DEF Filed
  <2>7. Bundles' = (Bundles \cup {c.bundle}) \ {NoBundle}
    <3>1. \A i \in Filed : reports'[i].bundle = reports[i].bundle
      BY <1>0
    <3>2. reports'[c.key].bundle = c.bundle
      BY <2>2, <2>3, <2>5
    <3>3. QED
      BY <2>6, <3>1, <3>2 DEF Bundles
  <2>8. CASE c.bundle = NoBundle
    BY <2>2, <2>7, <2>8 DEF Bundles
  <2>9. CASE c.bundle # NoBundle
    <3>1. Bundles' = Bundles \cup {Context}
      BY <2>2, <2>7, <2>9 DEF Bundles
    <3>2. Demand(Floor)
      BY <2>2, <2>9 DEF Context
    <3>3. QED
      BY <2>2, <3>1, <3>2
  <2>10. QED
    BY <2>8, <2>9
<1>2. CASE \A w \in Callers : ~InvestigateCommit(w)
  <2>1. Filed' = Filed
    <3>1. \A i \in Investigations : i \in Filed <=> attempts[i] = "COMPLETED"
      BY DEF ReportsOnRecord, ReportOfAttempt
    <3>2. \A i \in Investigations : i \in Filed' <=> attempts'[i] = "COMPLETED"
      BY ReportsFiledOnce DEF ReportOfAttempt
    <3>3. \A i \in Investigations : attempts'[i] = "COMPLETED" => attempts[i] = "COMPLETED"
      BY <1>2 DEF ReportsMove, InvestigateClaim, HandedOff, CallsTyped
    <3>4. QED
      BY <1>0, <3>1, <3>2, <3>3 DEF Filed
  <2>2. QED
    BY <1>0, <1>2, <2>1 DEF Bundles
<1>3. QED
  BY <1>1, <1>2

LEMMA ThresholdsStep ==
    ASSUME CallsTyped, ReportsOnRecord, Thresholds, [CallsNext]_callsVars
    PROVE  Thresholds'
<1>1. ReportsMove
  BY AllMove
<1>2. \/ UNCHANGED <<guard, demanded>> /\ config' \in Configs
      \/ \E used : RememberPolicy(used) /\ UNCHANGED <<config, reports>>
      \/ \E w \in Callers : InvestigateCommit(w)
  <2>1. CASE UNCHANGED deskVars
    BY <2>1 DEF deskVars, caseVars, Thresholds
  <2>2. QED
    BY <2>1, StepOfOneService, GuardMoves DEF callsVars, vars, Thresholds
<1>3. CASE Bundles' = Bundles /\ UNCHANGED <<guard, demanded>> /\ config' \in Configs
  <2>1. Demands' = Demands
    BY <1>3 DEF Demands
  <2>2. QED
    BY <1>3, <2>1 DEF Thresholds, Sound
<1>4. ASSUME NEW used, RememberPolicy(used), UNCHANGED <<config, reports>> PROVE Thresholds'
  <2> DEFINE required == Floor.required \cup used
  <2>1. /\ guard'.required = required
        /\ guard'.groups = Floor.groups
        /\ guard'.configured = Floor.configured
        /\ demanded' = [required |-> demanded.required \cup required,
                        groups |-> Largest({demanded.groups, Floor.groups})]
    BY <1>4 DEF RememberPolicy, Demand
  <2>2. /\ Floor.groups \in Nat /\ demanded.groups \in Nat /\ demanded.groups <= Floor.groups
        /\ demanded.required \subseteq Floor.required
        /\ Floor.groups > 0 => Floor.configured
        /\ Floor.configured => Floor.required # {}
    BY FloorAsksMore, OwedIsDemanded
  <2>3. demanded'.groups = Floor.groups /\ demanded'.required = required
    BY <2>1, <2>2, LargestOfTwo
  <2>4. Bundles' = Bundles
    BY <1>4 DEF Bundles, Filed
  <2>5. Demands' = {guard'} \cup {b.floor : b \in Bundles}
    BY <2>4 DEF Demands
  <2>6. \A f \in Demands' :
           Sound(f) /\ f.required \subseteq demanded'.required /\ f.groups <= demanded'.groups
    <3>1. ASSUME NEW b \in Bundles
          PROVE  /\ Sound(b.floor) /\ b.floor.required \subseteq demanded'.required
                 /\ b.floor.groups <= demanded'.groups
      <4>1. b.floor \in Demands
        BY DEF Demands
      <4>2. /\ Sound(b.floor) /\ b.floor.required \subseteq demanded.required
            /\ b.floor.groups <= demanded.groups
        BY <4>1 DEF Thresholds
      <4>3. b.floor.groups \in Nat
        BY <4>2 DEF Sound
      <4>4. QED
        BY <2>2, <2>3, <4>2, <4>3
    <3>2. Sound(guard')
      BY <2>1, <2>2 DEF Sound
    <3>3. /\ Sound(guard') /\ guard'.required \subseteq demanded'.required
          /\ guard'.groups <= demanded'.groups
      BY <2>1, <2>2, <2>3, <3>2
    <3> SUFFICES ASSUME NEW f \in Demands'
                 PROVE  /\ Sound(f) /\ f.required \subseteq demanded'.required
                        /\ f.groups <= demanded'.groups
      OBVIOUS
    <3>4. f = guard' \/ \E b \in Bundles : f = b.floor
      BY <2>5
    <3>5. QED
      BY <3>1, <3>3, <3>4
  <2>7. guard' \in Demands'
    BY <2>5
  <2>8. demanded' = [required |-> demanded'.required, groups |-> demanded'.groups]
    BY <2>1
  <2>9. config' \in Configs
    BY <1>4 DEF Thresholds
  <2> HIDE DEF required
  <2>10. QED
    BY <2>1, <2>3, <2>6, <2>7, <2>8, <2>9 DEF Thresholds
<1>5. CASE Bundles' = Bundles \cup {Context} /\ Demand(Floor) /\ UNCHANGED <<config, guard>>
  <2>1. demanded' = [required |-> demanded.required \cup Floor.required,
                     groups |-> Largest({demanded.groups, Floor.groups})]
    BY <1>5 DEF Demand
  <2>2. /\ Floor.groups \in Nat /\ demanded.groups \in Nat /\ demanded.groups <= Floor.groups
        /\ demanded.required \subseteq Floor.required
        /\ Floor.groups > 0 => Floor.configured
        /\ Floor.configured => Floor.required # {}
    BY FloorAsksMore, OwedIsDemanded
  <2>3. demanded'.groups = Floor.groups /\ demanded'.required = Floor.required
    BY <2>1, <2>2, LargestOfTwo
  <2>4. Demands' = Demands \cup {Floor}
    <3>1. Context.floor = Floor
      BY DEF Context
    <3>2. QED
      BY <1>5, <3>1 DEF Demands
  <2>5. ASSUME NEW f \in Demands
        PROVE  Sound(f) /\ f.required \subseteq demanded'.required /\ f.groups <= demanded'.groups
    <3>1. Sound(f) /\ f.required \subseteq demanded.required /\ f.groups <= demanded.groups
      BY DEF Thresholds
    <3>2. f.groups \in Nat
      BY <3>1 DEF Sound
    <3>3. QED
      BY <2>2, <2>3, <3>1, <3>2
  <2>6. Sound(Floor) /\ Floor.groups <= demanded'.groups
    BY <2>2, <2>3 DEF Sound
  <2>7. demanded' = [required |-> demanded'.required, groups |-> demanded'.groups]
    BY <2>1
  <2>8. config' \in Configs
    BY <1>5 DEF Thresholds
  <2>9. QED
    BY <2>3, <2>4, <2>5, <2>6, <2>7, <2>8 DEF Thresholds
<1>6. QED
  <2>1. CASE \A w \in Callers : ~InvestigateCommit(w)
    <3>1. CASE Bundles' = Bundles
      BY <1>2, <1>3, <1>4, <2>1, <3>1
    <3>2. QED
      BY <1>1, <1>5, <3>1, BundlesMove
  <2>2. CASE ~\A w \in Callers : ~InvestigateCommit(w)
    <3>1. CASE Bundles' = Bundles /\ UNCHANGED <<config, guard, demanded>>
      BY <1>3, <3>1 DEF Thresholds
    <3>2. QED
      BY <1>1, <1>5, <2>2, <3>1, BundlesMove
  <2>3. QED
    BY <2>1, <2>2

LEMMA ThresholdsBegin == CallsStart => Thresholds
<1> SUFFICES ASSUME CallsStart PROVE Thresholds
  OBVIOUS
<1>1. /\ config \in Configs
      /\ guard = IF Policy = Nothing THEN NoGuard
                 ELSE [required |-> Policy.required, groups |-> Policy.groups,
                       configured |-> TRUE, named |-> Policy.required]
      /\ demanded = [required |-> guard.required, groups |-> guard.groups]
      /\ reports = [i \in Investigations |-> NoReport]
  BY DEF CallsStart, Init
<1>2. Demands = {guard}
  BY <1>1 DEF Demands, Bundles, Filed
<1>3. Sound(guard)
  <2>1. CASE Policy = Nothing
    BY <1>1, <2>1 DEF NoGuard, Sound
  <2>2. CASE Policy # Nothing
    <3>1. config \in Configs \ {Nothing} /\ Policy = config.policy
      BY <1>1, <2>2 DEF Policy
    <3>2. Policy.required # {} /\ Policy.groups \in Nat \ {0}
      BY <2>2, <3>1, DeskConstants
    <3>3. QED
      BY <1>1, <2>2, <3>2 DEF Sound
  <2>3. QED
    BY <2>1, <2>2
<1>4. QED
  BY <1>1, <1>2, <1>3 DEF Thresholds, Sound

(* What a case owes never falls below what any plan, read or report asked  *)
(* of it, through restarts under other policies or none: it is held by the *)
(* guard and the bundles of its reports, which only grow (remember_policy, *)
(* obligations).                                                           *)
THEOREM ObligationsNeverFall == CallsSpec => []ObligationsStand
<1> DEFINE Inv == CallsTyped /\ ReportsOnRecord /\ Thresholds
<1>1. CallsStart => Inv
  BY Begins, ReportsBegin, ThresholdsBegin
<1>2. Inv /\ [CallsNext]_callsVars => Inv'
  BY AllSteps, ReportsStep, ThresholdsStep
<1>3. Inv => ObligationsStand
  BY OwedIsDemanded DEF ObligationsStand
<1>4. QED
  BY <1>1, <1>2, <1>3, PTL DEF CallsSpec

-----------------------------------------------------------------------------
(* What a step may do to time, to the case, to plans and to revisions, and *)
(* which steps move a read that is under way.                              *)
FrameMoves ==
    /\ clock' = clock \/ (clock < MaxTime /\ clock' = clock + 1)
    /\ restarts' = restarts \/ (restarts < MaxRestarts /\ restarts' = restarts + 1)
    /\ \/ case' = case
       \/ /\ case.open /\ case.version < MaxVersion
          /\ case' = [version |-> case.version + 1, open |-> FALSE]
       \/ /\ ~case.open /\ case.version < MaxVersion
          /\ case' = [version |-> case.version + 1, open |-> TRUE]
    /\ fresh' \subseteq fresh \cup Callers
    /\ \/ plans' = plans
       \/ \E m \in Missions :
            /\ Nothing \notin {PlannedSpecs(m)[s] : s \in DOMAIN PlannedSpecs(m)}
            /\ plans' = [plans EXCEPT ![m] = [version |-> case.version, specs |-> PlannedSpecs(m)]]
    /\ \/ requests' = requests
       \/ \E w \in Callers : ReserveHit(w) \/ Reserve(w) \/ FinishRecord(w)

Reader(v) ==
    \/ call'[v] = call[v]
    \/ call'[v] = Idle
    \/ call[v].at \notin {"fetch", "finish", "record"}
    \/ Fetch(v) \/ FinishRead(v) \/ FinishConflict(v) \/ FinishRecord(v)

LEMMA OneReaderMoves ==
    ASSUME CallsTyped, NEW w \in Callers, NEW c, Goto(w, c), Reader(w)
    PROVE  \A v \in Callers : Reader(v)
  BY DEF CallsTyped, Goto, Reader

LEMMA DeskFrames ==
    ASSUME CallsTyped, (\E w \in Callers : Ask(w) \/ Progress(w)) \/ Around
    PROVE  FrameMoves /\ \A v \in Callers : Reader(v)
<1>1. CASE Around
  <2>1. ASSUME NEW i \in Investigations, Handoff(i) \/ Resolve(i)
        PROVE  FrameMoves /\ \A v \in Callers : Reader(v)
    BY <2>1 DEF Handoff, HandedOff, Resolve, ValidReport, Writes, FrameMoves, Reader,
                serverVars, caseVars, readVars, reportVars
  <2>2. CASE Reopen \/ OtherCommand \/ Tick
    BY <2>2 DEF Reopen, OtherCommand, Tick, Writes, FrameMoves, Reader,
                serverVars, caseVars, readVars, reportVars
  <2>3. ASSUME NEW c \in Configs, Restart(c)
        PROVE  FrameMoves /\ \A v \in Callers : Reader(v)
    BY <2>3 DEF Restart, FrameMoves, Reader, caseVars, readVars, reportVars
  <2>4. QED
    BY <1>1, <2>1, <2>2, <2>3 DEF Around
<1>2. ASSUME NEW w \in Callers, Ask(w) PROVE FrameMoves /\ \A v \in Callers : Reader(v)
  <2>1. Reader(w) /\ \E c : Goto(w, c)
    BY <1>2 DEF Ask, Collect, Investigate, InvestigateRead, MissionPlan, MissionAgain, Doing, Reader
  <2>2. ASSUME \E k \in Keys : Collect(w, k)
        PROVE  FrameMoves
    BY <2>2 DEF Collect, Reads, FrameMoves, serverVars, caseVars, readVars, reportVars
  <2>3. ASSUME \E i \in Investigations : Investigate(w, i)
        PROVE  FrameMoves
    BY <2>3 DEF Investigate, InvestigateRead, FrameMoves, serverVars, caseVars, readVars, reportVars
  <2>4. ASSUME \E m \in Missions : MissionPlan(w, m) \/ MissionAgain(w, m)
        PROVE  FrameMoves
    BY <2>4 DEF MissionPlan, MissionAgain, Writes, FrameMoves, serverVars, caseVars, readVars, reportVars
  <2>5. QED
    BY <1>2, <2>1, <2>2, <2>3, <2>4, OneReaderMoves DEF Ask
<1>3. ASSUME NEW w \in Callers, Progress(w) PROVE FrameMoves /\ \A v \in Callers : Reader(v)
  <2>1. Reader(w)
    BY <1>3
    DEF Progress, ReserveReplay, ReserveHit, Reserve, ReserveRefused, InvestigateClaim,
        InvestigateRefused, AskPlanner, InvestigateCommit, InvestigateStale, MissionCheck,
        MissionStep, MissionSources, MissionInvestigate, MissionHandoff, Doing, Reader
  <2>2. ASSUME ReserveReplay(w) \/ ReserveHit(w) \/ Reserve(w) \/ ReserveRefused(w)
        PROVE  FrameMoves
    BY <2>2 DEF ReserveReplay, ReserveHit, Reserve, ReserveRefused, Writes, FrameMoves,
                serverVars, caseVars, readVars, reportVars
  <2>3. ASSUME Fetch(w) \/ FinishRead(w) \/ FinishRecord(w) \/ FinishConflict(w)
        PROVE  FrameMoves
    BY <2>3 DEF Fetch, FinishRead, FinishRecord, FinishConflict, Reads, Writes, FrameMoves,
                serverVars, caseVars, readVars, reportVars
  <2>4. ASSUME \/ InvestigateClaim(w) \/ InvestigateRefused(w) \/ AskPlanner(w)
               \/ InvestigateCommit(w) \/ InvestigateStale(w)
        PROVE  FrameMoves
    BY <2>4 DEF InvestigateClaim, InvestigateRefused, AskPlanner, InvestigateCommit,
                InvestigateStale, Writes, FrameMoves, serverVars, caseVars, readVars, reportVars
  <2>5. ASSUME \/ MissionCheck(w) \/ MissionStep(w) \/ MissionSources(w)
               \/ MissionInvestigate(w) \/ MissionHandoff(w)
        PROVE  FrameMoves
    BY <2>5 DEF MissionCheck, MissionStep, MissionSources, MissionInvestigate, MissionHandoff,
                InvestigateRead, HandedOff, Reads, Writes, FrameMoves,
                serverVars, caseVars, readVars, reportVars
  <2>6. \E c : Goto(w, c)
    BY <1>3
    DEF Progress, ReserveReplay, ReserveHit, Reserve, ReserveRefused, Fetch, FinishRead,
        FinishRecord, FinishConflict, InvestigateClaim, InvestigateRefused, AskPlanner,
        InvestigateCommit, InvestigateStale, MissionCheck, MissionStep, MissionSources,
        MissionInvestigate, InvestigateRead, MissionHandoff, Return
  <2>7. QED
    BY <1>3, <2>1, <2>2, <2>3, <2>4, <2>5, <2>6, OneReaderMoves DEF Progress
<1>4. QED
  BY <1>1, <1>2, <1>3

LEMMA OtherFrames ==
    ASSUME CallsTyped, UNCHANGED deskVars,
           \/ \E w \in Callers : AnchorAsk(w) \/ AnchorProgress(w)
           \/ (\E a \in Anchors : PrepareAnchor(a)) \/ ChainMoves
           \/ \E w \in Callers : ReviewAsk(w) \/ ReviewProgress(w)
           \/ \E r \in Reviewed : PrepareReview(r)
           \/ \E w \in Callers : IngressAsk(w) \/ IngressProgress(w)
    PROVE  FrameMoves /\ \A v \in Callers : Reader(v)
<1>1. UNCHANGED <<restarts, case, plans, requests>>
  BY DEF deskVars, caseVars, readVars, reportVars
<1>2. clock' = clock
  BY OthersMove
<1>3. CASE (\E a \in Anchors : PrepareAnchor(a)) \/ ChainMoves \/ (\E r \in Reviewed : PrepareReview(r))
  BY <1>1, <1>2, <1>3
  DEF PrepareAnchor, ChainMoves, Mine, Reorganize, PrepareReview, Writes, FrameMoves, Reader
<1>4. ASSUME NEW w \in Callers, AnchorAsk(w) \/ AnchorProgress(w)
      PROVE  FrameMoves /\ \A v \in Callers : Reader(v)
  <2>1. Reader(w) /\ (\E c : Goto(w, c)) /\ fresh' \subseteq fresh \cup Callers
    BY <1>4
    DEF AnchorAsk, AnchorProgress, VerifyAnchor, VerifyReceipt, VerifyTransaction, VerifyCanonical,
        VerifyHeight, VerifyRecord, Answered, Doing, Reads, Writes, Reader
  <2>2. QED
    BY <1>1, <1>2, <2>1, OneReaderMoves DEF FrameMoves
<1>5. ASSUME NEW w \in Callers, ReviewAsk(w) \/ ReviewProgress(w)
      PROVE  FrameMoves /\ \A v \in Callers : Reader(v)
  <2>1. Reader(w) /\ (\E c : Goto(w, c)) /\ fresh' \subseteq fresh \cup Callers
    BY <1>5
    DEF ReviewAsk, ReviewProgress, VerifyReview, AskHistory, RecordReview, Doing, Reads, Writes, Reader
  <2>2. QED
    BY <1>1, <1>2, <2>1, OneReaderMoves DEF FrameMoves
<1>6. ASSUME NEW w \in Callers, IngressAsk(w) \/ IngressProgress(w)
      PROVE  FrameMoves /\ \A v \in Callers : Reader(v)
  <2>1. Reader(w) /\ (\E c : Goto(w, c)) /\ fresh' \subseteq fresh \cup Callers
    BY <1>6
    DEF IngressAsk, IngressProgress, Deliver, IngestRead, IngestKnown, Ingest, IngestConflict,
        Doing, Reads, Writes, Reader
  <2>2. QED
    BY <1>1, <1>2, <2>1, OneReaderMoves DEF FrameMoves
<1>7. QED
  BY <1>3, <1>4, <1>5, <1>6

LEMMA AllFrames ==
    ASSUME CallsTyped, [CallsNext]_callsVars
    PROVE  FrameMoves /\ \A v \in Callers : Reader(v)
<1>1. CASE UNCHANGED callsVars
  BY <1>1 DEF callsVars, vars, deskVars, caseVars, readVars, reportVars, FrameMoves, Reader
<1>2. CASE CallsNext
  BY <1>2, StepOfOneService, DeskFrames, OtherFrames
<1>3. QED
  BY <1>1, <1>2

-----------------------------------------------------------------------------
(* What TypeOK needs to be inductive: a read under way is of the request   *)
(* it reserved, and has looked at the clock before now.                    *)
DeskTyped ==
    /\ clock \in 0..MaxTime /\ restarts \in 0..MaxRestarts
    /\ case = [version |-> case.version, open |-> (case.version % 2 = 1)]
    /\ case.version \in 1..MaxVersion
    /\ plans = [m \in Missions |-> plans[m]]
    /\ \A m \in Missions : plans[m] # Nothing =>
         Nothing \notin {plans[m].specs[s] : s \in DOMAIN plans[m].specs}
    /\ fresh \subseteq Callers

ReadBy(r, now) == r.fetched \in 0..now /\ r.facts \in Facts \cup {Nothing}

ReadsTyped ==
    /\ \A k \in Requested :
         requests[k].state \in {"OBSERVED", "FAILED", "STALE"} => ReadBy(requests[k], clock)
    /\ \A s \in Sources : newest[s] # Nothing =>
         /\ newest[s] \in Requested
         /\ heads[s].state = requests[newest[s]].state
         /\ heads[s].version = requests[newest[s]].version
    /\ \A w \in Callers :
         /\ call[w].at \in {"fetch", "finish", "record"} =>
              call[w].key \in Requested /\ requests[call[w].key].version = call[w].version
         /\ call[w].at \in {"finish", "record"} => ReadBy(call[w], clock)

LEMMA DeskTypedStep ==
    ASSUME CallsTyped, DeskTyped, [CallsNext]_callsVars
    PROVE  DeskTyped'
<1>0. FrameMoves /\ {MaxTime, MaxRestarts, MaxVersion} \subseteq Nat
  BY AllFrames, DeskConstants
<1>1. clock' \in 0..MaxTime /\ restarts' \in 0..MaxRestarts /\ fresh' \subseteq Callers
  BY <1>0 DEF FrameMoves, DeskTyped
<1>2. /\ case' = [version |-> case'.version, open |-> (case'.version % 2 = 1)]
      /\ case'.version \in 1..MaxVersion
  <2> DEFINE n == case.version
  <2>1. n \in 1..MaxVersion /\ (case.open <=> n % 2 = 1)
    <3>1. ASSUME NEW r, NEW v, NEW o, r = [version |-> v, open |-> o] PROVE r.open = o
      BY <3>1
    <3>2. case.open = (n % 2 = 1)
      BY <3>1, Zenon DEF DeskTyped
    <3>3. n \in 1..MaxVersion
      BY DEF DeskTyped
    <3>4. QED
      BY <3>2, <3>3, Zenon
  <2>2. CASE case' = case
    BY <2>2 DEF DeskTyped
  <2>3. CASE case.open /\ n < MaxVersion /\ case' = [version |-> n + 1, open |-> FALSE]
    <3>1. case'.version = n + 1 /\ n + 1 \in 1..MaxVersion
      BY <1>0, <2>1, <2>3
    <3>2. ~((n + 1) % 2 = 1)
      BY <2>1, <2>3
    <3>3. ((n + 1) % 2 = 1) = FALSE
      BY <3>2, Zenon
    <3>4. QED
      BY <2>3, <3>1, <3>3, Zenon
  <2>4. CASE ~case.open /\ n < MaxVersion /\ case' = [version |-> n + 1, open |-> TRUE]
    <3>1. case'.version = n + 1 /\ n + 1 \in 1..MaxVersion
      BY <1>0, <2>1, <2>4
    <3>2. (n + 1) % 2 = 1
      BY <2>1, <2>4
    <3>3. ((n + 1) % 2 = 1) = TRUE
      BY <3>2, Zenon
    <3>4. QED
      BY <2>4, <3>1, <3>3, Zenon
  <2>5. QED
    BY <1>0, <2>2, <2>3, <2>4 DEF FrameMoves
<1>3. /\ plans' = [m \in Missions |-> plans'[m]]
      /\ \A m \in Missions : plans'[m] # Nothing =>
           Nothing \notin {plans'[m].specs[s] : s \in DOMAIN plans'[m].specs}
  <2>1. CASE plans' = plans
    BY <2>1 DEF DeskTyped
  <2>2. ASSUME NEW p \in Missions,
               Nothing \notin {PlannedSpecs(p)[s] : s \in DOMAIN PlannedSpecs(p)},
               plans' = [plans EXCEPT ![p] = [version |-> case.version, specs |-> PlannedSpecs(p)]]
        PROVE  /\ plans' = [m \in Missions |-> plans'[m]]
               /\ \A m \in Missions : plans'[m] # Nothing =>
                    Nothing \notin {plans'[m].specs[s] : s \in DOMAIN plans'[m].specs}
    <3> DEFINE specs == PlannedSpecs(p)
               new == [version |-> case.version, specs |-> specs]
    <3>1. Nothing \notin {specs[s] : s \in DOMAIN specs}
      BY <2>2
    <3>2. new.specs = specs /\ plans' = [plans EXCEPT ![p] = new]
      BY <2>2
    <3> HIDE DEF specs, new
    <3>3. plans' = [m \in Missions |-> IF m = p THEN new ELSE plans[m]]
      BY <3>2 DEF DeskTyped
    <3>4. QED
      BY <3>1, <3>2, <3>3 DEF DeskTyped
  <2>3. QED
    BY <1>0, <2>1, <2>2 DEF FrameMoves
<1>4. QED
  BY <1>1, <1>2, <1>3 DEF DeskTyped

(* How a read goes on. *)
LEMMA ReadersStep ==
    ASSUME CallsTyped, [CallsNext]_callsVars, \A w \in Callers : ~Reserve(w),
           NEW v \in Callers, call'[v].at \in {"fetch", "finish", "record"}
    PROVE  /\ call[v].at \in {"fetch", "finish", "record"}
           /\ call'[v] = call[v] \/ Fetch(v) \/ FinishRead(v) \/ FinishConflict(v)
<1>1. Reader(v)
  BY AllFrames
<1>2. ~FinishRecord(v) /\ call'[v] # Idle
  BY DEF FinishRecord, Return, Goto, CallsTyped, Idle
<1>3. call[v].at \in {"fetch", "finish", "record"}
  <2>1. CASE Untold
    BY <2>1 DEF Untold, Calm, Quiet
  <2>2. ASSUME NEW w \in Callers, Fetch(w) \/ FinishRecord(w) PROVE <1>3
    BY <1>2, <2>2 DEF Fetch, FinishRecord, Return, Goto, Doing, CallsTyped
  <2>3. ASSUME NEW w \in Callers, InvestigateClaim(w) \/ AskPlanner(w) PROVE <1>3
    <3>1. CallTyped(call[w]) /\ call[w].at \in {"claim", "ask"}
      BY <2>3 DEF InvestigateClaim, AskPlanner, Doing, CallsTyped
    <3>2. Goto(w, [call[w] EXCEPT !.at = "ask"]) \/ Goto(w, [call[w] EXCEPT !.at = "commit"])
      BY <2>3 DEF InvestigateClaim, AskPlanner
    <3>3. /\ \A u \in Callers : u # w => call'[u] = call[u]
          /\ call'[w].at \in {"ask", "commit"}
      BY <3>1, <3>2 DEF CallsTyped, Goto, CallTyped, Elsewhere
    <3>4. QED
      BY <3>3
  <2>4. QED
    BY <2>1, <2>2, <2>3, AllSteps DEF Telling
<1>4. QED
  BY <1>1, <1>2, <1>3 DEF Reader

LEMMA ReadsTypedStep ==
    ASSUME CallsTyped, DeskTyped, HeadsNewest, ReadsTyped, [CallsNext]_callsVars
    PROVE  ReadsTyped'
<1>0. /\ clock \in Nat /\ clock' \in Nat /\ clock <= clock'
      /\ \A r : ReadBy(r, clock) => ReadBy(r, clock')
  <2>1. clock \in Nat /\ clock' \in Nat /\ clock <= clock'
    BY AllFrames, DeskConstants DEF FrameMoves, DeskTyped
  <2>2. QED
    BY <2>1 DEF ReadBy
<1>1. /\ requests = [k \in Keys |-> requests[k]]
      /\ heads = [s \in Sources |-> heads[s]]
      /\ newest = [s \in Sources |-> newest[s]]
      /\ call = [w \in Callers |-> call[w]]
      /\ \A w \in Callers : CallTyped(call[w])
      /\ \A s \in Sources : newest[s] # Nothing =>
           /\ heads[s] = [version |-> heads[s].version, request |-> newest[s],
                          state |-> heads[s].state]
           /\ newest[s] \in Keys /\ SourceOf(newest[s]) = s
      /\ \A w \in Callers : call[w].at \in {"fetch", "finish", "record"} =>
           newest[SourceOf(call[w].key)] # Nothing
  BY DEF CallsTyped, HeadsNewest
<1>2. ASSUME NEW w \in Callers, Reserve(w) PROVE ReadsTyped'
  <2> DEFINE c == call[w]
             k == c.key
             s == SourceOf(k)
             new == [state |-> "PENDING", version |-> case.version, spec |-> SpecOf(s)]
             head == [version |-> case.version, request |-> k, state |-> "PENDING"]
  <2>1. /\ requests' = [requests EXCEPT ![k] = new]
        /\ heads' = [heads EXCEPT ![s] = head]
        /\ newest' = [newest EXCEPT ![s] = k]
        /\ requests[k] = NoRequest /\ c.at = "reserve" /\ c.version = case.version
        /\ Goto(w, [c EXCEPT !.at = "fetch"])
    BY <1>2 DEF Reserve, MayReserve, Doing
  <2>2. k \in Keys /\ s \in Sources
    BY <1>1, <2>1, DeskConstants DEF CallTyped, Elsewhere, SourceOf
  <2>3. call'[w].at = "fetch" /\ call'[w].key = k /\ call'[w].version = case.version
    BY <1>1, <2>1 DEF CallTyped, Elsewhere, Goto
  <2>4. \A v \in Callers : v # w => call'[v] = call[v]
    BY <1>1, <2>1 DEF Goto
  <2>5. /\ new.state = "PENDING" /\ new.version = case.version
        /\ head.state = "PENDING" /\ head.version = case.version
    OBVIOUS
  <2> HIDE DEF new, head, s, k
  <2>6. /\ \A j \in Keys : requests'[j] = IF j = k THEN new ELSE requests[j]
        /\ \A t \in Sources : heads'[t] = IF t = s THEN head ELSE heads[t]
        /\ \A t \in Sources : newest'[t] = IF t = s THEN k ELSE newest[t]
    BY <1>1, <2>1, <2>2
  <2>7. k \notin Requested /\ Requested' = Requested \cup {k}
    BY <2>1, <2>2, <2>5, <2>6 DEF Requested, NoRequest
  <2>8. \A j \in Requested : j \in Keys /\ j # k /\ requests'[j] = requests[j]
    BY <2>6, <2>7 DEF Requested
  <2>9. \A j \in Requested' : requests'[j].state \in {"OBSERVED", "FAILED", "STALE"}
                                => ReadBy(requests'[j], clock')
    BY <1>0, <2>2, <2>5, <2>6, <2>7, <2>8 DEF ReadsTyped
  <2>10. ASSUME NEW t \in Sources, newest'[t] # Nothing
         PROVE  /\ newest'[t] \in Requested'
                /\ heads'[t].state = requests'[newest'[t]].state
                /\ heads'[t].version = requests'[newest'[t]].version
    BY <2>2, <2>5, <2>6, <2>7, <2>8, <2>10 DEF ReadsTyped
  <2>11. ASSUME NEW v \in Callers
         PROVE  /\ call'[v].at \in {"fetch", "finish", "record"} =>
                     call'[v].key \in Requested' /\ requests'[call'[v].key].version = call'[v].version
                /\ call'[v].at \in {"finish", "record"} => ReadBy(call'[v], clock')
    <3>1. CASE v = w
      BY <2>2, <2>3, <2>5, <2>6, <2>7, <3>1
    <3>2. CASE v # w
      BY <1>0, <2>4, <2>7, <2>8, <3>2 DEF ReadsTyped
    <3>3. QED
      BY <3>1, <3>2
  <2>12. QED
    BY <2>9, <2>10, <2>11 DEF ReadsTyped
<1>3. ASSUME NEW w \in Callers, FinishRecord(w) PROVE ReadsTyped'
  <2> DEFINE c == call[w]
             k == c.key
             s == SourceOf(k)
             mine == heads[s].request = k
             stale == case.version # c.version \/ ~case.open \/ ~mine
             state == IF stale THEN "STALE" ELSE IF c.facts = Nothing THEN "FAILED" ELSE "OBSERVED"
             new == [state |-> state, version |-> c.version, spec |-> requests[k].spec,
                     facts |-> c.facts, fetched |-> c.fetched]
  <2>1. /\ requests' = [requests EXCEPT ![k] = new]
        /\ heads' = IF mine THEN [heads EXCEPT ![s].state = state] ELSE heads
        /\ newest' = newest /\ c.at = "record"
    BY <1>3 DEF FinishRecord, Recorded, Doing
  <2>2. /\ k \in Requested /\ k \in Keys /\ s \in Sources
        /\ requests[k].version = c.version /\ ReadBy(c, clock)
        /\ newest[s] # Nothing
    BY <1>1, <2>1, DeskConstants DEF ReadsTyped, Requested, SourceOf
  <2>3. /\ new.state = state /\ new.version = c.version
        /\ new.facts = c.facts /\ new.fetched = c.fetched
        /\ state \in {"OBSERVED", "FAILED", "STALE"}
    OBVIOUS
  <2>4. \A v \in Callers : v # w => call'[v] = call[v]
    BY <1>1, <1>3 DEF FinishRecord, Return, Goto
  <2>5. call'[w].at \in {"step", "idle"}
    BY <1>1, <1>3 DEF FinishRecord, Return, Goto, Idle
  <2> HIDE DEF new, state, stale, s, k
  <2>6. \A j \in Keys : requests'[j] = IF j = k THEN new ELSE requests[j]
    BY <1>1, <2>1, <2>2
  <2>7. Requested' = Requested
    BY <2>2, <2>3, <2>6 DEF Requested
  <2>8. \A j \in Requested' : requests'[j].state \in {"OBSERVED", "FAILED", "STALE"}
                                => ReadBy(requests'[j], clock')
    <3>1. ReadBy(new, clock')
      BY <1>0, <2>2, <2>3 DEF ReadBy
    <3>2. ASSUME NEW j \in Requested, requests'[j].state \in {"OBSERVED", "FAILED", "STALE"}
          PROVE  ReadBy(requests'[j], clock')
      <4>1. j \in Keys
        BY DEF Requested
      <4>2. CASE j = k
        BY <2>6, <3>1, <4>1, <4>2 DEF ReadBy
      <4>3. CASE j # k
        BY <1>0, <2>6, <3>2, <4>1, <4>3 DEF ReadsTyped, ReadBy
      <4>4. QED
        BY <4>2, <4>3
    <3>3. QED
      BY <2>7, <3>2
  <2>9. ASSUME NEW t \in Sources, newest'[t] # Nothing
        PROVE  /\ newest'[t] \in Requested'
               /\ heads'[t].state = requests'[newest'[t]].state
               /\ heads'[t].version = requests'[newest'[t]].version
    <3>0. /\ newest[t] \in Requested /\ newest[t] \in Keys /\ SourceOf(newest[t]) = t
          /\ heads[t] = [version |-> heads[t].version, request |-> newest[t],
                         state |-> heads[t].state]
          /\ heads[t].state = requests[newest[t]].state
          /\ heads[t].version = requests[newest[t]].version
          /\ newest'[t] = newest[t]
      BY <1>1, <2>1, <2>9 DEF ReadsTyped
    <3>1. CASE newest[t] = k
      <4>1. t = s /\ mine
        BY <3>0, <3>1 DEF s
      <4>2. heads' = [heads EXCEPT ![s].state = state]
        BY <2>1, <4>1
      <4>3. heads'[s].state = state /\ heads'[s].version = heads[s].version
        <5>1. heads'[s] = [heads[s] EXCEPT !.state = state]
          BY <1>1, <2>2, <4>2
        <5>2. QED
          BY <3>0, <4>1, <5>1
      <4>4. QED
        BY <2>2, <2>3, <2>6, <2>7, <3>0, <3>1, <4>1, <4>3
    <3>2. CASE newest[t] # k
      <4>1. heads'[t] = heads[t]
        <5>1. CASE mine
          <6>1. t # s
            BY <3>0, <3>2, <5>1
          <6>2. QED
            BY <1>1, <2>1, <5>1, <6>1
        <5>2. CASE ~mine
          BY <2>1, <5>2
        <5>3. QED
          BY <5>1, <5>2
      <4>2. QED
        BY <2>6, <2>7, <3>0, <3>2, <4>1
    <3>3. QED
      BY <3>1, <3>2
  <2>10. ASSUME NEW v \in Callers
         PROVE  /\ call'[v].at \in {"fetch", "finish", "record"} =>
                     call'[v].key \in Requested' /\ requests'[call'[v].key].version = call'[v].version
                /\ call'[v].at \in {"finish", "record"} => ReadBy(call'[v], clock')
    <3>1. CASE v = w
      BY <2>5, <3>1
    <3>2. CASE v # w
      <4>1. call'[v] = call[v]
        BY <2>4, <3>2
      <4>2. \A j \in Requested : j \in Keys
        BY DEF Requested
      <4>3. \A j \in Requested : requests'[j].version = requests[j].version
        BY <2>2, <2>3, <2>6, <4>2
      <4>4. QED
        BY <1>0, <2>7, <4>1, <4>3 DEF ReadsTyped, ReadBy
    <3>3. QED
      BY <3>1, <3>2
  <2>11. QED
    BY <2>8, <2>9, <2>10 DEF ReadsTyped
<1>4. ASSUME \A w \in Callers : ~Reserve(w) /\ ~FinishRecord(w) PROVE ReadsTyped'
  <2>1. /\ Requested' = Requested /\ UNCHANGED <<heads, newest>>
        /\ \A k \in Requested : requests'[k] = requests[k]
    <3>1. \A k \in Requested : requests'[k] = requests[k]
      <4>1. ASSUME NEW w \in Callers, ReserveHit(w), NEW k \in Requested
            PROVE  requests'[k] = requests[k]
        BY <1>1, <4>1 DEF ReserveHit, Requested, NoRequest
      <4>2. QED
        BY <1>4, <4>1, AllFrames DEF FrameMoves
    <3>2. CASE Untold
      BY <3>1, <3>2 DEF Untold
    <3>3. ASSUME NEW w \in Callers, Fetch(w) \/ InvestigateClaim(w) \/ AskPlanner(w)
          PROVE  Requested' = Requested /\ UNCHANGED <<heads, newest>>
      BY <3>3 DEF Fetch, InvestigateClaim, AskPlanner, readVars, Requested
    <3>4. QED
      BY <1>4, <3>1, <3>2, <3>3, AllSteps DEF Telling
  <2>2. ASSUME NEW v \in Callers, call'[v].at \in {"fetch", "finish", "record"}
        PROVE  /\ call'[v].key \in Requested /\ requests[call'[v].key].version = call'[v].version
               /\ call'[v].at \in {"finish", "record"} => ReadBy(call'[v], clock')
    <3> DEFINE c == call[v]
    <3>1. /\ c.at \in {"fetch", "finish", "record"}
          /\ call'[v] = c \/ Fetch(v) \/ FinishRead(v) \/ FinishConflict(v)
      BY <1>4, <2>2, ReadersStep
    <3>2. /\ c.key \in Requested /\ requests[c.key].version = c.version
          /\ c.at \in {"finish", "record"} => ReadBy(c, clock)
          /\ CallTyped(c)
      BY <1>1, <3>1 DEF ReadsTyped
    <3>3. CASE call'[v] = c
      BY <1>0, <3>1, <3>2, <3>3 DEF ReadBy
    <3>4. CASE Fetch(v)
      <4>1. PICK answer \in Facts \cup {Nothing} :
              call'[v] = [at |-> "finish", key |-> c.key, version |-> c.version,
                          mission |-> c.mission, step |-> c.step,
                          facts |-> answer, fetched |-> clock, tries |-> 0]
        BY <1>1, <3>4 DEF Fetch, Goto
      <4>2. QED
        BY <1>0, <3>2, <4>1 DEF ReadBy
    <3>5. CASE FinishRead(v) \/ FinishConflict(v)
      <4>1. c.at \in {"finish", "record"}
        BY <3>5 DEF FinishRead, FinishConflict, Doing
      <4>2. /\ call'[v].key = c.key /\ call'[v].version = c.version
            /\ call'[v].facts = c.facts /\ call'[v].fetched = c.fetched
        <5>1. \/ call'[v] = [c EXCEPT !.at = "record"]
              \/ call'[v] = [c EXCEPT !.at = "finish", !.tries = @ + 1]
          BY <1>1, <2>2, <3>5 DEF FinishRead, FinishConflict, Goto, Idle
        <5>2. QED
          BY <3>2, <4>1, <5>1 DEF CallTyped, Elsewhere
      <4>3. QED
        BY <1>0, <3>2, <4>1, <4>2 DEF ReadBy
    <3>6. QED
      BY <3>1, <3>3, <3>4, <3>5
  <2>3. \A k \in Requested' : requests'[k].state \in {"OBSERVED", "FAILED", "STALE"}
                                => ReadBy(requests'[k], clock')
    BY <1>0, <2>1 DEF ReadsTyped, ReadBy
  <2>4. QED
    BY <2>1, <2>2, <2>3 DEF ReadsTyped
<1>5. QED
  BY <1>2, <1>3, <1>4

(* All of it together. *)
DeskInv ==
    /\ CallsTyped /\ HeadsNewest /\ ReportsOnRecord
    /\ Thresholds /\ DeskTyped /\ ReadsTyped

LEMMA DeskInvBegins == CallsStart => DeskInv
<1> SUFFICES ASSUME CallsStart PROVE DeskInv
  OBVIOUS
<1>1. /\ CallsTyped /\ ReportsOnRecord /\ Thresholds
      /\ \A w \in Callers : call[w].at = "idle"
  BY Begins, ReportsBegin, ThresholdsBegin DEF CallsStart, Init, CallsInit, Idle
<1>2. HeadsNewest
  BY <1>1 DEF CallsStart, Init, HeadsNewest
<1>3. DeskTyped
  <2>1. /\ clock = 0 /\ restarts = 0 /\ fresh = {}
        /\ case = [version |-> 1, open |-> TRUE]
        /\ plans = [m \in Missions |-> Nothing]
    BY DEF CallsStart, Init, CallsInit
  <2>2. case.version = 1 /\ MaxVersion \in Nat \ {0} /\ MaxTime \in Nat /\ MaxRestarts \in Nat
    BY <2>1, DeskConstants
  <2>3. case = [version |-> case.version, open |-> (case.version % 2 = 1)]
    <3>1. 1 % 2 = 1
      OBVIOUS
    <3>2. (1 % 2 = 1) = TRUE
      BY <3>1, Zenon
    <3>3. QED
      BY <2>1, <2>2, <3>2, Zenon
  <2>4. QED
    BY <2>1, <2>2, <2>3 DEF DeskTyped
<1>4. ReadsTyped
  <2>1. Requested = {}
    BY DEF CallsStart, Init, Requested, NoRequest
  <2>2. \A s \in Sources : newest[s] = Nothing
    BY DEF CallsStart, Init
  <2>3. QED
    BY <1>1, <2>1, <2>2 DEF ReadsTyped
<1>5. QED
  BY <1>1, <1>2, <1>3, <1>4 DEF DeskInv

LEMMA DeskInvKept == DeskInv /\ [CallsNext]_callsVars => DeskInv'
  BY AllSteps, HeadsStep, ReportsStep, ThresholdsStep, DeskTypedStep, ReadsTypedStep DEF DeskInv

(* Everything the desk keeps together stays together, whatever callers,    *)
(* restarts and other services do: a head tells what its request tells, a  *)
(* receipt is from before now, a report completes its attempt (collect's   *)
(* reserve and finish, investigate).                                       *)
THEOREM DeskTypeCorrect == CallsSpec => []TypeOK
<1>1. ASSUME DeskInv PROVE TypeOK
  <2>1. /\ clock \in 0..MaxTime /\ restarts \in 0..MaxRestarts
        /\ config \in Configs /\ fresh \subseteq Callers
        /\ case.version \in 1..MaxVersion
    BY <1>1 DEF DeskInv, DeskTyped, Thresholds
  <2>2. case.open = (case.version % 2 = 1)
    <3>1. ASSUME NEW r, NEW v, NEW o, r = [version |-> v, open |-> o] PROVE r.open = o
      BY <3>1
    <3>2. QED
      BY <1>1, <3>1, Zenon DEF DeskInv, DeskTyped
  <2>3. \A k \in Requested :
           requests[k].state \in {"OBSERVED", "FAILED", "STALE"} =>
               requests[k].fetched \in 0..clock /\ requests[k].facts \in Facts \cup {Nothing}
    BY <1>1 DEF DeskInv, ReadsTyped, ReadBy
  <2>4. ASSUME NEW s \in Sources, heads[s] # Nothing
        PROVE  /\ heads[s].request \in Requested /\ SourceOf(heads[s].request) = s
               /\ heads[s].state = requests[heads[s].request].state
               /\ heads[s].version = requests[heads[s].request].version
    <3>1. newest[s] # Nothing /\ heads[s].request = newest[s] /\ SourceOf(newest[s]) = s
      BY <1>1, <2>4 DEF DeskInv, HeadsNewest
    <3>2. QED
      BY <1>1, <3>1 DEF DeskInv, ReadsTyped
  <2>5. \A i \in Investigations : i \in Filed <=> attempts[i] = "COMPLETED"
    BY <1>1 DEF DeskInv, ReportsOnRecord, ReportOfAttempt
  <2>6. \A m \in Missions : plans[m] # Nothing =>
           Nothing \notin {plans[m].specs[s] : s \in DOMAIN plans[m].specs}
    BY <1>1 DEF DeskInv, DeskTyped
  <2>7. QED
    BY <2>1, <2>2, <2>3, <2>4, <2>5, <2>6 DEF TypeOK
<1>2. QED
  BY <1>1, DeskInvBegins, DeskInvKept, PTL DEF CallsSpec

-----------------------------------------------------------------------------
(* What a valid report rests on. *)
Live ==
    {k \in {newest[s] : s \in demanded.required} \ {Nothing} :
        /\ requests[k].state = "OBSERVED"
        /\ requests[k].version = case.version
        /\ requests[k].spec = SpecOf(SourceOf(k))
        /\ clock < requests[k].fetched + TTL}

(* Where nothing is owed, nothing was demanded. *)
LEMMA NothingOwed ==
    ASSUME DeskInv, ~HasObligations
    PROVE  demanded.required = {} /\ demanded.groups = 0
<1>1. /\ demanded.groups \in Nat /\ demanded.required \subseteq Obligations.required
      /\ Obligations.configured <=> \E f \in Demands : f.configured
  BY OwedIsDemanded DEF DeskInv
<1>2. PICK f \in Demands : demanded.groups = f.groups
  BY DEF DeskInv, Thresholds
<1>3. f.groups > 0 => f.configured
  BY DEF DeskInv, Thresholds, Sound
<1>4. QED
  BY <1>1, <1>2, <1>3 DEF HasObligations

(* An accepted receipt is of the newest request for its source. *)
LEMMA AcceptedAreNewest ==
    ASSUME DeskInv, NEW k \in Accepted
    PROVE  /\ k \in Keys /\ SourceOf(k) \in Sources /\ k = newest[SourceOf(k)] /\ k # Nothing
           /\ requests[k].state = "OBSERVED" /\ requests[k].version = case.version
           /\ requests[k].spec = SpecOf(SourceOf(k))
           /\ clock < requests[k].fetched + TTL
<1>1. PICK s \in Heads : Usable(s) /\ k = heads[s].request
  BY DEF Accepted
<1>2. s \in Sources /\ heads[s] # Nothing
  BY DEF Heads
<1>3. k = newest[s] /\ k \in Keys /\ SourceOf(k) = s
  BY <1>1, <1>2 DEF DeskInv, HeadsNewest
<1>4. k # Nothing
  BY <1>3, DeskConstants
<1>5. QED
  BY <1>1, <1>2, <1>3, <1>4 DEF Usable

(* Whatever was ever demanded is there, live and without contradiction,    *)
(* when a report is valid.                                                 *)
LEMMA ValidReportsRestOnEvidence ==
    ASSUME DeskInv, NEW i \in Filed, ValidReport(i)
    PROVE  /\ demanded.required \subseteq {SourceOf(k) : k \in Live}
           /\ Cardinality({requests[k].spec : k \in Live}) >= demanded.groups
           /\ \A j, k \in Live : Command[j].resource = Command[k].resource =>
                                     requests[j].facts = requests[k].facts
<1>1. CASE ~HasObligations
  <2>1. demanded.required = {} /\ demanded.groups = 0
    BY <1>1, NothingOwed
  <2>2. Live = {}
    BY <2>1 DEF Live
  <2>3. {requests[k].spec : k \in Live} = {}
    BY <2>2
  <2>4. Cardinality({requests[k].spec : k \in Live}) = 0
    BY <2>3, FS_EmptySet
  <2>5. QED
    BY <2>1, <2>2, <2>4
<1>2. CASE HasObligations
  <2>1. External /\ Covered /\ reports[i].bundle = Context
    BY <1>2 DEF ValidReport, DeskAnswers, External
  <2>2. Floor.required = demanded.required /\ Floor.groups = demanded.groups
    <3>1. Context # NoBundle /\ Context.floor = Floor
      <4> DEFINE v == case.version
                 p == Policy
                 f == Floor
                 a == Accepted
                 r == Heads \ Got
      <4>1. Context = [version |-> v, policy |-> p, floor |-> f, receipts |-> a, rejected |-> r]
        BY DEF Context
      <4> HIDE DEF v, p, f, a, r
      <4>2. Context # NoBundle /\ Context.floor = f
        BY <4>1 DEF NoBundle
      <4>3. QED
        BY <4>2 DEF f
    <3>2. Context \in Bundles
      BY <2>1, <3>1 DEF Bundles
    <3>3. Floor \in Demands
      BY <3>1, <3>2 DEF Demands
    <3>4. Floor.required \subseteq demanded.required /\ Floor.groups <= demanded.groups
      BY <3>3 DEF DeskInv, Thresholds
    <3>5. /\ Floor.groups \in Nat /\ demanded.groups \in Nat /\ demanded.groups <= Floor.groups
          /\ demanded.required \subseteq Floor.required
      BY FloorAsksMore, OwedIsDemanded DEF DeskInv
    <3>6. Floor.required = demanded.required
      BY <3>4, <3>5
    <3> DEFINE m == Floor.groups
               n == demanded.groups
    <3>7. m \in Nat /\ n \in Nat /\ m <= n /\ n <= m
      BY <3>4, <3>5
    <3> HIDE DEF m, n
    <3>8. m = n
      BY <3>7
    <3>9. QED
      BY <3>6, <3>8 DEF m, n
  <2>3. Conflicting = {} /\ Floor.required \subseteq Got
    BY <2>1 DEF Covered
  <2>4. Live = {k \in Accepted : SourceOf(k) \in demanded.required}
    <3>1. ASSUME NEW k \in Accepted, SourceOf(k) \in demanded.required PROVE k \in Live
      BY <3>1, AcceptedAreNewest DEF Live
    <3>2. ASSUME NEW k \in Live PROVE k \in Accepted /\ SourceOf(k) \in demanded.required
      <4>1. PICK s \in demanded.required : k = newest[s]
        BY DEF Live
      <4>2. PICK j \in Accepted : s = SourceOf(j)
        BY <2>2, <2>3 DEF Got
      <4>3. j = newest[s]
        BY <4>2, AcceptedAreNewest
      <4>4. QED
        BY <4>1, <4>2, <4>3
    <3>3. QED
      BY <3>1, <3>2
  <2>5. demanded.required \subseteq {SourceOf(k) : k \in Live}
    BY <2>2, <2>3, <2>4 DEF Got
  <2>6. Cardinality({requests[k].spec : k \in Live}) >= demanded.groups
    <3>1. CASE Floor.required = {}
      <4>1. Live = {}
        BY <2>2, <2>4, <3>1
      <4>2. {requests[k].spec : k \in Live} = {}
        BY <4>1
      <4>3. Cardinality({requests[k].spec : k \in Live}) = 0
        BY <4>2, FS_EmptySet
      <4>4. /\ Floor.groups \in Nat
            /\ Floor.groups > 0 => Floor.configured
            /\ Floor.configured => Floor.required # {}
        BY FloorAsksMore DEF DeskInv
      <4>5. QED
        <5>1. Floor.groups = 0
          BY <3>1, <4>4
        <5>2. QED
          BY <2>2, <4>3, <5>1
    <3>2. CASE Floor.required # {}
      <4> DEFINE relevant == {k \in Accepted : SourceOf(k) \in Floor.required}
      <4>1. Cardinality({requests[k].spec : k \in relevant}) >= Floor.groups
        BY <2>1, <3>2 DEF Covered
      <4>2. Live = relevant
        BY <2>2, <2>4
      <4> HIDE DEF relevant
      <4>3. {requests[k].spec : k \in Live} = {requests[k].spec : k \in relevant}
        BY <4>2
      <4>4. QED
        BY <2>2, <4>1, <4>3
    <3>3. QED
      BY <3>1, <3>2
  <2>7. ASSUME NEW j \in Live, NEW k \in Live, Command[j].resource = Command[k].resource
        PROVE  requests[j].facts = requests[k].facts
    BY <2>3, <2>4, <2>7 DEF Conflicting
  <2>8. QED
    BY <2>5, <2>6, <2>7
<1>3. QED
  BY <1>1, <1>2

(* A case is resolved, and a report handed off, on a valid report only. *)
LEMMA CaseMoves ==
    ASSUME (\E w \in Callers : Ask(w) \/ Progress(w)) \/ Around
    PROVE  case' = case \/ Reopen \/ \E i \in Investigations : Resolve(i)
<1>1. CASE Around
  BY <1>1 DEF Around, Handoff, HandedOff, OtherCommand, Tick, Restart, caseVars
<1>2. ASSUME NEW w \in Callers, Ask(w) PROVE case' = case
  BY <1>2 DEF Ask, Collect, Investigate, InvestigateRead, MissionPlan, MissionAgain, caseVars
<1>3. ASSUME NEW w \in Callers, Progress(w) PROVE case' = case
  <2>1. CASE \/ ReserveReplay(w) \/ ReserveHit(w) \/ Reserve(w) \/ ReserveRefused(w)
             \/ Fetch(w) \/ FinishRead(w) \/ FinishRecord(w) \/ FinishConflict(w)
    BY <2>1 DEF ReserveReplay, ReserveHit, Reserve, ReserveRefused, Fetch, FinishRead,
                FinishRecord, FinishConflict, caseVars
  <2>2. CASE \/ InvestigateClaim(w) \/ InvestigateRefused(w) \/ AskPlanner(w)
             \/ InvestigateCommit(w) \/ InvestigateStale(w)
    BY <2>2 DEF InvestigateClaim, InvestigateRefused, AskPlanner, InvestigateCommit,
                InvestigateStale, caseVars
  <2>3. CASE \/ MissionCheck(w) \/ MissionStep(w) \/ MissionSources(w)
             \/ MissionInvestigate(w) \/ MissionHandoff(w)
    BY <2>3 DEF MissionCheck, MissionStep, MissionSources, MissionInvestigate,
                InvestigateRead, MissionHandoff, HandedOff, caseVars
  <2>4. QED
    BY <1>3, <2>1, <2>2, <2>3 DEF Progress
<1>4. QED
  BY <1>1, <1>2, <1>3

LEMMA DecidedByReport ==
    ASSUME DeskInv, [CallsNext]_callsVars, Decided
    PROVE  \E i \in Filed : ValidReport(i)
<1>1. CASE case.open /\ ~case'.open
  <2>1. CallsNext /\ case' # case
    BY <1>1 DEF callsVars, vars, deskVars, caseVars
  <2>2. ~UNCHANGED deskVars
    BY <2>1 DEF deskVars, caseVars
  <2>3. (\E w \in Callers : Ask(w) \/ Progress(w)) \/ Around
    BY <2>1, <2>2, StepOfOneService
  <2>4. PICK i \in Investigations : Resolve(i)
    BY <1>1, <2>1, <2>3, CaseMoves DEF Reopen
  <2>5. QED
    BY <2>4 DEF Resolve
<1>2. ASSUME NEW i \in Filed, reports'[i].handed # reports[i].handed
      PROVE  \E h \in Filed : ValidReport(h)
  <2>1. ReportsMove
    BY AllMove DEF DeskInv
  <2>2. ASSUME NEW w \in Callers, InvestigateCommit(w) PROVE FALSE
    <3>1. call[w].key \notin Filed
      BY <2>2 DEF InvestigateCommit, StillStands, DeskInv, ReportsOnRecord, ReportOfAttempt, Filed
    <3>2. reports'[i] = reports[i]
      BY <2>2, <3>1 DEF InvestigateCommit, DeskInv, ReportsOnRecord, Filed
    <3>3. QED
      BY <1>2, <3>2
  <2>3. ASSUME NEW w \in Callers, InvestigateClaim(w) PROVE FALSE
    BY <1>2, <2>3 DEF InvestigateClaim
  <2>4. QED
    BY <1>2, <2>1, <2>2, <2>3 DEF ReportsMove
<1>3. QED
  BY <1>1, <1>2 DEF Decided

(* A report is handed off, and a case resolved, only on present evidence   *)
(* of all that was ever demanded for the case (validate_report), for every *)
(* number of callers, sources, missions, restarts and configurations.      *)
THEOREM DecisionsRestOnEvidence == CallsSpec => DecidedOnEvidence
<1>1. DeskInv /\ [CallsNext]_callsVars
        => [Decided =>
             LET live == {k \in {newest[s] : s \in demanded.required} \ {Nothing} :
                             /\ requests[k].state = "OBSERVED"
                             /\ requests[k].version = case.version
                             /\ requests[k].spec = SpecOf(SourceOf(k))
                             /\ clock < requests[k].fetched + TTL}
             IN  /\ demanded.required \subseteq {SourceOf(k) : k \in live}
                 /\ Cardinality({requests[k].spec : k \in live}) >= demanded.groups
                 /\ \A j, k \in live : Command[j].resource = Command[k].resource =>
                                           requests[j].facts = requests[k].facts]_vars
  <2>1. ASSUME DeskInv, [CallsNext]_callsVars, Decided
        PROVE  /\ demanded.required \subseteq {SourceOf(k) : k \in Live}
               /\ Cardinality({requests[k].spec : k \in Live}) >= demanded.groups
               /\ \A j, k \in Live : Command[j].resource = Command[k].resource =>
                                         requests[j].facts = requests[k].facts
    BY <2>1, DecidedByReport, ValidReportsRestOnEvidence
  <2>2. QED
    BY <2>1 DEF Live
<1>2. QED
  BY <1>1, DeskInvBegins, DeskInvKept, PTL DEF CallsSpec, DecidedOnEvidence
-----------------------------------------------------------------------------
(* What implementing the evidence log needs besides: a read under way is   *)
(* of a pending request, which nobody else is reading; what is about to be *)
(* recorded has been asked, and about an open case; and a head is never    *)
(* taken for none.                                                         *)
UnderWay ==
    \A w \in Callers :
      /\ call[w].at \in {"fetch", "finish", "record"} =>
           /\ requests[call[w].key].state = "PENDING"
           /\ \A v \in Callers : call[v].at \in {"fetch", "finish", "record"}
                                 /\ call[v].key = call[w].key => v = w
      /\ call[w].at \in {"finish", "record", "commit"} => asked[call[w].key] = 1
      /\ call[w].at \in {"ask", "commit"} => call[w].basis.open = TRUE

AnswersAsked ==
    \A i \in Investigations :
      /\ attempts[i] \in {"NONE", "PENDING", "COMPLETED"}
      /\ attempts[i] = "COMPLETED" => asked[i] = 1

HeadsReal == \A s \in Sources : newest[s] # Nothing => heads[s] \in SourceHead

LogInv == DeskInv /\ AskedForGood /\ UnderWay /\ AnswersAsked /\ HeadsReal

(* A caller reads because it read before or has just reserved, and has an  *)
(* answer because it had one or has just asked.                            *)
LEMMA ReadersMove ==
    ASSUME CallsTyped, [CallsNext]_callsVars, NEW v \in Callers
    PROVE  /\ call'[v].at \in {"fetch", "finish", "record"} =>
                /\ call[v].at \in {"fetch", "finish", "record"} \/ Reserve(v)
                /\ call'[v].key = call[v].key
           /\ call'[v].at \in {"finish", "record"} =>
                call[v].at \in {"finish", "record"} \/ Fetch(v)
<1> DEFINE c == call[v]
           d == call'[v]
<1>0. CallTyped(c)
  BY DEF CallsTyped
<1>1. CASE Untold
  <2>1. Quiet(c, d)
    BY <1>1 DEF Untold, Calm
  <2>2. Reader(v)
    BY AllFrames
  <2>3. FinishRead(v) \/ FinishConflict(v) \/ FinishRecord(v) => c.at \in {"finish", "record"}
    BY DEF FinishRead, FinishConflict, FinishRecord, Doing
  <2>4. Idle.at = "idle"
    BY DEF Idle
  <2>5. QED
    BY <2>1, <2>2, <2>3, <2>4 DEF Quiet, Reader
<1>2. ASSUME NEW w \in Callers, Telling(w), v # w PROVE d = c
  BY <1>2 DEF Telling, Reserve, Fetch, FinishRecord, InvestigateClaim, AskPlanner, Return,
              Goto, CallsTyped
<1>3. CASE Reserve(v)
  <2>1. c.at = "reserve" /\ d = [c EXCEPT !.at = "fetch"]
    BY <1>3 DEF Reserve, Doing, Goto, CallsTyped
  <2>2. c = [at |-> c.at, key |-> c.key, version |-> c.version,
             mission |-> c.mission, step |-> c.step]
    BY <1>0, <2>1 DEF CallTyped, Elsewhere
  <2> HIDE DEF c
  <2>3. d = [at |-> "fetch", key |-> c.key, version |-> c.version,
             mission |-> c.mission, step |-> c.step]
    BY <2>1, <2>2
  <2>4. d.at = "fetch" /\ d.key = c.key
    BY <2>3
  <2>5. QED
    BY <1>3, <2>4 DEF c
<1>4. CASE Fetch(v)
  <2>1. c.at = "fetch" /\ d.at = "finish" /\ d.key = c.key
    BY <1>4 DEF Fetch, Doing, Goto, CallsTyped
  <2>2. QED
    BY <1>4, <2>1
<1>5. CASE FinishRecord(v)
  <2> DEFINE onward == [at |-> "step", mission |-> c.mission, step |-> c.step + 1]
  <2>1. d = onward \/ d = Idle
    BY <1>5 DEF FinishRecord, Return, Goto, CallsTyped
  <2>2. onward.at = "step" /\ Idle.at = "idle"
    BY DEF Idle
  <2> HIDE DEF onward
  <2>3. QED
    BY <2>1, <2>2
<1>6. CASE InvestigateClaim(v) \/ AskPlanner(v)
  <2>1. "at" \in DOMAIN c
    BY <1>0, <1>6 DEF InvestigateClaim, AskPlanner, Doing, CallTyped, Elsewhere
  <2>2. d = [c EXCEPT !.at = "ask"] \/ d = [c EXCEPT !.at = "commit"]
    BY <1>6 DEF InvestigateClaim, AskPlanner, Goto, CallsTyped
  <2> HIDE DEF c
  <2>3. d.at \in {"ask", "commit"}
    BY <2>1, <2>2
  <2>4. QED
    BY <2>3
<1>7. QED
  <2>1. ASSUME NEW w \in Callers, Telling(w), v # w
        PROVE  /\ d.at \in {"fetch", "finish", "record"} =>
                    /\ c.at \in {"fetch", "finish", "record"} \/ Reserve(v)
                    /\ d.key = c.key
               /\ d.at \in {"finish", "record"} => c.at \in {"finish", "record"} \/ Fetch(v)
    BY <1>2, <2>1
  <2>2. QED
    BY <1>1, <1>3, <1>4, <1>5, <1>6, <2>1, AllSteps DEF Telling

(* The same of questions to the planner.                                   *)
LEMMA AskersMove ==
    ASSUME CallsTyped, ReportsOnRecord, [CallsNext]_callsVars, NEW v \in Callers
    PROVE  /\ call'[v].at = "ask" =>
                \/ call'[v] = call[v]
                \/ InvestigateClaim(v) /\ call'[v].basis = call[v].basis
           /\ call'[v].at = "commit" =>
                \/ call'[v] = call[v]
                \/ /\ AskPlanner(v)
                   /\ call'[v].key = call[v].key /\ call'[v].basis = call[v].basis
<1> DEFINE c == call[v]
           d == call'[v]
<1>0. CallsMove /\ CallTyped(c)
  BY AllMove DEF CallsTyped
<1>1. ASSUME NEW i \in Investigations, NEW m \in Missions \cup {Nothing}, InvestigateRead(v, i, m)
      PROVE  d.at \notin {"ask", "commit"}
  <2> DEFINE claim == [at |-> "claim", key |-> i, mission |-> m, basis |-> Basis,
                       bundle |-> IF External THEN Context ELSE NoBundle]
             report == [at |-> "report", mission |-> m]
  <2>1. d = Idle \/ d = report \/ d = claim
    BY <1>1 DEF InvestigateRead, Goto, CallsTyped
  <2>2. Idle.at = "idle" /\ report.at = "report" /\ claim.at = "claim"
    BY DEF Idle
  <2> HIDE DEF claim, report
  <2>3. QED
    BY <2>1, <2>2
<1>2. CASE InvestigateClaim(v) \/ AskPlanner(v)
  <2> DEFINE to(at) == [at |-> at, key |-> c.key, mission |-> c.mission,
                        basis |-> c.basis, bundle |-> c.bundle]
  <2>1. c = to(c.at)
    BY <1>0, <1>2 DEF InvestigateClaim, AskPlanner, Doing, CallTyped, Elsewhere
  <2>2. \/ InvestigateClaim(v) /\ d = [c EXCEPT !.at = "ask"]
        \/ AskPlanner(v) /\ d = [c EXCEPT !.at = "commit"]
    BY <1>2 DEF InvestigateClaim, AskPlanner, Goto, CallsTyped
  <2> HIDE DEF c
  <2>3. [c EXCEPT !.at = "ask"] = to("ask") /\ [c EXCEPT !.at = "commit"] = to("commit")
    BY <2>1
  <2>4. \A at : to(at).at = at /\ to(at).key = c.key /\ to(at).basis = c.basis
    OBVIOUS
  <2>5. \/ InvestigateClaim(v) /\ d = to("ask")
        \/ AskPlanner(v) /\ d = to("commit")
    BY <2>2, <2>3
  <2> HIDE DEF to
  <2>6. \/ InvestigateClaim(v) /\ d.at = "ask" /\ d.key = c.key /\ d.basis = c.basis
        \/ AskPlanner(v) /\ d.at = "commit" /\ d.key = c.key /\ d.basis = c.basis
    BY <2>4, <2>5
  <2>7. QED
    BY <2>6 DEF c
<1>3. CASE InvestigateRefused(v) \/ InvestigateCommit(v)
  <2> DEFINE report == [at |-> "report", mission |-> c.mission]
  <2>1. d = Idle \/ d = report
    BY <1>3 DEF InvestigateRefused, InvestigateCommit, Goto, CallsTyped
  <2>2. Idle.at = "idle" /\ report.at = "report"
    BY DEF Idle
  <2> HIDE DEF report
  <2>3. QED
    BY <2>1, <2>2
<1>4. QED
  BY <1>0, <1>1, <1>2, <1>3 DEF CallsMove

(* Who asks is the only one to move: a request stays pending until it is   *)
(* recorded, by the caller who read it.                                    *)
LEMMA PendingStep ==
    ASSUME CallsTyped, UnderWay, [CallsNext]_callsVars, NEW w \in Callers,
           call'[w].at \in {"fetch", "finish", "record"}
    PROVE  /\ requests'[call'[w].key].state = "PENDING"
           /\ \A v \in Callers : call'[v].at \in {"fetch", "finish", "record"}
                                 /\ call'[v].key = call'[w].key => v = w
<1> DEFINE Under(v) == call[v].at \in {"fetch", "finish", "record"}
           Under1(v) == call'[v].at \in {"fetch", "finish", "record"}
<1>1. \A v \in Callers : Under1(v) =>
         (Under(v) \/ Reserve(v)) /\ call'[v].key = call[v].key
  BY ReadersMove
<1>2. \A v \in Callers : Under(v) =>
         call[v].key \in Keys /\ requests[call[v].key].state = "PENDING"
  BY KeysApart DEF UnderWay
<1>3. \A u, v \in Callers : Under(u) /\ Under(v) /\ call[u].key = call[v].key => u = v
  BY DEF UnderWay
<1>4. requests = [k \in Keys |-> requests[k]]
  BY DEF CallsTyped
<1>5. ASSUME NEW u \in Callers, Reserve(u)
      PROVE  /\ requests[call[u].key].state = "NONE" /\ call[u].key \in Keys
             /\ requests'[call[u].key].state = "PENDING"
             /\ \A k \in Keys : k # call[u].key => requests'[k] = requests[k]
             /\ \A v \in Callers : Under1(v) => Under(v) \/ v = u
  <2>1. call[u].key \in Keys
    BY <1>5, KeysApart DEF Reserve, Doing
  <2>2. \A v \in Callers : v # u => call'[v] = call[v]
    BY <1>5 DEF Reserve, Goto, CallsTyped
  <2>3. QED
    BY <1>4, <1>5, <2>1, <2>2 DEF Reserve, NoRequest
<1>6. ASSUME NEW u \in Callers, FinishRecord(u)
      PROVE  /\ Under(u) /\ ~Under1(u)
             /\ \A k \in Keys : k # call[u].key => requests'[k] = requests[k]
             /\ \A v \in Callers : Under1(v) => Under(v)
  <2> DEFINE onward == [at |-> "step", mission |-> call[u].mission, step |-> call[u].step + 1]
  <2>1. call'[u] = onward \/ call'[u] = Idle
    BY <1>6 DEF FinishRecord, Return, Goto, CallsTyped
  <2>2. onward.at = "step" /\ Idle.at = "idle"
    BY DEF Idle
  <2>3. \A v \in Callers : v # u => call'[v] = call[v]
    BY <1>6 DEF FinishRecord, Return, Goto, CallsTyped
  <2>4. \A k \in Keys : k # call[u].key => requests'[k] = requests[k]
    BY <1>4, <1>6 DEF FinishRecord, Recorded
  <2>5. Under(u)
    BY <1>6 DEF FinishRecord, Doing
  <2> HIDE DEF onward
  <2>6. QED
    BY <2>1, <2>2, <2>3, <2>4, <2>5
<1>7. ASSUME NEW u \in Callers, ReserveHit(u)
      PROVE  \A k \in Keys : requests[k].state = "PENDING" => requests'[k] = requests[k]
  BY <1>4, <1>7 DEF ReserveHit, NoRequest
<1> HIDE DEF Under, Under1
<1>8. CASE \E u \in Callers : Reserve(u)
  <2>1. PICK u \in Callers : Reserve(u)
    BY <1>8
  <2>2. \A v \in Callers : Under(v) => call[v].key # call[u].key
    BY <1>2, <1>5, <2>1
  <2>3. QED
    BY <1>1, <1>2, <1>3, <1>5, <2>1, <2>2 DEF Under1
<1>9. CASE \E u \in Callers : FinishRecord(u)
  <2>1. PICK u \in Callers : FinishRecord(u)
    BY <1>9
  <2>2. QED
    BY <1>1, <1>2, <1>3, <1>6, <2>1 DEF Under1
<1>10. CASE ~(\E u \in Callers : Reserve(u)) /\ ~(\E u \in Callers : FinishRecord(u))
  <2>1. requests' = requests \/ \E u \in Callers : ReserveHit(u)
    BY <1>10, AllFrames DEF FrameMoves
  <2>2. \A k \in Keys : requests[k].state = "PENDING" => requests'[k] = requests[k]
    BY <1>7, <2>1
  <2>3. QED
    BY <1>1, <1>2, <1>3, <1>10, <2>2 DEF Under1
<1>11. QED
  BY <1>8, <1>9, <1>10

(* A question is counted once, and nothing is ever un-asked.               *)
LEMMA AskedMoves ==
    ASSUME CallsTyped, AskedForGood, [CallsNext]_callsVars
    PROVE  /\ \A k \in Keys \cup Investigations : asked[k] = 1 => asked'[k] = 1
           /\ \A w \in Callers : Fetch(w) \/ AskPlanner(w) => asked'[call[w].key] = 1
<1>1. ASSUME NEW w \in Callers, Fetch(w) \/ AskPlanner(w)
      PROVE  /\ asked[call[w].key] = 0 /\ call[w].key \in Keys \cup Investigations
             /\ asked' = [asked EXCEPT ![call[w].key] = 1]
  <2>1. asked[call[w].key] = 0
    BY <1>1 DEF Fetch, AskPlanner, Doing, AskedForGood, OneReads, OneAsks
  <2>2. call[w].key \in Keys \cup Investigations
    BY <1>1, KeysApart DEF Fetch, AskPlanner, Doing
  <2>3. asked' = [asked EXCEPT ![call[w].key] = @ + 1]
    BY <1>1 DEF Fetch, AskPlanner
  <2>4. QED
    BY <2>1, <2>2, <2>3
<1>2. asked = [k \in Keys \cup Investigations |-> asked[k]]
  BY DEF AskedForGood, AskedTyped
<1>3. asked' = asked \/ \E w \in Callers : Fetch(w) \/ AskPlanner(w)
  BY AllSteps DEF Untold, Telling, Reserve, FinishRecord, InvestigateClaim
<1>4. QED
  BY <1>1, <1>2, <1>3

LEMMA OpenIsSaid ==
    ASSUME DeskTyped
    PROVE  /\ case.open \in BOOLEAN
           /\ Basis.open = case.open
<1>1. ASSUME NEW r, NEW v, NEW o, r = [version |-> v, open |-> o] PROVE r.open = o
  BY <1>1
<1>2. case.open = (case.version % 2 = 1)
  BY <1>1, Zenon DEF DeskTyped
<1>3. ASSUME NEW r, NEW v, NEW o, NEW h, r = [version |-> v, open |-> o, heads |-> h]
      PROVE  r.open = o
  BY <1>3
<1>4. Basis.open = case.open
  BY <1>3, Zenon DEF Basis
<1>5. QED
  BY <1>2, <1>4, Zenon

LEMMA UnderWayStep ==
    ASSUME DeskInv, AskedForGood, UnderWay, [CallsNext]_callsVars
    PROVE  UnderWay'
<1>0. CallsTyped /\ ReportsOnRecord /\ DeskTyped
  BY DEF DeskInv
<1>1. ASSUME NEW w \in Callers, call'[w].at \in {"finish", "record", "commit"}
      PROVE  asked'[call'[w].key] = 1
  <2>1. CASE call'[w].at \in {"finish", "record"}
    <3>1. /\ call[w].at \in {"finish", "record"} \/ Fetch(w)
          /\ call'[w].key = call[w].key
      BY <1>0, <2>1, ReadersMove
    <3>2. call[w].at \in {"finish", "record"} => asked[call[w].key] = 1 /\ call[w].key \in Keys
      BY <1>0, KeysApart DEF UnderWay
    <3>3. QED
      BY <1>0, <3>1, <3>2, AskedMoves
  <2>2. CASE call'[w].at = "commit"
    <3>1. \/ call'[w] = call[w]
          \/ AskPlanner(w) /\ call'[w].key = call[w].key
      BY <1>0, <2>2, AskersMove
    <3>2. call[w].at = "commit" => asked[call[w].key] = 1 /\ call[w].key \in Investigations
      BY <1>0 DEF UnderWay, CallsTyped, CallTyped, Elsewhere
    <3>3. QED
      BY <1>0, <2>2, <3>1, <3>2, AskedMoves
  <2>3. QED
    BY <1>1, <2>1, <2>2
<1>2. ASSUME NEW w \in Callers, call'[w].at \in {"ask", "commit"}
      PROVE  call'[w].basis.open = TRUE
  <2>1. CASE InvestigateClaim(w) /\ call'[w].basis = call[w].basis
    <3>1. case.open /\ call[w].basis = Basis
      BY <2>1 DEF InvestigateClaim
    <3>2. case.open = TRUE
      BY <1>0, <3>1, OpenIsSaid, Zenon
    <3>3. Basis.open = TRUE
      BY <1>0, <3>2, OpenIsSaid, Zenon
    <3>4. QED
      BY <2>1, <3>1, <3>3, Zenon
  <2>2. CASE AskPlanner(w) /\ call'[w].basis = call[w].basis
    <3>1. call[w].basis.open = TRUE
      BY <2>2 DEF AskPlanner, Doing, UnderWay
    <3>2. QED
      BY <2>2, <3>1, Zenon
  <2>3. CASE call'[w] = call[w]
    BY <1>2, <2>3 DEF UnderWay
  <2>4. QED
    BY <1>0, <1>2, <2>1, <2>2, <2>3, AskersMove
<1>3. QED
  BY <1>0, <1>1, <1>2, PendingStep DEF UnderWay

LEMMA AnswersAskedStep ==
    ASSUME DeskInv, AskedForGood, UnderWay, AnswersAsked, [CallsNext]_callsVars
    PROVE  AnswersAsked'
<1>0. CallsTyped /\ ReportsOnRecord /\ attempts = [i \in Investigations |-> attempts[i]]
  BY DEF DeskInv, CallsTyped
<1>1. \A i \in Investigations : asked[i] = 1 => asked'[i] = 1
  BY <1>0, AskedMoves
<1>2. CASE UNCHANGED attempts
  BY <1>1, <1>2 DEF AnswersAsked
<1>3. ASSUME NEW w \in Callers, InvestigateClaim(w) PROVE AnswersAsked'
  <2>1. attempts' = [attempts EXCEPT ![call[w].key] = "PENDING"]
    BY <1>3 DEF InvestigateClaim
  <2>2. QED
    BY <1>0, <1>1, <2>1 DEF AnswersAsked
<1>4. ASSUME NEW w \in Callers, InvestigateCommit(w) PROVE AnswersAsked'
  <2>1. attempts' = [attempts EXCEPT ![call[w].key] = "COMPLETED"]
    BY <1>4 DEF InvestigateCommit
  <2>2. asked[call[w].key] = 1
    BY <1>4 DEF InvestigateCommit, Doing, UnderWay
  <2>3. QED
    BY <1>0, <1>1, <2>1, <2>2 DEF AnswersAsked
<1>5. QED
  BY <1>0, <1>2, <1>3, <1>4, AllMove DEF ReportsMove, HandedOff

LEMMA HeadsRealStep ==
    ASSUME DeskInv, HeadsReal, [CallsNext]_callsVars
    PROVE  HeadsReal'
<1>0. /\ CallsTyped /\ heads = [s \in Sources |-> heads[s]]
      /\ newest = [s \in Sources |-> newest[s]]
      /\ case.version \in Nat
  BY DeskConstants DEF DeskInv, HeadsNewest, DeskTyped
<1>1. CASE UNCHANGED <<heads, newest>>
  BY <1>1 DEF HeadsReal
<1>2. ASSUME NEW w \in Callers, Reserve(w) PROVE HeadsReal'
  <2> DEFINE k == call[w].key
             head == [version |-> case.version, request |-> k, state |-> "PENDING"]
  <2>1. k \in Keys
    BY <1>0, <1>2, KeysApart DEF Reserve, Doing
  <2>2. head \in SourceHead
    BY <1>0, <2>1 DEF SourceHead
  <2>3. heads' = [heads EXCEPT ![SourceOf(k)] = head] /\ newest' = [newest EXCEPT ![SourceOf(k)] = k]
    BY <1>2 DEF Reserve
  <2> HIDE DEF head
  <2>4. QED
    BY <1>0, <2>2, <2>3 DEF HeadsReal
<1>3. ASSUME NEW w \in Callers, FinishRecord(w) PROVE HeadsReal'
  <2> DEFINE s == SourceOf(call[w].key)
  <2>1. newest' = newest
    BY <1>3 DEF FinishRecord
  <2>2. PICK state \in {"STALE", "FAILED", "OBSERVED"} :
           heads' = heads \/ heads' = [heads EXCEPT ![s].state = state]
    BY <1>3 DEF FinishRecord, Recorded
  <2>3. ASSUME NEW h \in SourceHead PROVE [h EXCEPT !.state = state] \in SourceHead
    BY <2>3 DEF SourceHead
  <2>4. \A t \in Sources : heads'[t] = heads[t] \/ heads'[t] = [heads[t] EXCEPT !.state = state]
    BY <1>0, <2>2
  <2>5. QED
    BY <2>1, <2>3, <2>4 DEF HeadsReal
<1>4. QED
  BY <1>0, <1>1, <1>2, <1>3, AllSteps
  DEF Untold, Telling, Fetch, InvestigateClaim, AskPlanner, readVars

LEMMA LogInvBegins == CallsStart => LogInv
<1> SUFFICES ASSUME CallsStart PROVE LogInv
  OBVIOUS
<1>1. DeskInv /\ \A w \in Callers : call[w].at = "idle"
  BY DeskInvBegins DEF CallsStart, Init, CallsInit, Idle
<1>2. AskedForGood /\ AnswersAsked /\ HeadsReal
  BY <1>1 DEF CallsStart, Init, AskedForGood, AskedTyped, AskedOnRecord, OneReads, OneAsks,
              AnswersAsked, HeadsReal
<1>3. QED
  BY <1>1, <1>2 DEF LogInv, UnderWay

LEMMA LogInvKept == LogInv /\ [CallsNext]_callsVars => LogInv'
  BY DeskInvKept, AskedStep, UnderWayStep, AnswersAskedStep, HeadsRealStep DEF LogInv, DeskInv

-----------------------------------------------------------------------------
(* What the log sees of the desk.                                          *)
Latest == [s \in Sources |-> IF heads[s] = Nothing THEN Nothing ELSE heads[s].request]

Spent == [s \in Sources |-> Cardinality({k \in Requested : SourceOf(k) = s})]

Bases == [i \in Investigations |-> IF i \in Filed THEN reports[i].basis ELSE Nothing]

(* A source is known by its last request, whatever became of it.           *)
LEMMA KnownByRequest ==
    ASSUME NEW head, NEW new,
           new = [s \in Sources |-> new[s]],
           \A s \in Sources : new[s] = Nothing => head[s] = Nothing,
           \A s \in Sources : new[s] # Nothing =>
             head[s] \in SourceHead /\ head[s].request = new[s]
    PROVE  [s \in Sources |-> IF head[s] = Nothing THEN Nothing ELSE head[s].request] = new
<1>1. Nothing \notin SourceHead
  BY DeskConstants
<1>2. QED
  BY <1>1

LEMMA LatestIsNewest ==
    ASSUME LogInv
    PROVE  Latest = newest
<1>1. /\ newest = [s \in Sources |-> newest[s]]
      /\ \A s \in Sources : newest[s] = Nothing => heads[s] = Nothing
      /\ \A s \in Sources : newest[s] # Nothing =>
           heads[s] \in SourceHead /\ heads[s].request = newest[s]
  BY DEF LogInv, DeskInv, HeadsNewest, HeadsReal
<1>2. QED
  BY <1>1, KnownByRequest DEF Latest

LEMMA LatestMoves ==
    ASSUME LogInv'
    PROVE  Latest' = newest'
<1>1. /\ newest' = [s \in Sources |-> newest'[s]]
      /\ \A s \in Sources : newest'[s] = Nothing => heads'[s] = Nothing
      /\ \A s \in Sources : newest'[s] # Nothing =>
           heads'[s] \in SourceHead /\ heads'[s].request = newest'[s]
  BY DEF LogInv, DeskInv, HeadsNewest, HeadsReal
<1>2. QED
  BY <1>1, KnownByRequest DEF Latest

LEMMA BasisSeen ==
    ASSUME LogInv
    PROVE  Log!Basis = Basis
<1> DEFINE heard == [s \in {t \in Sources : Log!Current(t)} |->
                       [version |-> requests[Latest[s]].version, request |-> Latest[s],
                        state |-> requests[Latest[s]].state]]
<1>1. Latest = newest
  BY LatestIsNewest
<1>2. ASSUME NEW s \in Sources, newest[s] # Nothing
      PROVE  /\ heads[s] # Nothing
             /\ heads[s] = [version |-> requests[newest[s]].version, request |-> newest[s],
                            state |-> requests[newest[s]].state]
             /\ heads[s].version = requests[newest[s]].version
  <2>1. heads[s] \in SourceHead /\ Nothing \notin SourceHead
    BY <1>2, DeskConstants DEF LogInv, HeadsReal
  <2>2. QED
    BY <1>2, <2>1 DEF LogInv, DeskInv, HeadsNewest, ReadsTyped
<1>3. \A s \in Sources : newest[s] = Nothing => heads[s] = Nothing
  BY DEF LogInv, DeskInv, HeadsNewest
<1>4. \A s \in Sources : Log!Current(s) <=>
         newest[s] # Nothing /\ requests[newest[s]].version = case.version
  BY <1>1 DEF Log!Current, Latest
<1>5. {t \in Sources : Log!Current(t)} = Heads
  BY <1>2, <1>3, <1>4 DEF Heads
<1>6. \A s \in Heads : heads[s] = [version |-> requests[Latest[s]].version,
                                   request |-> Latest[s], state |-> requests[Latest[s]].state]
  BY <1>1, <1>2, <1>3 DEF Heads
<1>7. heard = [s \in Heads |-> heads[s]]
  BY <1>5, <1>6
<1>8. Log!Basis = [version |-> case.version, open |-> case.open, heads |-> heard]
  BY Zenon DEF Log!Basis, Latest
<1>9. QED
  BY <1>7, <1>8, Zenon DEF Basis

LEMMA LogBegins == CallsStart => Log!Init
<1> SUFFICES ASSUME CallsStart PROVE Log!Init
  OBVIOUS
<1>1. /\ clock = 0 /\ case = [version |-> 1, open |-> TRUE]
      /\ requests = [k \in Keys |-> [state |-> "NONE"]]
      /\ attempts = [i \in Investigations |-> "NONE"]
      /\ asked = [k \in Keys \cup Investigations |-> 0]
      /\ \A s \in Sources : heads[s] = Nothing
      /\ \A i \in Investigations : reports[i] = NoReport
  BY DEF CallsStart, Init, CallsInit, NoRequest
<1>2. Latest = [s \in Sources |-> Nothing]
  BY <1>1 DEF Latest
<1>3. Spent = [s \in Sources |-> 0]
  <2>1. \A s \in Sources : {k \in Requested : SourceOf(k) = s} = {}
    BY <1>1 DEF Requested
  <2>2. QED
    BY <2>1, FS_EmptySet DEF Spent
<1>4. Bases = [i \in Investigations |-> Nothing]
  BY <1>1 DEF Bases, Filed
<1>5. QED
  BY <1>1, <1>2, <1>3, <1>4, Zenon DEF Log!Init, Latest, Spent, Bases

(* No step but a commit changes what is filed, as the log sees it.         *)
LEMMA BasesStand ==
    ASSUME LogInv, LogInv', [CallsNext]_callsVars, UNCHANGED attempts
    PROVE  Bases' = Bases
<1>1. \A i \in Investigations : (i \in Filed <=> i \in Filed')
  BY DEF LogInv, DeskInv, ReportsOnRecord, ReportOfAttempt
<1>2. \A i \in Filed : reports'[i].basis = reports[i].basis
  BY AllMove, ReportsFiledOnce DEF LogInv, DeskInv
<1>3. QED
  BY <1>1, <1>2 DEF Bases

LEMMA LogReserve ==
    ASSUME LogInv, LogInv', [CallsNext]_callsVars, NEW w \in Callers, Reserve(w)
    PROVE  Log!Next
<1>0. PICK k \in Keys : k = call[w].key
  BY KeysApart DEF Reserve, Doing, LogInv, DeskInv
<1> DEFINE s == SourceOf(k)
<1>1. PICK spec \in SpecsEver : spec = SpecOf(s)
  <2>1. config \in Configs /\ s \in Sources
    BY DeskConstants DEF LogInv, DeskInv, Thresholds, SourceOf
  <2>2. QED
    BY <2>1 DEF SpecOf, SpecsEver
<1>2. /\ s \in Sources /\ requests[k] = NoRequest
      /\ case.open
      /\ Cardinality({j \in Requested : SourceOf(j) = s}) < Budget
      /\ UNCHANGED <<clock, case, attempts, reports, asked>>
      /\ newest' = [newest EXCEPT ![s] = k]
      /\ requests' = [requests EXCEPT ![k] =
             [state |-> "PENDING", version |-> case.version, spec |-> spec]]
  BY <1>0, <1>1, DeskConstants
  DEF Reserve, MayReserve, BudgetLeft, Doing, SourceOf, serverVars, reportVars, LogInv, DeskInv
<1> HIDE DEF s
<1>3. Latest' = [Latest EXCEPT ![s] = k]
  <2>1. Latest = newest /\ Latest' = newest'
    BY LatestIsNewest, LatestMoves
  <2>2. QED
    BY <1>2, <2>1
<1>4. Spent' = [Spent EXCEPT ![s] = @ + 1]
  <2>1. k \notin Requested /\ s = SourceOf(k)
    BY <1>2 DEF Requested, NoRequest, s
  <2>2. Requested' = Requested \cup {k}
    BY <1>2, <2>1 DEF Requested, LogInv, DeskInv, CallsTyped
  <2>3. ASSUME NEW t \in Sources, t # s
        PROVE  {j \in Requested' : SourceOf(j) = t} = {j \in Requested : SourceOf(j) = t}
    BY <2>1, <2>2, <2>3
  <2>4. Cardinality({j \in Requested' : SourceOf(j) = s})
          = Cardinality({j \in Requested : SourceOf(j) = s}) + 1
    <3> DEFINE S == {j \in Requested : SourceOf(j) = s}
    <3>1. S \subseteq Keys /\ IsFiniteSet(Keys)
      BY DeskConstants DEF Requested
    <3>2. IsFiniteSet(S) /\ k \notin S
      BY <2>1, <3>1, FS_Subset
    <3>3. {j \in Requested' : SourceOf(j) = s} = S \cup {k}
      BY <2>1, <2>2
    <3> HIDE DEF S
    <3>4. Cardinality(S \cup {k}) = Cardinality(S) + 1
      BY <3>2, FS_AddElement
    <3>5. QED
      BY <3>3, <3>4 DEF S
  <2>5. Spent' = [t \in Sources |-> Cardinality({j \in Requested' : SourceOf(j) = t})]
    BY DEF Spent, SourceOf
  <2>6. QED
    BY <2>3, <2>4, <2>5 DEF Spent
<1>5. Bases' = Bases
  BY <1>2, BasesStand
<1>6. Log!Unused(k)
  BY <1>2 DEF Log!Unused, NoRequest
<1>7. Spent[s] < Budget
  BY <1>2 DEF Spent
<1>8. Log!Reserve(k, spec)
  <2>1. Log!SourceOf(k) = s
    BY DEF Log!SourceOf, SourceOf, s
  <2>2. UNCHANGED <<clock, case, Log!filed, asked>>
    BY <1>2, <1>5 DEF Log!filed, Bases
  <2>3. /\ Log!Unused(k)
        /\ requests' = [requests EXCEPT ![k] =
               [state |-> "PENDING", version |-> case.version, spec |-> spec]]
        /\ Spent[Log!SourceOf(k)] < Budget
        /\ Latest' = [Latest EXCEPT ![Log!SourceOf(k)] = k]
        /\ Spent' = [Spent EXCEPT ![Log!SourceOf(k)] = @ + 1]
        /\ UNCHANGED <<clock, case, Log!filed, asked>>
    BY <1>2, <1>3, <1>4, <1>6, <1>7, <2>1, <2>2
  <2>4. QED
    BY <2>3 DEF Log!Reserve, Latest, Spent
<1>9. requests' # requests
  BY <1>2 DEF NoRequest, LogInv, DeskInv, CallsTyped
<1>10. QED
  BY <1>8, <1>9 DEF Log!Next

LEMMA LogHit ==
    ASSUME LogInv, LogInv', [CallsNext]_callsVars, NEW w \in Callers, ReserveHit(w)
    PROVE  Log!Next
<1>0. PICK k \in Keys : k = call[w].key
  BY KeysApart DEF ReserveHit, Doing, LogInv, DeskInv
<1> DEFINE s == SourceOf(k)
<1>1. /\ s \in Sources /\ requests[k] = NoRequest
      /\ case.open /\ Cached(k)
      /\ UNCHANGED <<clock, case, heads, attempts, reports, asked>>
      /\ requests' = [requests EXCEPT ![k] = [state |-> "CACHE_HIT"]]
  BY <1>0, DeskConstants
  DEF ReserveHit, MayReserve, Doing, SourceOf, serverVars, reportVars, LogInv, DeskInv
<1>2. Latest' = Latest
  BY <1>1 DEF Latest
<1>3. Spent' = Spent
  <2>1. Requested' = Requested
    BY <1>1 DEF Requested, NoRequest, LogInv, DeskInv, CallsTyped
  <2>2. QED
    BY <2>1 DEF Spent, SourceOf
<1>4. Bases' = Bases
  BY <1>1, BasesStand
<1>5. PICK t \in Sources : /\ heads[t] # Nothing /\ Usable(t)
                           /\ SourceOf(heads[t].request) = s
                           /\ Command[heads[t].request].resource = Command[k].resource
  BY <1>1 DEF Cached, Accepted, Heads
<1>6. /\ newest[t] # Nothing /\ heads[t].request = newest[t] /\ t = s
      /\ newest[t] \in Requested
  BY <1>5 DEF LogInv, DeskInv, HeadsNewest, ReadsTyped
<1>7. Latest[s] = newest[s]
  BY LatestIsNewest
<1>8. /\ Latest[s] # Nothing
      /\ requests[Latest[s]].version = case.version
      /\ Command[Latest[s]].resource = Command[k].resource
      /\ requests[Latest[s]].state = "OBSERVED"
      /\ clock < requests[Latest[s]].fetched + TTL
  <2>1. clock \in Nat /\ TTL \in Nat /\ requests[newest[t]].fetched \in Nat
    BY <1>5, <1>6, DeskConstants DEF Usable, LogInv, DeskInv, DeskTyped, ReadsTyped, ReadBy
  <2>2. QED
    BY <1>5, <1>6, <1>7, <2>1 DEF Usable
<1>9. Log!Hit(k)
  <2>1. UNCHANGED <<clock, case, Log!filed, asked>>
    BY <1>1, <1>4 DEF Log!filed, Bases
  <2>2. Log!Current(s)
    BY <1>8, Zenon DEF Log!Current, Latest
  <2>3. Log!Unused(k) /\ Log!SourceOf(k) = s
    BY <1>1 DEF Log!Unused, NoRequest, Log!SourceOf, SourceOf
  <2> HIDE DEF s
  <2>4. /\ Log!Unused(k)
        /\ requests' = [requests EXCEPT ![k] = [state |-> "CACHE_HIT"]]
        /\ Log!Current(Log!SourceOf(k))
        /\ Command[Latest[Log!SourceOf(k)]].resource = Command[k].resource
        /\ requests[Latest[Log!SourceOf(k)]].state = "OBSERVED"
        /\ clock < requests[Latest[Log!SourceOf(k)]].fetched + TTL
        /\ Latest' = Latest /\ Spent' = Spent
        /\ UNCHANGED <<clock, case, Log!filed, asked>>
    BY <1>1, <1>2, <1>3, <1>8, <2>1, <2>2, <2>3
  <2>5. QED
    BY <2>4 DEF Log!Hit, Latest, Spent
<1>10. requests' # requests
  BY <1>1 DEF NoRequest, LogInv, DeskInv, CallsTyped
<1>11. QED
  BY <1>9, <1>10 DEF Log!Next

LEMMA KnownStands ==
    ASSUME LogInv, LogInv', newest' = newest, Requested' = Requested
    PROVE  Latest' = Latest /\ Spent' = Spent
<1>1. Latest' = Latest
  BY LatestIsNewest, LatestMoves
<1>2. Spent' = Spent
  BY DEF Spent, SourceOf
<1>3. QED
  BY <1>1, <1>2

LEMMA LogAsk ==
    ASSUME LogInv, LogInv', [CallsNext]_callsVars, NEW w \in Callers, Fetch(w)
    PROVE  Log!Next
<1>1. PICK k \in Keys : k = call[w].key
  BY KeysApart DEF Fetch, Doing, LogInv, DeskInv
<1>2. /\ requests[k].state = "PENDING" /\ asked[k] = 0
      /\ asked' = [asked EXCEPT ![k] = 1]
      /\ UNCHANGED <<clock, case, requests, newest, attempts>>
  <2>1. requests[k].state = "PENDING" /\ asked[k] = 0
    BY <1>1 DEF Fetch, Doing, LogInv, UnderWay, AskedForGood, OneReads
  <2>2. asked' = [asked EXCEPT ![k] = @ + 1]
    BY <1>1 DEF Fetch
  <2>3. UNCHANGED <<clock, case, requests, newest, attempts>>
    BY DEF Fetch, serverVars, caseVars, readVars, reportVars
  <2>4. QED
    BY <2>1, <2>2, <2>3
<1>3. Latest' = Latest /\ Spent' = Spent /\ Bases' = Bases
  BY <1>2, KnownStands, BasesStand DEF Requested
<1>4. Log!AskSource(k)
  <2>1. UNCHANGED <<clock, Log!known, Log!filed>>
    BY <1>2, <1>3 DEF Log!known, Log!filed, Latest, Spent, Bases
  <2>2. QED
    BY <1>2, <2>1 DEF Log!AskSource
<1>5. asked' # asked
  BY <1>2 DEF LogInv, AskedForGood, AskedTyped
<1>6. QED
  BY <1>4, <1>5 DEF Log!Next

LEMMA LogSettle ==
    ASSUME LogInv, LogInv', [CallsNext]_callsVars, NEW w \in Callers, FinishRecord(w)
    PROVE  Log!Next
<1>1. PICK k \in Keys : k = call[w].key
  BY KeysApart DEF FinishRecord, Doing, LogInv, DeskInv
<1>2. ReadBy(call[w], clock) /\ clock \in Nat
  BY DEF FinishRecord, Doing, LogInv, DeskInv, ReadsTyped, DeskTyped
<1>3. PICK facts \in Facts \cup {Nothing} : facts = call[w].facts
  BY <1>2 DEF ReadBy
<1>4. PICK at \in 0..clock : at = call[w].fetched
  BY <1>2 DEF ReadBy
<1> DEFINE s == SourceOf(k)
           mine == heads[s].request = k
           stale == case.version # requests[k].version \/ ~case.open \/ ~mine
           state == IF stale THEN "STALE" ELSE IF facts = Nothing THEN "FAILED" ELSE "OBSERVED"
<1>5. /\ requests[k].state = "PENDING" /\ asked[k] = 1
      /\ requests[k].version = call[w].version
      /\ newest[s] # Nothing /\ k \in Requested /\ s \in Sources
  BY <1>1, DeskConstants
  DEF FinishRecord, Doing, LogInv, UnderWay, DeskInv, ReadsTyped, HeadsNewest, SourceOf
<1>6. /\ UNCHANGED <<clock, case, newest, attempts, asked>>
      /\ requests' = [requests EXCEPT ![k] =
             [state |-> state, version |-> @.version, spec |-> @.spec,
              facts |-> facts, fetched |-> at]]
  BY <1>1, <1>3, <1>4, <1>5 DEF FinishRecord, Recorded, serverVars, caseVars, reportVars
<1>7. mine <=> Latest[s] = k
  BY <1>5, LatestIsNewest DEF LogInv, DeskInv, HeadsNewest
<1>8. stale <=> ~Log!Counts(k)
  BY <1>7 DEF Log!Counts, Log!SourceOf, SourceOf, Latest
<1> HIDE DEF stale, mine
<1>9. Requested' = Requested
  BY <1>5, <1>6 DEF Requested, LogInv, DeskInv, CallsTyped
<1>10. Latest' = Latest /\ Spent' = Spent /\ Bases' = Bases
  BY <1>6, <1>9, KnownStands, BasesStand
<1>11. Log!Settle(k, facts, at)
  <2>1. UNCHANGED <<clock, case, Log!filed, asked>>
    BY <1>6, <1>10 DEF Log!filed, Bases
  <2>2. state = IF ~Log!Counts(k) THEN "STALE" ELSE IF facts = Nothing THEN "FAILED" ELSE "OBSERVED"
    BY <1>8
  <2> HIDE DEF state
  <2>3. QED
    BY <1>5, <1>6, <1>10, <2>1, <2>2 DEF Log!Settle, Latest, Spent
<1>12. requests' # requests
  BY <1>5, <1>6 DEF LogInv, DeskInv, CallsTyped
<1>13. QED
  BY <1>11, <1>12 DEF Log!Next

LEMMA LogClaim ==
    ASSUME LogInv, LogInv', [CallsNext]_callsVars, NEW w \in Callers, InvestigateClaim(w)
    PROVE  Log!Next
<1>1. PICK i \in Investigations : i = call[w].key
  BY KeysApart DEF InvestigateClaim, Doing, LogInv, DeskInv
<1>2. /\ case.open /\ attempts[i] = "NONE"
      /\ attempts' = [attempts EXCEPT ![i] = "PENDING"]
      /\ UNCHANGED <<clock, case, requests, newest, reports, asked>>
  BY <1>1 DEF InvestigateClaim, MayClaim, serverVars, caseVars, readVars
<1>3. Latest' = Latest /\ Spent' = Spent /\ Bases' = Bases
  BY <1>2, KnownStands DEF Requested, Bases, Filed
<1>4. Log!Claim(i)
  <2>1. UNCHANGED <<clock, Log!known, Bases, asked>>
    BY <1>2, <1>3 DEF Log!known, Latest, Spent
  <2>2. QED
    BY <1>2, <2>1 DEF Log!Claim, Bases
<1>5. attempts' # attempts
  BY <1>2 DEF LogInv, DeskInv, CallsTyped
<1>6. QED
  BY <1>4, <1>5 DEF Log!Next

LEMMA LogAskPlanner ==
    ASSUME LogInv, LogInv', [CallsNext]_callsVars, NEW w \in Callers, AskPlanner(w)
    PROVE  Log!Next
<1>1. PICK i \in Investigations : i = call[w].key
  BY KeysApart DEF AskPlanner, Doing, LogInv, DeskInv
<1>2. /\ attempts[i] = "PENDING" /\ asked[i] = 0
      /\ asked' = [asked EXCEPT ![i] = 1]
      /\ UNCHANGED <<clock, case, requests, newest, attempts>>
  <2>1. attempts[i] = "PENDING" /\ asked[i] = 0
    BY <1>1 DEF AskPlanner, Doing, LogInv, AnswersAsked, AskedForGood, OneAsks
  <2>2. asked' = [asked EXCEPT ![i] = @ + 1]
    BY <1>1 DEF AskPlanner
  <2>3. UNCHANGED <<clock, case, requests, newest, attempts>>
    BY DEF AskPlanner, serverVars, caseVars, readVars, reportVars
  <2>4. QED
    BY <2>1, <2>2, <2>3
<1>3. Latest' = Latest /\ Spent' = Spent /\ Bases' = Bases
  BY <1>2, KnownStands, BasesStand DEF Requested
<1>4. Log!AskPlanner(i)
  <2>1. UNCHANGED <<clock, Log!known, Log!filed>>
    BY <1>2, <1>3 DEF Log!known, Log!filed, Latest, Spent, Bases
  <2>2. QED
    BY <1>2, <2>1 DEF Log!AskPlanner
<1>5. asked' # asked
  BY <1>2 DEF LogInv, AskedForGood, AskedTyped
<1>6. QED
  BY <1>4, <1>5 DEF Log!Next

LEMMA LogFile ==
    ASSUME LogInv, LogInv', [CallsNext]_callsVars, NEW w \in Callers, InvestigateCommit(w)
    PROVE  Log!Next
<1>0. call[w].key \in Investigations
  BY DEF InvestigateCommit, Doing, LogInv, DeskInv, CallsTyped, CallTyped, Elsewhere
<1>1. PICK i \in Investigations : i = call[w].key
  BY <1>0
<1> DEFINE new == [basis |-> call[w].basis, bundle |-> call[w].bundle, handed |-> FALSE]
<1>2. /\ call[w].basis = Basis /\ attempts[i] = "PENDING" /\ asked[i] = 1
      /\ attempts' = [attempts EXCEPT ![i] = "COMPLETED"]
      /\ reports' = [reports EXCEPT ![i] = new]
      /\ UNCHANGED <<clock, case, requests, newest, asked>>
  BY <1>1 DEF InvestigateCommit, StillStands, Doing, serverVars, readVars, LogInv, UnderWay
<1>3. case.open = TRUE
  <2>1. call[w].basis.open = TRUE
    BY DEF InvestigateCommit, Doing, LogInv, UnderWay
  <2>2. Basis.open = case.open
    BY OpenIsSaid DEF LogInv, DeskInv
  <2>3. QED
    BY <1>2, <2>1, <2>2, Zenon
<1>4. new # NoReport /\ new.basis = Basis
  BY <1>2 DEF NoReport
<1> HIDE DEF new
<1>5. Latest' = Latest /\ Spent' = Spent
  BY <1>2, KnownStands DEF Requested
<1>6. Bases' = [Bases EXCEPT ![i] = Basis]
  <2>1. \A j \in Investigations : reports'[j] = IF j = i THEN new ELSE reports[j]
    BY <1>2 DEF LogInv, DeskInv, ReportsOnRecord
  <2>2. QED
    BY <1>4, <2>1 DEF Bases, Filed
<1>7. Log!File(i)
  <2>1. UNCHANGED <<clock, Log!known, asked>>
    BY <1>2, <1>5 DEF Log!known, Latest, Spent
  <2>2. Bases' = [Bases EXCEPT ![i] = Log!Basis]
    BY <1>6, BasisSeen
  <2>3. QED
    BY <1>2, <1>3, <2>1, <2>2 DEF Log!File, Bases
<1>8. attempts' # attempts
  BY <1>2 DEF LogInv, DeskInv, CallsTyped
<1>9. QED
  BY <1>7, <1>8 DEF Log!Next

LEMMA LogCase ==
    ASSUME LogInv, LogInv', [CallsNext]_callsVars,
           Reopen \/ \E i \in Investigations : Resolve(i)
    PROVE  Log!Next
<1>1. UNCHANGED <<clock, requests, newest, attempts, asked>>
  BY DEF Reopen, Resolve, serverVars, readVars, reportVars
<1>2. Latest' = Latest /\ Spent' = Spent /\ Bases' = Bases
  BY <1>1, KnownStands, BasesStand DEF Requested
<1>3. UNCHANGED <<clock, requests, Latest, Spent, Log!filed, asked>>
  BY <1>1, <1>2 DEF Log!filed, Bases
<1>4. CASE Reopen
  <2>1. ~case.open /\ case' = [version |-> case.version + 1, open |-> TRUE]
    BY <1>4 DEF Reopen
  <2>2. Log!Reopen
    BY <1>3, <2>1 DEF Log!Reopen, Latest, Spent
  <2>3. QED
    BY <2>1, <2>2 DEF Log!Next
<1>5. ASSUME NEW i \in Investigations, Resolve(i) PROVE Log!Next
  <2>1. /\ case.open /\ case' = [version |-> case.version + 1, open |-> FALSE]
        /\ i \in Filed /\ reports[i].basis = Basis
    BY <1>5 DEF Resolve, ValidReport
  <2>2. Bases[i] = Log!Basis
    BY <2>1, BasisSeen DEF Bases
  <2>3. Log!Close
    BY <1>3, <2>1, <2>2 DEF Log!Close, Latest, Spent, Bases
  <2>4. QED
    BY <2>1, <2>3 DEF Log!Next
<1>6. QED
  BY <1>4, <1>5

(* Every other step the log does not see, or it is time that passes.       *)
Unseen == UNCHANGED <<case, requests, newest, attempts, asked>>

LEMMA LogStutters ==
    ASSUME LogInv, LogInv', [CallsNext]_callsVars, Unseen
    PROVE  [Log!Next]_Log!vars
<1>1. Latest' = Latest /\ Spent' = Spent /\ Bases' = Bases
  BY KnownStands, BasesStand DEF Unseen, Requested
<1>2. UNCHANGED <<Log!known, Log!filed, asked>>
  BY <1>1 DEF Unseen, Log!known, Log!filed, Latest, Spent, Bases
<1>3. clock' = clock \/ clock' = clock + 1
  BY AllFrames DEF FrameMoves, LogInv, DeskInv
<1>4. CASE clock' = clock
  BY <1>2, <1>4 DEF Log!vars
<1>5. CASE clock' = clock + 1
  BY <1>2, <1>5 DEF Log!Tick, Log!Next
<1>6. QED
  BY <1>3, <1>4, <1>5

Seen(w) == Telling(w) \/ ReserveHit(w) \/ InvestigateCommit(w)

LEMMA DeskSeen ==
    ASSUME (\E w \in Callers : Ask(w) \/ Progress(w)) \/ Around
    PROVE  \/ Unseen
           \/ \E w \in Callers : Seen(w)
           \/ Reopen \/ \E i \in Investigations : Resolve(i)
<1>1. CASE Around
  BY <1>1 DEF Around, Handoff, HandedOff, OtherCommand, Tick, Restart, Unseen,
              caseVars, readVars, reportVars
<1>2. ASSUME NEW w \in Callers, Ask(w) PROVE Unseen
  BY <1>2 DEF Ask, Collect, Investigate, InvestigateRead, MissionPlan, MissionAgain, Unseen,
              caseVars, readVars, reportVars
<1>3. ASSUME NEW w \in Callers, Progress(w) PROVE Unseen \/ Seen(w)
  <2>1. CASE ReserveReplay(w) \/ ReserveRefused(w) \/ FinishRead(w) \/ FinishConflict(w)
    BY <2>1 DEF ReserveReplay, ReserveRefused, FinishRead, FinishConflict, Unseen,
                caseVars, readVars, reportVars
  <2>2. CASE InvestigateRefused(w) \/ InvestigateStale(w)
    BY <2>2 DEF InvestigateRefused, InvestigateStale, Unseen, caseVars, readVars, reportVars
  <2>3. CASE \/ MissionCheck(w) \/ MissionStep(w) \/ MissionSources(w)
             \/ MissionInvestigate(w) \/ MissionHandoff(w)
    BY <2>3 DEF MissionCheck, MissionStep, MissionSources, MissionInvestigate,
                InvestigateRead, MissionHandoff, HandedOff, Unseen,
                caseVars, readVars, reportVars
  <2>4. QED
    BY <1>3, <2>1, <2>2, <2>3 DEF Progress, Seen, Telling
<1>4. QED
  BY <1>1, <1>2, <1>3

LEMMA LogStep ==
    ASSUME LogInv, LogInv', [CallsNext]_callsVars
    PROVE  [Log!Next]_Log!vars
<1>1. \/ Unseen
      \/ \E w \in Callers : Seen(w)
      \/ Reopen \/ \E i \in Investigations : Resolve(i)
  <2>1. CASE UNCHANGED callsVars
    BY <2>1 DEF callsVars, vars, deskVars, caseVars, readVars, reportVars, Unseen
  <2>2. CASE UNCHANGED deskVars
    BY <2>2 DEF deskVars, caseVars, readVars, reportVars, Unseen
  <2>3. QED
    BY <2>1, <2>2, StepOfOneService, DeskSeen
<1>2. ASSUME NEW w \in Callers, Seen(w) PROVE Log!Next
  BY <1>2, LogReserve, LogAsk, LogSettle, LogClaim, LogAskPlanner, LogHit, LogFile
  DEF Seen, Telling
<1>3. QED
  BY <1>1, <1>2, LogCase, LogStutters

(* Whatever callers, missions, restarts and the other services do, the     *)
(* desk does no more to the evidence of a case than the log allows:        *)
(* collect's reserve and finish, investigate's claim and commit, resolve   *)
(* and reopen each do one step of it, and every other step none.           *)
THEOREM DeskImplementsLog == CallsSpec => ImplementsEvidenceLog
<1>1. CallsStart => LogInv /\ Log!Init
  BY LogInvBegins, LogBegins
<1>2. LogInv /\ [CallsNext]_callsVars => LogInv'
  BY LogInvKept
<1>3. LogInv /\ LogInv' /\ [CallsNext]_callsVars => [Log!Next]_Log!vars
  BY LogStep
<1>4. QED
  BY <1>1, <1>2, <1>3, PTL DEF CallsSpec, ImplementsEvidenceLog, Log!Spec
=============================================================================
