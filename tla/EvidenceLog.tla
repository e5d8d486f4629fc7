----------------------------- MODULE EvidenceLog -----------------------------
(***************************************************************************)
(* What the desk promises about the evidence of one case: a question is    *)
(* put once; its answer is recorded once and stands; a source is known by  *)
(* the last request reserved for it and by nothing else; a report rests on *)
(* what was known when it was filed; and a case is closed on such a report *)
(* while it still holds.  Nothing here knows of threads, of revisions, of  *)
(* policies, of missions, of attempts given up, or of restarts.            *)
(***************************************************************************)
EXTENDS Naturals

CONSTANTS
    Sources,
    Specs,           \* what a source may be configured as
    Keys,            \* of requests
    Command,         \* Command[k]: [source, resource, force]
    Investigations,  \* keys of reports
    Facts,           \* what a source may say; Nothing is a failure
    TTL,             \* life of an answer
    Budget,          \* requests to one source
    Nothing

VARIABLES
    clock,
    case,      \* [version, open]
    requests,  \* requests[k]: what is on record under k
    latest,    \* latest[s]: the request source s is known by
    spent,     \* spent[s]: how many were reserved for it
    attempts,  \* attempts[i]: of a report
    reports,   \* reports[i]: the basis it was filed on
    asked      \* asked[k]: how often a source, or the planner, was asked

known == <<case, requests, latest, spent>>
filed == <<attempts, reports>>
vars == <<clock, known, filed, asked>>

SourceOf(k) == Command[k].source

(* The present evidence: the requests of this version of the case that     *)
(* their sources are known by.                                             *)
Current(s) == latest[s] # Nothing /\ requests[latest[s]].version = case.version

Basis ==
    [version |-> case.version, open |-> case.open,
     heads |-> [s \in {t \in Sources : Current(t)} |->
                  [version |-> requests[latest[s]].version, request |-> latest[s],
                   state |-> requests[latest[s]].state]]]

Init ==
    /\ clock = 0
    /\ case = [version |-> 1, open |-> TRUE]
    /\ requests = [k \in Keys |-> [state |-> "NONE"]]
    /\ latest = [s \in Sources |-> Nothing]
    /\ spent = [s \in Sources |-> 0]
    /\ attempts = [i \in Investigations |-> "NONE"]
    /\ reports = [i \in Investigations |-> Nothing]
    /\ asked = [k \in Keys \cup Investigations |-> 0]

Unused(k) == case.open /\ requests[k].state = "NONE"

(* A request is reserved, and from then on is what its source is known by. *)
Reserve(k, spec) ==
    /\ Unused(k)
    /\ requests' = [requests EXCEPT ![k] =
           [state |-> "PENDING", version |-> case.version, spec |-> spec]]
    /\ spent[SourceOf(k)] < Budget
    /\ latest' = [latest EXCEPT ![SourceOf(k)] = k]
    /\ spent' = [spent EXCEPT ![SourceOf(k)] = @ + 1]
    /\ UNCHANGED <<clock, case, filed, asked>>

(* No question: what the source is known by answers it.                    *)
Hit(k) ==
    LET s == SourceOf(k) IN
    /\ Unused(k)
    /\ requests' = [requests EXCEPT ![k] = [state |-> "CACHE_HIT"]]
    /\ Current(s)
    /\ Command[latest[s]].resource = Command[k].resource
    /\ requests[latest[s]].state = "OBSERVED"
    /\ clock < requests[latest[s]].fetched + TTL
    /\ UNCHANGED <<clock, case, latest, spent, filed, asked>>

AskSource(k) ==
    /\ requests[k].state = "PENDING" /\ asked[k] = 0
    /\ asked' = [asked EXCEPT ![k] = 1]
    /\ UNCHANGED <<clock, known, filed>>

(* The answer counts if the case is where it was and its source still      *)
(* known by this request.                                                  *)
Counts(k) ==
    case.open /\ case.version = requests[k].version /\ latest[SourceOf(k)] = k

Settle(k, facts, at) ==
    /\ requests[k].state = "PENDING" /\ asked[k] = 1
    /\ requests' = [requests EXCEPT ![k] =
           [state |-> IF ~Counts(k) THEN "STALE" ELSE IF facts = Nothing THEN "FAILED" ELSE "OBSERVED",
            version |-> @.version, spec |-> @.spec, facts |-> facts, fetched |-> at]]
    /\ UNCHANGED <<clock, case, latest, spent, filed, asked>>

Claim(i) ==
    /\ case.open /\ attempts[i] = "NONE"
    /\ attempts' = [attempts EXCEPT ![i] = "PENDING"]
    /\ UNCHANGED <<clock, known, reports, asked>>

AskPlanner(i) ==
    /\ attempts[i] = "PENDING" /\ asked[i] = 0
    /\ asked' = [asked EXCEPT ![i] = 1]
    /\ UNCHANGED <<clock, known, filed>>

File(i) ==
    /\ case.open /\ attempts[i] = "PENDING" /\ asked[i] = 1
    /\ attempts' = [attempts EXCEPT ![i] = "COMPLETED"]
    /\ reports' = [reports EXCEPT ![i] = Basis]
    /\ UNCHANGED <<clock, known, asked>>

Close ==
    /\ case.open
    /\ case' = [version |-> case.version + 1, open |-> FALSE]
    /\ \E i \in Investigations : reports[i] = Basis
    /\ UNCHANGED <<clock, requests, latest, spent, filed, asked>>

Reopen ==
    /\ ~case.open
    /\ case' = [version |-> case.version + 1, open |-> TRUE]
    /\ UNCHANGED <<clock, requests, latest, spent, filed, asked>>

Tick == clock' = clock + 1 /\ UNCHANGED <<known, filed, asked>>

(* Each step by what it changes. *)
Next ==
    \/ /\ requests' # requests
       /\ \E k \in Keys :
             \/ \E spec \in Specs : Reserve(k, spec)
             \/ Hit(k)
             \/ \E facts \in Facts \cup {Nothing}, at \in 0..clock : Settle(k, facts, at)
    \/ /\ asked' # asked
       /\ (\E k \in Keys : AskSource(k)) \/ (\E i \in Investigations : AskPlanner(i))
    \/ attempts' # attempts /\ \E i \in Investigations : Claim(i) \/ File(i)
    \/ case' # case /\ (Close \/ Reopen)
    \/ Tick

Spec == Init /\ [][Next]_vars
=============================================================================
