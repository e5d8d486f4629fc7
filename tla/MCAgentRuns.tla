---------------------------- MODULE MCAgentRuns ----------------------------
(* Instances of AgentRuns for TLC. *)
EXTENDS AgentRuns, TLC

CONSTANTS p1, p2, x1, x2, payee, other

Report(key, kind, mode, facts, text) ==
    [key |-> key, kind |-> kind, mode |-> mode, facts |-> facts, text |-> text]

Baseline(mode, until) ==
    Report("k1", "baseline_approved", mode,
           [target |-> payee, terms |-> "pay", max |-> 1, expires |-> until], Nothing)
Dispute(mode) ==
    Report("k2", "dispute_opened", mode,
           [target |-> payee, status |-> Invalid, dispute |-> "d1"], "text")

(* A trusted baseline that may expire, a dispute with a field in           *)
(* quarantine, and under the dispute's key a baseline anybody reported.    *)
Reports == {Baseline("demo_fixture", 1), Dispute("demo_fixture"),
            Report("k2", "baseline_approved", "caller_supplied",
                   [target |-> payee, terms |-> "pay", max |-> 2], Nothing)}
NoReports == {}
OnlyDispute == {Dispute("demo_fixture")}

Pay(mode, target, amount) ==
    [mode |-> mode, target |-> target, terms |-> "pay", chain |-> "base", amount |-> amount]
OneAsked == {Pay(mode, payee, 1) : mode \in {"demo_fixture", "caller_supplied"}}
TheGoals == {[run |-> "r1", intent |-> Pay("demo_fixture", payee, a)] : a \in {1, 2}}
OneGoal == {[run |-> "r1", intent |-> Pay("demo_fixture", payee, 1)]}

Answers == {[requested |-> {}, receipt |-> "complete"],
            [requested |-> {"brief", "review"}, receipt |-> "complete"],
            [requested |-> {}, receipt |-> "incomplete"]}
OneAnswer == {[requested |-> {}, receipt |-> "none"]}

Anchoring == {[policy |-> "v1", anchor |-> TRUE]}
Changing == {[policy |-> "v1", anchor |-> TRUE], [policy |-> "v2", anchor |-> FALSE]}

Interchangeable == Permutations(Procs) \cup Permutations(Txs)
=============================================================================
