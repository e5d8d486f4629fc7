-------------------------- MODULE MCCaseworkCalls --------------------------
(* Instances of CaseworkCalls for TLC. *)
EXTENDS CaseworkCalls, TLC

CONSTANTS key1, key2, key3, x1, x2

(* Three commands on one source; two of them insist on reading it. *)
OneSource == {"github"}
ReadCommands == [k \in Keys |-> [source |-> "github", resource |-> "issue", force |-> k # key1]]
ReadConfigs == {[specs |-> [s \in OneSource |-> "g1"], policy |-> [required |-> OneSource, groups |-> 1]]}
NoSteps == << >>

(* One transaction carries the plan of the anchor, the other is nobody's. *)
Sent == x1 :> "a1" @@ x2 :> Nothing

(* A delivery, and another body under its identifier. *)
Bodies == {[id |-> "d1", body |-> b] : b \in {"x", "y"}}

Interchangeable == Permutations(Callers) \cup Permutations({key2, key3})
=============================================================================
