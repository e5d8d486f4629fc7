--------------------------- MODULE MCEvidenceDesk ---------------------------
(* Instances of EvidenceDesk for TLC. *)
EXTENDS EvidenceDesk, TLC

CONSTANTS f1, f2, key1, key2, key3, m1

Question(source, force) == [source |-> source, resource |-> "issue", force |-> force]

TwoSources == {"github", "base"}

Policy1 == [required |-> {"github"}, groups |-> 1]
Policy2 == [required |-> {"github", "base"}, groups |-> 2]
Specs1 == [s \in TwoSources |-> IF s = "github" THEN "g1" ELSE "g2"]

Desk(specs, policy) == [specs |-> specs, policy |-> policy]

(* A mission of two steps beside a refresh of its first source.            *)
MissionCommands == key1 :> Question("github", FALSE) @@ key2 :> Question("base", FALSE) @@ key3 :> Question("github", TRUE)
MissionSteps == m1 :> <<key1, key2>>
Same == Desk(Specs1, Policy1)
MissionConfigs == {Same, Desk(Specs1, Policy2), Desk(Specs1, Nothing),
                   Desk([Specs1 EXCEPT !["base"] = "g1"], Policy1), Nothing}

Interchangeable == Permutations(Facts)
=============================================================================
