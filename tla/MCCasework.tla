----------------------------- MODULE MCCasework -----------------------------
(* Instances of Casework for TLC.  ann, ben and cid are people; what role  *)
(* each has is what the registries of a run say.                           *)
EXTENDS Casework, TLC

CONSTANTS ann, ben, cid

Entry(role, subjects) == [role |-> role, subjects |-> subjects]

(* One subject, one person per role, roles that never change. *)
OneSubject    == [s \in Scopes |-> "alice"]
FixedRegistry == {[a \in Actors |->
    Entry(IF a = ann THEN "owner" ELSE IF a = ben THEN "investigator" ELSE "reviewer",
          Subjects)]}

(* ann and ben may be given either working role at a restart; cid stays a  *)
(* reviewer.                                                               *)
ChangingRegistries == {[a \in Actors |->
    Entry(IF a = ann THEN r ELSE IF a = ben THEN q ELSE "reviewer", Subjects)] :
        r, q \in {"investigator", "reviewer"}}

CONSTANT other  \* a scope of another subject

OtherSubject == [s \in Scopes |-> IF s = other THEN "bob" ELSE "alice"]

(* Cases are interchangeable, and so are ann and ben under                *)
(* ChangingRegistries.                                                     *)
InterchangeablePeople == Permutations(CaseIds) \cup Permutations({ann, ben})

Interchangeable == Permutations(TaskIds) \cup Permutations(Scopes \ {other})
=============================================================================
