-------------------------- MODULE MCWorkspaceStore --------------------------
(* Threads of one process (a1, a2) and of another (b1), on one tenant. *)
EXTENDS WorkspaceStore, TLC

CONSTANTS a1, a2, b1, p, q, x, y

MCProcessOf == [w \in Workers |-> IF w = b1 THEN q ELSE p]
Request(key, body) == [key |-> key, body |-> body, boot |-> key = "k0"]
(* A bootstrap, a command, and another command that reuses its key. *)
ReusedKey == {Request("k0", "z"), Request("k1", x), Request("k1", y)}
(* Two bootstraps, of which one can be the first. *)
TwoBoots == {[key |-> k, body |-> "z", boot |-> TRUE] : k \in {"k0", "j0"}}
(* With one thread each, the processes are interchangeable, and so are the *)
(* two commands under one key.                                             *)
Swapped == a1 :> b1 @@ b1 :> a1 @@ p :> q @@ q :> p
Twins   == {[v \in DOMAIN Swapped |-> IF swap THEN Swapped[v] ELSE v] : swap \in BOOLEAN}
           \cup Permutations({x, y})
=============================================================================
