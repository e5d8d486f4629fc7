-------------------------------- MODULE Calls --------------------------------
(***************************************************************************)
(* Calls of the casework service that leave its lock: they read the        *)
(* workspace, ask somebody outside, and come back to record the answer     *)
(* (src/src/proofops_casework/service.py and the services around it).      *)
(*                                                                         *)
(* Callers work in the threads of one server.  Each transaction of the     *)
(* workspace is atomic (WorkspaceStore); between two of them anything may  *)
(* happen.  The workspace's revision is kept as the set `fresh` of callers *)
(* whose expected revision is still the workspace's: every write empties   *)
(* it.  A key stands for one command, its actor and session included.      *)
(***************************************************************************)
EXTENDS Naturals

CONSTANTS Callers, Nothing

VARIABLES
    clock,   \* the service's clock
    call,    \* call[w]: what caller w is executing
    fresh    \* callers whose expected revision is the workspace's

Idle == [at |-> "idle"]
Doing(w, step) == call[w].at = step
Goto(w, c) == call' = [call EXCEPT ![w] = c]
Reads(w) == fresh' = fresh \cup {w}
Writes == fresh' = {}

CallsInit ==
    /\ clock = 0
    /\ call = [w \in Callers |-> Idle]
    /\ fresh = {}
=============================================================================
