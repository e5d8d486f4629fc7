----------------------------- MODULE CommandLog -----------------------------
(***************************************************************************)
(* What one tenant's workspace promises its callers: a log of commands,    *)
(* each applied at most once per idempotency key, opened by the bootstrap  *)
(* command; and an answer only for what the log holds, always the same.    *)
(* Nothing here knows of locks, processes, retries or crashes.             *)
(***************************************************************************)
EXTENDS Naturals, Sequences

CONSTANT Requests  \* records [key, body, boot]

VARIABLES
    log,    \* the commands applied, in order
    acked   \* answers given: <<request, revision>>

vars == <<log, acked>>

Init == log = <<>> /\ acked = {}

(* A command takes effect, once per key; bootstrap and only bootstrap      *)
(* opens the log.                                                          *)
Apply(r) ==
    /\ \A i \in DOMAIN log : log[i].key # r.key
    /\ r.boot <=> log = <<>>
    /\ log' = Append(log, r)
    /\ UNCHANGED acked

(* A caller is told that its command holds revision i. *)
Acknowledge(i) ==
    /\ acked' = acked \cup {<<log[i], i>>}
    /\ UNCHANGED log

(* The operator takes the storage away: log and answers are void. *)
Erase == log' = <<>> /\ acked' = {}

Next ==
    \/ \E r \in Requests : Apply(r)
    \/ \E i \in DOMAIN log : Acknowledge(i)
    \/ Erase

Spec == Init /\ [][Next]_vars
=============================================================================
