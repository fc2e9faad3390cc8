------------------------------ MODULE MCSeeder ------------------------------
(* Seeder for TLC: one key, a plan of three tasks, a frontier task. *)
EXTENDS Seeder

CONSTANTS f  \* a task of the frontier, a model value

MCSenders == {"a"}
MCTask(n, r) == [from |-> "a", nonce |-> n, value |-> 1, rank |-> 2 * n + r, task |-> TRUE]

\* The first task has a second version, to be sent again after a lost answer.
MCTxs == {MCTask(n, 0) : n \in 0 .. PlanLength - 1} \cup {MCTask(0, 1)}
MCOwnerships == {MCTxs \cup {f}}

\* Another node's branch: without the key's work, and with the frontier task
\* open.  It is a reorganisation once a task was mined or a proof was settled.
Tip(n, O, S) == [nonces |-> [s \in MCSenders |-> n], open |-> O, settled |-> S]
MCBranches == {Tip(0, {f}, {})}
=============================================================================
