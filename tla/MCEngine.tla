------------------------------ MODULE MCEngine ------------------------------
(* Engine for TLC: the mempools, the submitter, imports and the partition. *)
EXTENDS Engine

MCTask(s, n, r) == [from |-> s, nonce |-> n, value |-> r, rank |-> r, task |-> TRUE]
MCTransfer(s, n, r) == [from |-> s, nonce |-> n, value |-> r, rank |-> r, task |-> FALSE]

MCSenders == {"a"}

\* Two tasks of one sender, and a transfer that wants the second one's nonce.
MCTxs == {MCTask("a", 0, 1), MCTask("a", 1, 2), MCTransfer("a", 1, 3)}
MCOwnerships == {MCTxs, {MCTask("a", 0, 1)}}

\* Another node's branch: without the sender's work, or with its first nonce.
\* The second is the next block while nothing was mined; others reorganise.
Tip(n) == [nonces |-> [s \in MCSenders |-> n], open |-> {}, settled |-> {}]
MCBranches == {Tip(0), Tip(1)}

\* A task and the transfer that follows it.
TaskThenTransfer == {MCTask("a", 0, 1), MCTransfer("a", 1, 2)}
OwnsTaskThenTransfer == {TaskThenTransfer}

\* Two tasks with the same nonce.
TasksOfOneNonce == {MCTask("a", 0, 1), MCTask("a", 0, 2)}
OwnsTasksOfOneNonce == {TasksOfOneNonce}
=============================================================================
