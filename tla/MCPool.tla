------------------------------- MODULE MCPool -------------------------------
(* Pool for TLC: two senders, a replacement that is dear enough, one that  *)
(* is not, and more transactions than either limit admits.                 *)
EXTENDS Pool

MCTx(s, n, v, r) == [from |-> s, nonce |-> n, value |-> v, rank |-> r, task |-> TRUE]

MCSenders == {"a", "b"}
MCTxs == {MCTx("a", 0, 10, 1), MCTx("a", 0, 11, 2), MCTx("a", 1, 30, 3),
          MCTx("b", 0, 20, 4), MCTx("a", 2, 20, 5), MCTx("b", 0, 21, 6)}
MCBatches == {<<t>> : t \in MCTxs} \cup {<<t, u>> : t, u \in MCTxs}
MCDrainLimits == {0, 1, 2}
=============================================================================
