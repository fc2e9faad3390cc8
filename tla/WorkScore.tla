----------------------------- MODULE WorkScore -----------------------------
(***************************************************************************)
(* The useful-work score of a crawl proof (core/blockchain.go), by which   *)
(* fork choice weighs branches: the task's difficulty, times the quality   *)
(* of the page, times two penalties for hosts and submitters that the      *)
(* block repeats.  All factors are integers in basis points.               *)
(***************************************************************************)
EXTENDS Integers

BPS == 10000
searchTaskTxWorkUnits == 2
maxProofWorkBodyBytes == 32768
maxProofWorkUniqueTerms == 256
proofWorkTermBoostBPS == 15
proofWorkBodyChunkBytes == 128
maxProofWorkBodyBoostBPS == 2500
maxProofWorkHostPenaltyFloorBPS == 2500
maxProofWorkSubmitterPenaltyFloorBPS == 4000

Lesser(a, b) == IF a < b THEN a ELSE b
Greater(a, b) == IF a < b THEN b ELSE a

\* ComposeBasisPoints of two factors, rounded up; none here is zero.
Compose(a, b) == (a * b + BPS - 1) \div BPS

ApplyBasisPoints(amount, bps) == (amount * bps) \div BPS

\* terms is the number of distinct terms of the page, bytes its length.
usefulProofQualityBPS(terms, bytes) ==
    BPS + Lesser(terms, maxProofWorkUniqueTerms) * proofWorkTermBoostBPS
        + Lesser((Lesser(bytes, maxProofWorkBodyBytes) \div proofWorkBodyChunkBytes) * 10,
                 maxProofWorkBodyBoostBPS)

occurrencePenaltyBPS(count, floor) ==
    IF count <= 1 THEN BPS ELSE Greater(BPS \div count, floor)

Weighted(difficulty, quality, hosts, submitters) ==
    ApplyBasisPoints(Greater(difficulty, 1),
        Compose(Compose(quality, occurrencePenaltyBPS(hosts, maxProofWorkHostPenaltyFloorBPS)),
                occurrencePenaltyBPS(submitters, maxProofWorkSubmitterPenaltyFloorBPS)))

\* Mutant: a proof may round down to nothing.
UsefulProofWorkRounded(difficulty, quality, hosts, submitters) ==
    Weighted(difficulty, quality, hosts, submitters)

\* hosts and submitters are how often the proof's occur in its block.
computeUsefulProofWork(difficulty, quality, hosts, submitters) ==
    Greater(Weighted(difficulty, quality, hosts, submitters), 1)
=============================================================================
