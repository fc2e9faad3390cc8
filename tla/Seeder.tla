------------------------------- MODULE Seeder -------------------------------
(***************************************************************************)
(* scripts/seed_urls against a node: a client that submits a list of       *)
(* search tasks under one key, a batch at a time, through the JSON-RPC     *)
(* server (api/rpc_server.go) and its write limit, while the node mines.   *)
(*                                                                         *)
(* Each request is answered from the engine as Engine models it: the       *)
(* latest nonce under one lock, the pending nonce lock by lock, and a      *)
(* submission by the submitter's steps.  The seeder numbers its tasks on   *)
(* its own (nextNonce), whatever the node answers in between.              *)
(***************************************************************************)
EXTENDS Engine

CONSTANTS
    Seed,        \* the key the tasks are submitted under
    PlanLength,  \* len(plan)
    BatchSize,   \* --batch-size
    WriteLimit,  \* DefaultRPCWriteLimit: writes of one client in a window
    MaxLost      \* bound: requests whose answer never reaches the seeder

ASSUME SeedAssumption == Seed \in Senders
ASSUME PlanAssumption == PlanLength \in Nat \ {0} /\ BatchSize \in Nat \ {0}
ASSUME WriteLimitAssumption == WriteLimit \in Nat \ {0}

VARIABLES
    seeder,  \* the place and the live locals of main
    window,  \* clientWindowLimiter: this client's count in the window
    lost,    \* how many answers were lost
    slip     \* history: the most that a reorganisation has taken the key's
             \* nonce back between main's two requests

seedVars == <<seeder, window, lost, slip>>

\* phase is the loop main is in.  pc is the request it makes there: the latest
\* nonce, the four reads of the pending nonce, or a submission.
NewSeeder == [phase |-> "start", pc |-> "latest", start |-> 0, next |-> 0,
              latest |-> 0, base |-> 0, found |-> {}, slots |-> 0]

Forget(s) == [s EXCEPT !.latest = 0, !.base = 0, !.found = {}, !.slots = 0]
Fatal == [NewSeeder EXCEPT !.phase = "fatal", !.pc = "end"]
Complete == [NewSeeder EXCEPT !.phase = "complete", !.pc = "end"]
Poll(s) == [Forget(s) EXCEPT !.pc = "latest"]

Ended == seeder.pc = "end"

Most(m, n) == IF m >= n THEN m ELSE n

---------------------------------------------------------------------------
\* resolveTransactionCount with "latest".
LatestNonce ==
    /\ seeder.pc = "latest"
    /\ seeder' = [seeder EXCEPT !.pc = "chain", !.latest = nonces[Seed]]
    /\ UNCHANGED <<vars, window, lost, slip>>

\* Engine.PendingNonce: pendingStateForSender reads the chain, ...
PendingChain ==
    /\ seeder.pc = "chain"
    /\ seeder' = [seeder EXCEPT !.pc = "inFlight", !.base = nonces[Seed]]
    /\ slip' = Most(slip, seeder.latest - nonces[Seed])
    /\ UNCHANGED <<vars, window, lost>>

\* ... the work in flight ...
PendingInFlight ==
    /\ seeder.pc = "inFlight"
    /\ seeder' = [seeder EXCEPT !.pc = "txPool",
            !.found = OfSender(inFlight.transfers \cup inFlight.tasks, Seed)]
    /\ UNCHANGED <<vars, window, lost, slip>>

\* ... the transfers ...
PendingTxPool ==
    /\ seeder.pc = "txPool"
    /\ seeder' = [seeder EXCEPT !.pc = "taskPool",
            !.found = @ \cup OfSender(Elements(txPool), Seed)]
    /\ UNCHANGED <<vars, window, lost, slip>>

\* Mutant: the batch is submitted whatever is still pending.
SlotsWhatever(pending) == BatchSize

\* The places left in the batch; none while enough is in flight.
Slots(pending) == BatchSize - (pending - seeder.latest)

\* Mutant: the last nonce is taken for the number of tasks.
TargetOffByOne == seeder.start + PlanLength + 1

\* targetLatestNonce.
Target == seeder.start + PlanLength

\* What main does with the two nonces: before the first task it refuses to
\* start next to pending work; then it submits as many as there are slots;
\* after the last one it waits for the target.
Answered(pending) ==
    CASE seeder.phase = "start" ->
            IF pending # seeder.latest THEN Fatal
            ELSE [Poll(seeder) EXCEPT !.phase = "loop", !.start = pending]
      [] seeder.phase = "loop" ->
            IF pending < seeder.latest THEN Fatal
            ELSE IF Slots(pending) <= 0 THEN Poll(seeder)
            ELSE [Forget(seeder) EXCEPT !.pc = "submit", !.slots = Slots(pending)]
      [] seeder.phase = "final" ->
            IF seeder.latest >= Target THEN Complete
            ELSE Poll(seeder)

\* ... and the tasks.  A replay that fails is an error, and main ends on any
\* error of a nonce: isTransientSeedError is for submissions only.
PendingTaskPool ==
    /\ seeder.pc = "taskPool"
    /\ LET found == seeder.found \cup OfSender(Elements(taskPool), Seed)
       IN  seeder' = IF Replays(seeder.base, found)
                     THEN Answered(seeder.base + Cardinality(found))
                     ELSE Fatal
    /\ UNCHANGED <<vars, window, lost, slip>>

---------------------------------------------------------------------------
\* The nonce main signs next.
NextNonce == seeder.start + seeder.next

\* tx.Sign stamps the time, so that a task sent again is a new transaction:
\* the oldest version of the next task that was not accepted yet.
Signs(t) ==
    /\ t.from = Seed /\ t.task /\ t.nonce = NextNonce
    /\ t \notin accepted
    /\ \A u \in Txs : Slot(u) = Slot(t) /\ u \notin accepted => t.rank <= u.rank

\* clientWindowLimiter.Allow.
Allow == window < WriteLimit

\* ufi_sendRawTransaction passes the limiter and reaches submitSearchTask ...
Send ==
    /\ seeder.pc = "submit"
    /\ Allow
    /\ \E t \in Txs : Signs(t) /\ ReadChain(t)
    /\ window' = window + 1
    /\ seeder' = [seeder EXCEPT !.pc = "sent"]
    /\ UNCHANGED <<lost, slip>>

\* ... or is told "rate limit exceeded", which is transient.
SendLimited ==
    /\ seeder.pc = "submit"
    /\ ~Allow
    /\ seeder' = Poll(seeder)
    /\ UNCHANGED <<vars, window, lost, slip>>

\* Two pending transactions of one nonce: ErrPendingNonceConflict.
Conflict(found) == \E u, v \in found : u.nonce = v.nonce /\ u # v

\* The submitter's steps inside the node.
Validate ==
    /\ seeder.pc = "sent"
    /\ \/ ReadInFlight /\ UNCHANGED seeder
       \/ ReadTxPool /\ UNCHANGED seeder
       \/ /\ ReadTaskPool
          /\ seeder' = IF submit'.pc = "add" THEN seeder
                       ELSE IF Conflict(submit.found \cup OfSender(Elements(taskPool), Seed))
                       THEN Fatal
                       ELSE Poll(seeder)  \* "invalid nonce", which is transient
    /\ UNCHANGED <<window, lost, slip>>

\* nextNonce++, nextIndex++, submitted++ and the conditions of the two loops.
Advanced(s) ==
    IF s.next + 1 = PlanLength THEN [Poll(s) EXCEPT !.phase = "final", !.next = @ + 1]
    ELSE IF s.slots = 1 THEN [Poll(s) EXCEPT !.next = @ + 1]
    ELSE [s EXCEPT !.pc = "submit", !.next = @ + 1, !.slots = @ - 1]

\* TaskPool.Add and the answer: accepted, a limit of the pool (transient), or
\* a nonce that is taken (not transient).
Answer ==
    /\ seeder.pc = "sent"
    /\ AddToPool
    /\ seeder' = IF submit.tx \in accepted' THEN Advanced(seeder)
                 ELSE IF Occupied(taskPool, submit.tx) THEN Fatal
                 ELSE Poll(seeder)
    /\ UNCHANGED <<window, lost, slip>>

\* Bound: main can sign the task again as long as Txs has a version of it.
CanSignAgain(t) == \E u \in Txs : Slot(u) = Slot(t) /\ u \notin accepted'

\* The task is added, but the connection ends (EOF, transient) before the
\* answer arrives, or the request times out (not transient).
LoseAnswer ==
    /\ lost < MaxLost
    /\ seeder.pc = "sent"
    /\ AddToPool
    /\ \/ CanSignAgain(submit.tx) /\ seeder' = Poll(seeder)
       \/ seeder' = Fatal
    /\ lost' = lost + 1
    /\ UNCHANGED <<window, slip>>

\* The request for a nonce, a quote or the balance fails.
LoseRequest ==
    /\ lost < MaxLost
    /\ seeder.pc \in {"latest", "chain"}
    /\ seeder' = Fatal
    /\ lost' = lost + 1
    /\ UNCHANGED <<vars, window, slip>>

\* The window has passed since its first write.
WindowPasses ==
    /\ window > 0
    /\ window' = 0
    /\ UNCHANGED <<vars, seeder, lost, slip>>

---------------------------------------------------------------------------
SeedInit ==
    /\ Init
    /\ seeder = NewSeeder
    /\ window = 0 /\ lost = 0 /\ slip = 0

Request ==
    \/ LatestNonce
    \/ PendingChain
    \/ PendingInFlight
    \/ PendingTxPool
    \/ PendingTaskPool
    \/ Send
    \/ SendLimited
    \/ Validate
    \/ Answer

Fault == LoseAnswer \/ LoseRequest

Node == UNCHANGED seedVars /\ (Miner \/ Importer)

SeedNext == Request \/ Fault \/ WindowPasses \/ Node

(***************************************************************************)
(* The miner ticks, the seeder polls, the server answers and time passes.  *)
(* No fault has to happen.                                                  *)
(***************************************************************************)
SeedSpec ==
    /\ SeedInit
    /\ [][SeedNext]_<<vars, seedVars>>
    /\ WF_<<vars, seedVars>>(UNCHANGED seedVars /\ Miner)
    /\ WF_<<vars, seedVars>>(Request)
    /\ WF_<<vars, seedVars>>(WindowPasses)

---------------------------------------------------------------------------
(***************************************************************************)
(* Properties.                                                             *)
(***************************************************************************)

\* The nonces of the seeder's tasks that the node holds.
Outstanding == {t.nonce : t \in OfSender(Elements(taskPool) \cup Hands, Seed)}

(***************************************************************************)
(* --batch-size bounds what the seeder has waiting at the node, up to one  *)
(* drain and one slip.  Main reads latest and pending in two requests; the *)
(* second does not see the tasks a tick has just drained, at most          *)
(* MempoolTaskBatch of them, and when a reorganisation takes nonces back   *)
(* in between, main counts what it took back as mined.  Over any number of *)
(* polls, transient refusals, lost answers and reorganisations the excess  *)
(* never adds up.                                                          *)
(***************************************************************************)
OutstandingIsBounded ==
    Cardinality(Outstanding) <= BatchSize + MempoolTaskBatch + slip

\* The nonce after all of the key's work that the node holds.
NodeNonce == nonces[Seed] + Cardinality(Outstanding)

(***************************************************************************)
(* Seeding ends: unless blocks fail for ever, and as long as main and the  *)
(* node number the tasks alike, main completes or reports an error,        *)
(* whatever was delayed by a full batch, the write limit, failed crawls or *)
(* failed blocks.  They come apart when a task is quarantined or dropped,  *)
(* when the answer to an accepted task is lost, when an imported block     *)
(* moves the key's nonce, or when main is started while a tick hides older *)
(* work: main never takes the node's nonce again and polls for ever.       *)
(***************************************************************************)
SeedingEnds ==
    ~Ended ~> (Ended \/ BlockFails \/ (seeder.phase # "start" /\ NextNonce # NodeNonce))
=============================================================================
