---------------------------- MODULE Coprocessor ----------------------------
(***************************************************************************)
(* The coprocessor service: the validation job V and the proof job P walk  *)
(* the Reader's confirmed messages in chain order, each behind a watermark *)
(* kept in Postgres with the rows it stands for, and an HTTP interface     *)
(* serves the rows page by page.                                           *)
(*                                                                         *)
(* A batch carries one message and is named by its L1 transaction; its     *)
(* chain coordinate <<block, tx, msg>> is a natural number.  The same      *)
(* message may be carried by two batches: the one that replaced a batch    *)
(* that a reorg dropped.                                                   *)
(***************************************************************************)
EXTENDS Naturals, FiniteSets

CONSTANTS
    L1Batches,      \* batches of the job's content tag, by transaction hash
    Carries,        \* the message hash a batch carries
    GuestRejects,   \* batches the C1 guest refuses: a codec, a segment or a signature it does not take
    MaxPosition,    \* bound: chain coordinates
    PageLimit,      \* rows GET /messages returns (1000)
    BatchLimit,     \* candidates per tick, by job
    MaxFaults,      \* bound: crashes and failed calls
    MaxMoves        \* bound: confirmations and reorgs of batches

Hashes == {Carries[b] : b \in L1Batches}
Jobs == {"validation", "proof"}
Positions == 1 .. MaxPosition

ASSUME CoprocessorAssumption ==
    /\ IsFiniteSet(L1Batches) /\ GuestRejects \subseteq L1Batches
    /\ MaxPosition \in Nat /\ MaxFaults \in Nat /\ MaxMoves \in Nat
    /\ PageLimit \in Nat \ {0} /\ BatchLimit \in [Jobs -> Nat \ {0}]

VARIABLES
    position,    \* the coordinate of a batch row of the Reader's store, 0 before it is listed
    confirmed,   \* batches whose message row is confirmed
    archived,    \* batches with l1_included_at set and their blob in the archive
    watermark,   \* coprocessor.watermarks
    rows,        \* coprocessor.validations and proofs: the coordinate of a hash's row, 0 without one
    vkCached,    \* whether coprocessor.vk_cache has its row
    holder,      \* job that holds proof_mu, or "none"; V holds validation_mu along with it
    proofWaits,  \* a P tick waits in proof_mu.lock()
    step,        \* of the running tick: "idle", "started" or "fetched"
    candidates,  \* its candidates that are left
    computed,    \* the candidate that is executed or proven and not committed yet, at most one
    seen,        \* history: <<batch, coordinate>> of what P listed past its watermark and no reorg dropped since
    paid,        \* history: proofs requested per batch and coordinate
    faults, moves

readerRows == <<position, confirmed, archived>>
tables == <<watermark, rows, vkCached>>
tick == <<holder, step, candidates, computed>>
coprocessorVars == <<readerRows, tables, tick, proofWaits, seen, paid, faults, moves>>

CoprocessorInit ==
    /\ position = [b \in L1Batches |-> 0] /\ confirmed = {} /\ archived = {}
    /\ watermark = [j \in Jobs |-> 0]
    /\ rows = [j \in Jobs |-> [h \in Hashes |-> 0]]
    /\ vkCached = FALSE
    /\ holder = "none" /\ proofWaits = FALSE /\ step = "idle"
    /\ candidates = {} /\ computed = {}
    /\ seen = {} /\ paid = [e \in L1Batches \X Positions |-> 0]
    /\ faults = 0 /\ moves = 0

-----------------------------------------------------------------------------
(***************************************************************************)
(* What the Poster and the Reader do to the rows the jobs read.  The       *)
(* Poster confirms a batch eagerly; the Reader archives it when it comes   *)
(* to it.  A reorg leaves the coordinate and the archive of the row.       *)
(***************************************************************************)
Confirm(b, p) ==
    /\ moves < MaxMoves /\ moves' = moves + 1
    /\ \A d \in confirmed : position[d] # p /\ Carries[d] # Carries[b]
    /\ position' = [position EXCEPT ![b] = p]
    /\ confirmed' = confirmed \cup {b}
    /\ UNCHANGED <<archived, tables, tick, proofWaits, seen, paid, faults>>

Archive(b) ==
    /\ b \in confirmed \ archived
    /\ archived' = archived \cup {b}
    /\ UNCHANGED <<position, confirmed, tables, tick, proofWaits, seen, paid, faults, moves>>

Reorg(b) ==
    /\ moves < MaxMoves /\ moves' = moves + 1
    /\ b \in confirmed
    /\ confirmed' = confirmed \ {b}
    /\ seen' = {e \in seen : e[1] # b}
    /\ UNCHANGED <<position, archived, tables, tick, proofWaits, paid, faults>>

-----------------------------------------------------------------------------
(***************************************************************************)
(* Ticks.  V gives up when either mutex is taken; P waits for proof_mu,    *)
(* which is handed to the waiter first.                                    *)
(***************************************************************************)
StartValidation ==
    /\ holder = "none" /\ ~proofWaits
    /\ holder' = "validation" /\ step' = "started"
    /\ UNCHANGED <<readerRows, tables, candidates, computed, proofWaits, seen, paid, faults, moves>>

CronProof ==
    /\ ~proofWaits
    /\ proofWaits' = TRUE
    /\ UNCHANGED <<readerRows, tables, tick, seen, paid, faults, moves>>

StartProof ==
    /\ holder = "none" /\ proofWaits
    /\ holder' = "proof" /\ step' = "started" /\ proofWaits' = FALSE
    /\ UNCHANGED <<readerRows, tables, candidates, computed, seen, paid, faults, moves>>

EndTick ==
    /\ holder' = "none" /\ step' = "idle" /\ candidates' = {} /\ computed' = {}

\* The n batches of a set with the lowest coordinates.
Oldest(bs, n) == {b \in bs : Cardinality({d \in bs : position[d] < position[b]}) < n}

\* GET /messages?status=confirmed: chain order, oldest first, no cursor.
ListMessages == Oldest(confirmed, PageLimit)

\* The rows past the watermark, and the first of them, sorted by coordinate and truncated.
Past(job) == {b \in ListMessages : position[b] > watermark[job]}
Unprocessed(job) ==
    {[batch |-> b, at |-> position[b]] : b \in Oldest(Past(job), BatchLimit[job])}

FetchCandidates ==
    /\ step = "started"
    /\ IF Unprocessed(holder) = {}
       THEN EndTick
       ELSE step' = "fetched" /\ candidates' = Unprocessed(holder) /\ UNCHANGED <<holder, computed>>
    /\ seen' = IF holder = "proof"
               THEN seen \cup {<<b, position[b]>> : b \in Past("proof")}
               ELSE seen
    /\ UNCHANGED <<readerRows, tables, proofWaits, paid, faults, moves>>

-----------------------------------------------------------------------------
(***************************************************************************)
(* validate_one and prove_one                                              *)
(***************************************************************************)
\* GET /batches/:txHash answers with the batch's row as it is by then, whatever its status; only P
\* compares its coordinate with the candidate's.  A row the Reader has not archived is not ready.
CandidateMatches(c) == holder = "proof" => position[c.batch] = c.at

\* The candidate the tick is at.
Turn(c) ==
    /\ step = "fetched" /\ computed = {}
    /\ c \in candidates /\ \A d \in candidates : c.at <= d.at

Compute(c) ==
    /\ Turn(c)
    /\ c.batch \in archived \ GuestRejects
    /\ CandidateMatches(c)
    /\ candidates' = candidates \ {c}
    /\ computed' = {[c EXCEPT !.at = position[c.batch]]}
    /\ paid' = IF holder = "proof" THEN [paid EXCEPT ![<<c.batch, c.at>>] = @ + 1] ELSE paid
    /\ UNCHANGED <<readerRows, tables, holder, step, proofWaits, seen, faults, moves>>

\* Not archived yet, refused by the guest, or another batch than the candidate: the tick stops.
Refuse(c) ==
    /\ Turn(c)
    /\ c.batch \notin archived \/ c.batch \in GuestRejects \/ ~CandidateMatches(c)
    /\ EndTick
    /\ UNCHANGED <<readerRows, tables, proofWaits, seen, paid, faults, moves>>

\* The next candidate of the tick, or its end.
NextCandidate ==
    IF candidates = {} THEN EndTick
    ELSE computed' = {} /\ UNCHANGED <<holder, step, candidates>>

\* The first row of a hash stands.
InsertRow(table, hash, at) == IF table[hash] = 0 THEN [table EXCEPT ![hash] = at] ELSE table

CommitKeepingWatermark(c) ==    \* mutant: no watermark when the hash has its row already
    /\ rows' = [rows EXCEPT ![holder] = InsertRow(@, Carries[c.batch], c.at)]
    /\ watermark' = IF rows[holder][Carries[c.batch]] = 0
                    THEN [watermark EXCEPT ![holder] = c.at] ELSE watermark
    /\ vkCached' = (vkCached \/ holder = "proof")
    /\ NextCandidate
    /\ UNCHANGED <<readerRows, proofWaits, seen, paid, faults, moves>>

\* One transaction: the row, the watermark and, for a proof, the verifying key.
Commit(c) ==
    /\ rows' = [rows EXCEPT ![holder] = InsertRow(@, Carries[c.batch], c.at)]
    /\ watermark' = [watermark EXCEPT ![holder] = c.at]
    /\ vkCached' = (vkCached \/ holder = "proof")
    /\ NextCandidate
    /\ UNCHANGED <<readerRows, proofWaits, seen, paid, faults, moves>>

\* The Reader, the prover or the database fails: the tick stops and nothing of this step is kept.
StepFails ==
    /\ step # "idle"
    /\ faults < MaxFaults /\ faults' = faults + 1
    /\ EndTick
    /\ UNCHANGED <<readerRows, tables, proofWaits, seen, paid, moves>>

\* A restart forgets the tick and the waiter; recover_in_flight_proofs recovers nothing.
Restart ==
    /\ faults < MaxFaults /\ faults' = faults + 1
    /\ EndTick /\ proofWaits' = FALSE
    /\ UNCHANGED <<readerRows, tables, seen, paid, moves>>

CoprocessorNext ==
    \/ \E b \in L1Batches : (\E p \in Positions : Confirm(b, p)) \/ Archive(b) \/ Reorg(b)
    \/ StartValidation \/ CronProof \/ StartProof \/ FetchCandidates
    \/ \E c \in candidates : Compute(c) \/ Refuse(c)
    \/ \E c \in computed : Commit(c)
    \/ StepFails \/ Restart

CoprocessorSpec == CoprocessorInit /\ [][CoprocessorNext]_coprocessorVars

-----------------------------------------------------------------------------
(***************************************************************************)
(* What the jobs promise.                                                  *)
(***************************************************************************)

\* The proof watermark never passes a message that a tick has listed ahead of it and that stayed
\* confirmed: whatever fails, moves or is restarted, such a message has its proof row once the
\* watermark is at or past it, and a proof row comes with the verifying key.  (A message the Reader
\* lists behind the watermark is no job's candidate any more.)
NoListedGap ==
    /\ \A e \in seen : e[2] <= watermark["proof"] => rows["proof"][Carries[e[1]]] # 0
    /\ (\E h \in Hashes : rows["proof"][h] # 0) => vkCached

\* A proof is requested a second time for the same batch and coordinate only after a failure or a
\* restart; each of them costs one request at most (prove_one, "a process restart mid-prove").
PaidAgainOnlyAfterFault ==
    \A b \in L1Batches, p \in Positions : paid[<<b, p>>] <= 1 + faults

\* Every listed message is proven, and paid for once, through the interplay of the watermark, the
\* unique rows and the failures between them (run_proof, prove_one, insert_proof).
ProvenOnceWithoutGap == NoListedGap /\ PaidAgainOnlyAfterFault
=============================================================================
