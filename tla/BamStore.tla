------------------------------ MODULE BamStore ------------------------------
(***************************************************************************)
(* The relational store that the Poster and the Reader share (package      *)
(* bam-store).  `withTxn' runs a serializable transaction, so a module     *)
(* that uses the store makes one action of every transaction and builds    *)
(* the next value of a table from the operators below, which are the       *)
(* statements of postgres.ts.                                              *)
(*                                                                         *)
(* A message is the pair of its primary key <<sender, nonce>> and its      *)
(* body.  The body stands for (contentTag, contents): for a given key the  *)
(* messageHash is a function of it, so comparing bodies is comparing       *)
(* hashes.  Signatures, contents, addresses and the chain id (one chain)   *)
(* are abstracted; a timestamp column keeps only whether it is null.       *)
(***************************************************************************)
EXTENDS Integers, FiniteSets

CONSTANTS
    Senders,    \* message authors
    MaxNonce,   \* largest nonce an author uses
    Bodies,     \* message bodies
    NoBody,     \* the body of a row that does not exist
    Tags,       \* content tags the Poster serves
    TagOf,      \* the content tag a body is posted under
    MaxTx       \* number of L1 transactions that may ever be sent

ASSUME BamStoreAssumption ==
    /\ IsFiniteSet(Senders)
    /\ MaxNonce \in Nat
    /\ MaxTx \in Nat
    /\ NoBody \notin Bodies
    /\ TagOf \in [Bodies -> Tags]

VARIABLES
    messages,   \* table `messages', by primary key
    batches,    \* table `batches', by <<transaction, content tag>>
    nonces,     \* table `nonces': last accepted message per sender
    tagSeq      \* table `tag_seq': last ingest sequence number per tag

storeVars == <<messages, batches, nonces, tagSeq>>

-----------------------------------------------------------------------------
(* Types *)

Key == Senders \X (0 .. MaxNonce)
Tx == 1 .. MaxTx
NoTx == 0
BatchId == Tx \X Tags

\* One message of a pack or of a batch's frozen message snapshot.
Entry == [key : Key, body : Bodies]
TagOfEntry(m) == TagOf[m.body]

\* `submitted' is in the code's enumeration but no caller of markSubmitted
\* exists outside the store's own tests.
MessageStatus == {"pending", "confirmed", "reorged"}
MessageRow == [status : MessageStatus,
               body : Bodies,
               batchRef : Tx \cup {NoTx},
               ingestSeq : Nat]
\* The value of the table at a key without a row.
NoMessage == [status |-> "absent", body |-> NoBody,
              batchRef |-> NoTx, ingestSeq |-> 0]

\* No writer of the two packages stores a `pending_tx' row.
BatchStatus == {"confirmed", "reorged"}
BatchRow == [status : BatchStatus,
             blockNumber : Nat,
             replacedBy : Tx \cup {NoTx},
             submittedAt : BOOLEAN,
             invalidatedAt : BOOLEAN,
             snapshot : SUBSET Entry]
\* The value of the table at an identifier without a row.
NoBatch == [status |-> "absent", blockNumber |-> 0, replacedBy |-> NoTx,
            submittedAt |-> FALSE, invalidatedAt |-> FALSE, snapshot |-> {}]

NonceRow == [lastNonce : -1 .. MaxNonce, lastBody : Bodies \cup {NoBody}]
NoNonce == [lastNonce |-> -1, lastBody |-> NoBody]

StoreTypeOK ==
    /\ messages \in [Key -> MessageRow \cup {NoMessage}]
    /\ batches \in [BatchId -> BatchRow \cup {NoBatch}]
    /\ nonces \in [Senders -> NonceRow]
    /\ tagSeq \in [Tags -> Nat]

StoreInit ==
    /\ messages = [k \in Key |-> NoMessage]
    /\ batches = [e \in BatchId |-> NoBatch]
    /\ nonces = [s \in Senders |-> NoNonce]
    /\ tagSeq = [t \in Tags |-> 0]

-----------------------------------------------------------------------------
(* Table `messages' *)

\* insertPending refuses a key whose row exists and is not `reorged'
\* (DuplicateMessageError); a reorged row is deleted and replaced.
Occupied(ms, k) == ms[k].status \notin {"absent", "reorged"}

InsertPending(ms, k, b, seq) ==
    [ms EXCEPT ![k] = [status |-> "pending", body |-> b,
                       batchRef |-> NoTx, ingestSeq |-> seq]]

\* listPendingByTag
PendingByTag(ms, t) ==
    {k \in DOMAIN ms : ms[k].status = "pending" /\ TagOf[ms[k].body] = t}

\* upsertObserved throws when the row holds another message at the key ...
ObservedConflict(ms, m) ==
    ms[m.key].status # "absent" /\ ms[m.key].body # m.body

\* ... leaves a confirmed row alone, and overwrites any other.  `rows' maps
\* the keys one transaction writes to their new rows.
UpsertObservedInsertOnly(ms, rows) ==   \* mutant: ON CONFLICT DO NOTHING
    [k \in DOMAIN ms |->
        IF k \in DOMAIN rows /\ ms[k].status = "absent"
        THEN rows[k] ELSE ms[k]]
UpsertObservedKeepReorged(ms, rows) ==  \* mutant: reorged rows left alone
    [k \in DOMAIN ms |->
        IF k \in DOMAIN rows /\ ms[k].status \notin {"confirmed", "reorged"}
        THEN rows[k] ELSE ms[k]]
UpsertObserved(ms, rows) ==
    [k \in DOMAIN ms |->
        IF k \in DOMAIN rows /\ ms[k].status # "confirmed"
        THEN rows[k] ELSE ms[k]]

\* markReorged, second statement: the cascade to the confirmed messages.
ReorgMessagesNone(ms, tx) == ms         \* mutant: no cascade
ReorgMessages(ms, tx) ==
    [k \in DOMAIN ms |->
        IF ms[k].batchRef = tx /\ ms[k].status = "confirmed"
        THEN [ms[k] EXCEPT !.status = "reorged"] ELSE ms[k]]

\* getMaxNonReorgedNonce: the row of the sender with the largest nonce among
\* those not reorged, as a nonce-tracker row; NoNonce when there is none.
Slots(ms, s) ==
    {k \in DOMAIN ms : k[1] = s /\ ms[k].status \notin {"absent", "reorged"}}
MaxNonReorgedNonce(ms, s) ==
    IF Slots(ms, s) = {} THEN NoNonce
    ELSE LET k == CHOOSE k \in Slots(ms, s) : \A l \in Slots(ms, s) : l[2] <= k[2]
         IN  [lastNonce |-> k[2], lastBody |-> ms[k].body]

-----------------------------------------------------------------------------
(* Table `batches' *)

\* upsertBatch on an existing row: COALESCE keeps the old value of a column
\* the new row has null, an empty snapshot keeps the old snapshot, and every
\* other column is overwritten.
MergeBatchOverwrite(old, new) ==    \* mutant: an empty snapshot wins
    [new EXCEPT
        !.replacedBy = IF @ = NoTx THEN old.replacedBy ELSE @,
        !.submittedAt = @ \/ old.submittedAt]
MergeBatch(old, new) ==
    [new EXCEPT
        !.replacedBy = IF @ = NoTx THEN old.replacedBy ELSE @,
        !.submittedAt = @ \/ old.submittedAt,
        !.snapshot = IF @ = {} THEN old.snapshot ELSE @]

\* `rows' maps the batches one transaction writes to their new rows.
UpsertBatch(bs, rows) ==
    [e \in DOMAIN bs |->
        IF e \notin DOMAIN rows THEN bs[e]
        ELSE IF bs[e].status = "absent" THEN rows[e]
        ELSE MergeBatch(bs[e], rows[e])]

\* markReorged, first statement: every per-tag row of the transaction.
ReorgBatchesStampOnly(bs, tx) ==        \* mutant: status not set
    [e \in DOMAIN bs |->
        IF e[1] = tx /\ bs[e].status # "absent"
        THEN [bs[e] EXCEPT !.invalidatedAt = TRUE] ELSE bs[e]]
ReorgBatches(bs, tx) ==
    [e \in DOMAIN bs |->
        IF e[1] = tx /\ bs[e].status # "absent"
        THEN [bs[e] EXCEPT !.status = "reorged", !.invalidatedAt = TRUE]
        ELSE bs[e]]

\* markReorged throws when the transaction has no row.
HasBatch(bs, tx) == \E e \in DOMAIN bs : e[1] = tx /\ bs[e].status # "absent"

\* listBatches with a status and sinceBlock (block_number is null only in
\* `pending_tx' rows).
BatchesSince(bs, status, block) ==
    {e \in DOMAIN bs : bs[e].status = status /\ bs[e].blockNumber >= block}
=============================================================================
