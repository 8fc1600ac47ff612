--------------------------------- MODULE L1 ---------------------------------
(***************************************************************************)
(* The Ethereum chain as the packages use it (external: its code is not in *)
(* the repository).  A transaction carries one pack of messages; it waits  *)
(* in the mempool, is mined in a block, and may be moved or evicted when   *)
(* the node switches to a fork.  The register call of a mined transaction  *)
(* may have reverted, in which case it emitted no event.                   *)
(***************************************************************************)
EXTENDS BamStore

CONSTANTS
    MaxEmptyHead,   \* height up to which blocks without transactions are mined
    MaxForkDepth,   \* blocks a fork may replace
    MaxForks,       \* number of fork switches in a behaviour
    MayRevert       \* whether a register call may revert

ASSUME L1Assumption ==
    /\ MaxEmptyHead \in Nat
    /\ MaxForkDepth \in Nat
    /\ MaxForks \in Nat
    /\ MayRevert \in BOOLEAN

VARIABLES
    head,       \* height of the canonical chain
    chain,      \* transactions, by identifier
    forks       \* fork switches so far

l1Vars == <<head, chain, forks>>

ChainTx == [status : {"unsent", "mempool", "mined"},
            block : Nat,
            ok : BOOLEAN,
            pack : SUBSET Entry]
NoChainTx == [status |-> "unsent", block |-> 0, ok |-> TRUE, pack |-> {}]

L1TypeOK ==
    /\ head \in Nat
    /\ chain \in [Tx -> ChainTx]
    /\ forks \in Nat

L1Init ==
    /\ head = 0
    /\ chain = [t \in Tx |-> NoChainTx]
    /\ forks = 0

Mined(t) == chain[t].status = "mined"

\* The identifier the next transaction gets (its hash: fresh).
NextTx(t) ==
    /\ t \in Tx
    /\ chain[t].status = "unsent"
    /\ \A u \in Tx : chain[u].status = "unsent" => t <= u

\* eth_sendRawTransaction
EnterMempool(t, pack) ==
    chain' = [chain EXCEPT ![t] = [NoChainTx EXCEPT !.status = "mempool",
                                                    !.pack = pack]]

\* A block with one transaction of the mempool.
MineTx(t, ok) ==
    /\ chain[t].status = "mempool"
    /\ ok \/ MayRevert
    /\ head' = head + 1
    /\ chain' = [chain EXCEPT ![t].status = "mined", ![t].block = head + 1,
                              ![t].ok = ok]
    /\ UNCHANGED forks

\* A block without any of these transactions.
MineEmpty ==
    /\ head < MaxEmptyHead
    /\ head' = head + 1
    /\ UNCHANGED <<chain, forks>>

\* The node switches to a fork that replaces the blocks from `first' on: each
\* transaction they held goes back to the mempool or sits in another block.
Fork(first) ==
    /\ forks < MaxForks
    /\ first > head - MaxForkDepth
    /\ LET moved == {t \in Tx : Mined(t) /\ chain[t].block >= first}
       IN  /\ moved # {}
           /\ \E place \in [moved -> {0} \cup (first .. head)] :
                chain' = [t \in Tx |->
                    IF t \notin moved THEN chain[t]
                    ELSE IF place[t] = 0
                    THEN [chain[t] EXCEPT !.status = "mempool", !.block = 0]
                    ELSE [chain[t] EXCEPT !.block = place[t]]]
    /\ forks' = forks + 1
    /\ UNCHANGED head

L1Next ==
    \/ \E t \in Tx, ok \in BOOLEAN : MineTx(t, ok)
    \/ MineEmpty
    \/ \E first \in 1 .. head : Fork(first)
=============================================================================
