----------------------------- MODULE MessageLog -----------------------------
(***************************************************************************)
(* What the Poster promises its clients, without packs, transactions,      *)
(* receipts, ticks or crashes: one queue per content tag, and the set of   *)
(* messages that are on chain.                                             *)
(*                                                                         *)
(* A queue is the set of its messages and who is ahead of whom.  A message *)
(* enters behind all that wait.  An inclusion takes a prefix of some of    *)
(* the queues.  A reorg takes messages back from the chain; they wait      *)
(* aside until they are put behind all that wait.  No message is ever      *)
(* lost, duplicated or overtaken within its queue.                         *)
(***************************************************************************)

CONSTANTS LogMessages, LogTags, LogTagOf

VARIABLES
    waiting,    \* messages in the queues
    ahead,      \* <<m, n>>: n waits behind m, in the queue of the same tag
    included,   \* messages on chain
    withdrawn   \* messages a reorg took back and that no queue holds yet

logVars == <<waiting, ahead, included, withdrawn>>

LogInit ==
    /\ waiting = {} /\ ahead = {}
    /\ included = {} /\ withdrawn = {}

QueueOf(t) == {m \in waiting : LogTagOf[m] = t}

\* The orders in which the messages of S may stand in a queue.
LinearOrders(S) ==
    {R \in SUBSET (S \X S) :
        /\ \A m, n \in S : m # n => (<<m, n>> \in R <=> <<n, m>> \notin R)
        /\ \A m \in S : <<m, m>> \notin R
        /\ \A m, n, o \in S : <<m, n>> \in R /\ <<n, o>> \in R => <<m, o>> \in R}

Accept(m) ==
    /\ m \notin waiting \cup included \cup withdrawn
    /\ waiting' = waiting \cup {m}
    /\ ahead' = ahead \cup (QueueOf(LogTagOf[m]) \X {m})
    /\ UNCHANGED <<included, withdrawn>>

\* Nobody who stays was ahead of somebody taken.
Include(taken) ==
    /\ \A p \in ahead : p[2] \in taken => p[1] \in taken
    /\ waiting' = waiting \ taken
    /\ ahead' = {p \in ahead : p[1] \notin taken}
    /\ included' = included \cup taken
    /\ UNCHANGED withdrawn

\* `lost' leaves the chain; `back', of one tag, goes behind its queue in some order.
Withdraw(t, lost, back) ==
    /\ \A m \in back : LogTagOf[m] = t
    /\ included' = included \ lost
    /\ withdrawn' = (withdrawn \cup lost) \ back
    /\ waiting' = waiting \cup back
    /\ \E order \in LinearOrders(back) :
          ahead' = ahead \cup (QueueOf(t) \X back) \cup order

LogNext ==
    /\ logVars' # logVars      \* every step is seen
    /\ \/ \E m \in LogMessages : Accept(m)
       \/ \E taken \in SUBSET waiting : Include(taken)
       \/ \E lost \in SUBSET included :
            \E back \in SUBSET (withdrawn \cup lost) :
              \E t \in LogTags : Withdraw(t, lost, back)

LogSpec == LogInit /\ [][LogNext]_logVars
=============================================================================
