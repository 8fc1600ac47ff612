------------------------------ MODULE Indexer ------------------------------
(***************************************************************************)
(* The Indexer (package bam-indexer): a daemon that projects the confirmed *)
(* messages of one content tag into a table of its own, and evicts what a  *)
(* reorg removed.  Handlers do not share state, so one of them is modelled.*)
(*                                                                         *)
(* A handler keeps a cursor row per generation (a version of its code, or  *)
(* a rebuild); at most one row is current.  The Poster and the Reader      *)
(* write the source tables; a command-line process may migrate and reset   *)
(* next to the daemon.                                                     *)
(***************************************************************************)
EXTENDS BamStore, Sequences

CONSTANTS
    ServedTag,          \* content tag of the handler
    Undecodable,        \* bodies the handler's decode rejects
    Carried,            \* the messages of each transaction
    Position,           \* order of the messages inside a transaction
    Blocks,             \* the blocks each transaction may be mined in
    MaxStamp,           \* largest value of Date.now() at a reorg
    MaxReorgs,          \* number of reorgs in a behaviour
    BatchSize,          \* rows of a page
    CodeVersions,       \* values of handler.version
    MaxGen,             \* number of generations in a behaviour
    IndexerFaultKinds,  \* kinds of fault that may happen
    MaxIndexerFaults,   \* number of faults in a behaviour
    CarefulReset,       \* whether `serve' is stopped before its generation is reset
    MaxResets           \* number of runs of the reset command

ASSUME IndexerAssumption ==
    /\ ServedTag \in Tags
    /\ Undecodable \subseteq Bodies
    /\ Carried \in [Tx -> SUBSET Entry]
    /\ Position \in [Key -> Nat]
    /\ Blocks \in [Tx -> SUBSET Nat] /\ MaxStamp \in Nat /\ MaxReorgs \in Nat /\ MaxGen \in Nat
    /\ CarefulReset \in BOOLEAN
    /\ BatchSize \in Nat \ {0}
    /\ CodeVersions \subseteq Nat
    /\ IndexerFaultKinds \subseteq {"refuse", "ack", "throw", "crash", "reset"}
    /\ MaxIndexerFaults \in Nat /\ MaxResets \in Nat

VARIABLES
    places,     \* messages: block_number, tx_index, message_index_within_batch
    stamps,     \* batches: invalidated_at
    clock,      \* the newest stamp so far
    reorgs,     \* number of reorgs so far
    late,       \* history: messages confirmed where the pass of a generation had been
    tied,       \* history: batches with the stamp of another, or an old one
    gens,       \* table `indexer.cursor', by version_id
    born,       \* number of version_ids handed out
    posts,      \* the handler's table
    daemon,     \* `serve'
    cli,        \* the reset command
    ifaults     \* number of faults so far

sourceVars == <<storeVars, places, stamps, clock, reorgs, late, tied>>
indexerVars == <<sourceVars, gens, born, posts, daemon, cli, ifaults>>

-----------------------------------------------------------------------------
(* Types *)

Coord == (Nat \cup {-1}) \X (Nat \cup {-1}) \X (Nat \cup {-1})
Genesis == <<-1, -1, -1>>

\* The coordinate c is strictly after d in chain order.
After(c, d) ==
    \/ c[1] > d[1]
    \/ c[1] = d[1] /\ c[2] > d[2]
    \/ c[1] = d[1] /\ c[2] = d[2] /\ c[3] > d[3]

Gen == 1 .. MaxGen
\* `at' is the forward cursor and `reorgAt' is last_reorg_invalidated_at.
GenRow == [version : CodeVersions, current : BOOLEAN, at : Coord, reorgAt : Nat \cup {-1}]
NoGen == [version |-> -1, current |-> FALSE, at |-> Genesis, reorgAt |-> -1]

\* A message of the source as a page holds it.
SourceRow == [key : Key, body : Bodies, batch : Tx, place : Coord]
LostRow == [batch : Tx, stamp : Nat]

\* A projected message.  Its primary key is the generation and the messageId,
\* a hash of the key and of the content of the batch, which the transaction
\* stands for: two transactions with equal content are two batches here.
Post == [gen : Gen, key : Key, batch : Tx, place : Coord]

\* `gen' and `fwd' are the cursor the tick carries along, `rows' and `lost'
\* what is left of its two pages.
Daemon == [pc : {"down", "idle", "list", "project", "evict"},
           gen : Gen \cup {0},
           fwd : GenRow \cup {NoGen},
           rows : SUBSET SourceRow,
           lost : SUBSET LostRow]
Down == [pc |-> "down", gen |-> 0, fwd |-> NoGen, rows |-> {}, lost |-> {}]
Resting == [Down EXCEPT !.pc = "idle"]      \* between two ticks

Cli == [pc : {"idle", "ready", "dropped"}, runs : Nat, died : BOOLEAN]

\* The type invariant, with the unique index of the cursor table: at most one
\* generation of the handler is current (migrate flips and inserts in one
\* transaction).
IndexerTypeOK ==
    /\ StoreTypeOK
    /\ places \in [Key -> Coord]
    /\ stamps \in [BatchId -> Nat]
    /\ clock \in Nat
    /\ reorgs \in 0 .. MaxReorgs
    /\ late \subseteq Gen \X Key
    /\ tied \subseteq Tx
    /\ gens \in [Gen -> GenRow \cup {NoGen}]
    /\ \A g, h \in Gen : gens[g].current /\ gens[h].current => g = h
    /\ born \in 0 .. MaxGen
    /\ posts \subseteq Post
    /\ daemon \in Daemon
    /\ cli \in Cli
    /\ ifaults \in 0 .. MaxIndexerFaults

IndexerInit ==
    /\ StoreInit
    /\ places = [k \in Key |-> Genesis]
    /\ stamps = [e \in BatchId |-> 0]
    /\ clock = 0
    /\ reorgs = 0
    /\ late = {}
    /\ tied = {}
    /\ gens = [g \in Gen |-> NoGen]
    /\ born = 0
    /\ posts = {}
    /\ daemon = Down
    /\ cli = [pc |-> "idle", runs |-> 0, died |-> FALSE]
    /\ ifaults = 0

IndexerFault(kind) ==
    /\ kind \in IndexerFaultKinds
    /\ ifaults < MaxIndexerFaults
    /\ ifaults' = ifaults + 1

-----------------------------------------------------------------------------
(* The source, as the Poster and the Reader write it.  Neither waits for   *)
(* the other, so batches may be confirmed out of chain order, and each     *)
(* stamps a reorg with the clock of its own process, so stamps may be      *)
(* equal or run backwards.  What the Indexer cannot see then is recorded.  *)

CurrentOf(gs) == {g \in Gen : gs[g].current}

\* The forward pass of a generation has been at c: its cursor is there or
\* beyond, or a row of the page that its tick holds.
Passed(g, c) ==
    /\ gens[g].current
    /\ \/ ~After(c, gens[g].at)
       \/ daemon.gen = g /\ \E r \in daemon.rows : ~After(c, r.place)

Reorged(t) == batches[<<t, ServedTag>>].status = "reorged"
StampOf(t) == stamps[<<t, ServedTag>>]

\* A batch is confirmed in a block, by the Poster's receipt or a Reader's scan.
Confirm(t, block) ==
    LET at(m) == <<block, t, Position[m.key]>>
        fresh == {m \in Carried[t] : ~ObservedConflict(messages, m)}
        row(k) == CHOOSE m \in fresh : m.key = k
        tags == {TagOfEntry(m) : m \in Carried[t]}
    IN
    /\ \/ \E tag \in tags : batches[<<t, tag>>].status # "confirmed"
       \/ \E m \in fresh : messages[m.key].status # "confirmed"
    /\ batches' = UpsertBatch(batches, [e \in {t} \X tags |->
            [status |-> "confirmed", blockNumber |-> block, replacedBy |-> NoTx,
             submittedAt |-> FALSE, invalidatedAt |-> FALSE,
             snapshot |-> {m \in fresh : TagOfEntry(m) = e[2]}]])
    /\ messages' = UpsertObserved(messages, [k \in {m.key : m \in fresh} |->
            [status |-> "confirmed", body |-> row(k).body, batchRef |-> t,
             ingestSeq |-> 0]])
    /\ places' = [k \in Key |->
            IF messages'[k] # messages[k] THEN at(row(k)) ELSE places[k]]
    /\ late' = {l \in Gen \X Key :
            IF messages'[l[2]] # messages[l[2]] THEN Passed(l[1], places'[l[2]]) ELSE l \in late}
    /\ stamps' = [e \in BatchId |-> IF e \in {t} \X tags THEN 0 ELSE stamps[e]]
    /\ tied' = {u \in tied : Reorged(u)'}
    /\ UNCHANGED <<nonces, tagSeq, clock, reorgs>>

\* markReorged, with the writer's clock.
Lose(t) ==
    /\ \E e \in BatchId : e[1] = t /\ batches[e].status = "confirmed"
    /\ reorgs < MaxReorgs
    /\ reorgs' = reorgs + 1
    /\ \E now \in 1 .. MaxStamp :
        /\ clock' = IF now > clock THEN now ELSE clock
        /\ tied' = IF now > clock THEN tied \ {t} ELSE tied \cup {t} \cup {u \in Tx : StampOf(u) = now}
        /\ stamps' = [e \in BatchId |->
                IF e[1] = t /\ batches[e].status # "absent" THEN now ELSE stamps[e]]
    /\ batches' = ReorgBatches(batches, t)
    /\ messages' = ReorgMessages(messages, t)
    /\ late' = {l \in late : messages'[l[2]].status = "confirmed"}
    /\ UNCHANGED <<nonces, tagSeq, places>>

Source ==
    /\ \E t \in Tx : Lose(t) \/ \E block \in Blocks[t] : Confirm(t, block)
    /\ UNCHANGED <<gens, born, posts, daemon, cli, ifaults>>

-----------------------------------------------------------------------------
(* The cursor table *)

\* migrate: a first or a bumped version opens a generation at genesis, and
\* the transaction that opens it freezes the one before.
Supersede(gs) ==
    [g \in Gen |-> IF gs[g].current THEN [gs[g] EXCEPT !.current = FALSE] ELSE gs[g]]
OpenGenOnly(gs, v) ==        \* mutant: the flip is forgotten
    [gs EXCEPT ![born + 1] =
        [version |-> v, current |-> TRUE, at |-> Genesis, reorgAt |-> -1]]
OpenGen(gs, v) ==
    [Supersede(gs) EXCEPT ![born + 1] =
        [version |-> v, current |-> TRUE, at |-> Genesis, reorgAt |-> -1]]
Migrate(v) ==
    IF \E g \in CurrentOf(gens) : gens[g].version = v
    THEN UNCHANGED <<gens, born>>
    ELSE /\ born < MaxGen
         /\ born' = born + 1
         /\ gens' = OpenGen(gens, v)

\* upsertCursor writes `is_current' as the tick read it: the unique index
\* refuses the row, and rolls the transaction back, once another generation
\* is current.  The handler's table is missing inside a reset.
AcceptsAny(g) == cli.pc # "dropped"     \* mutant: no unique index
Accepts(g) == CurrentOf(gens) \subseteq {g} /\ cli.pc # "dropped"

-----------------------------------------------------------------------------
(* The daemon *)

\* Process start: migrate, then the loop.
Boot(v) ==
    /\ daemon.pc = "down"
    /\ CarefulReset => cli.pc # "dropped"
    /\ Migrate(v)
    /\ daemon' = Resting
    /\ UNCHANGED <<sourceVars, posts, cli, ifaults>>

\* A tick reads the current cursor; without one it does nothing.
TickStart ==
    /\ daemon.pc = "idle"
    /\ \E g \in CurrentOf(gens) :
        daemon' = [daemon EXCEPT !.pc = "list", !.gen = g, !.fwd = gens[g]]
    /\ UNCHANGED <<sourceVars, gens, born, posts, cli, ifaults>>

\* listConfirmedAfter: a page of the confirmed rows of the tag, in chain order.
ServedKeys == {k \in Key : messages[k].status = "confirmed" /\ TagOf[messages[k].body] = ServedTag}
ConfirmedAfter(c) ==
    {[key |-> k, body |-> messages[k].body, batch |-> messages[k].batchRef,
      place |-> places[k]] : k \in {k \in ServedKeys : After(places[k], c)}}
TickList ==
    /\ daemon.pc = "list"
    /\ LET rows == ConfirmedAfter(daemon.fwd.at)
       IN  daemon' = [daemon EXCEPT !.pc = "project", !.rows =
               {r \in rows : Cardinality({s \in rows : After(r.place, s.place)}) < BatchSize}]
    /\ UNCHANGED <<sourceVars, gens, born, posts, cli, ifaults>>

\* The row projectOne takes next.
NextRow(r) == r \in daemon.rows /\ \A s \in daemon.rows \ {r} : After(s.place, r.place)

\* What handler.project leaves of the table: an upsert by the primary key.
ProjectedInsertOnly(g, r) ==    \* mutant: ON CONFLICT DO NOTHING
    IF r.body \in Undecodable \/ \E p \in posts : <<p.gen, p.key, p.batch>> = <<g, r.key, r.batch>>
    THEN posts
    ELSE posts \cup {[gen |-> g, key |-> r.key, batch |-> r.batch, place |-> r.place]}
Projected(g, r) ==
    IF r.body \in Undecodable THEN posts
    ELSE {p \in posts : <<p.gen, p.key, p.batch>> # <<g, r.key, r.batch>>}
         \cup {[gen |-> g, key |-> r.key, batch |-> r.batch, place |-> r.place]}

\* A failed transaction ends the forward pass; for a row that does not
\* decode the error leaves the tick.
NotAdvancedSkip(r) == [daemon EXCEPT !.rows = @ \ {r}]   \* mutant: no break
NotAdvanced(r) ==
    IF r.body \in Undecodable THEN Resting ELSE [daemon EXCEPT !.rows = {}]

\* projectOne: the entity and the cursor in one transaction.
TickProjectPoison ==        \* mutant: a row that does not decode fails
    /\ daemon.pc = "project"
    /\ \E r \in daemon.rows :
        /\ NextRow(r)
        /\ Accepts(daemon.gen)
        /\ posts' = Projected(daemon.gen, r)
        /\ IF r.body \in Undecodable
           THEN daemon' = [daemon EXCEPT !.rows = {}] /\ UNCHANGED gens
           ELSE /\ gens' = [gens EXCEPT ![daemon.gen] = [daemon.fwd EXCEPT !.at = r.place]]
                /\ daemon' = [daemon EXCEPT !.fwd = gens'[daemon.gen], !.rows = @ \ {r}]
    /\ UNCHANGED <<sourceVars, born, cli, ifaults>>
TickProject ==
    /\ daemon.pc = "project"
    /\ \E r \in daemon.rows :
        /\ NextRow(r)
        /\ Accepts(daemon.gen)
        /\ posts' = Projected(daemon.gen, r)
        /\ gens' = [gens EXCEPT ![daemon.gen] = [daemon.fwd EXCEPT !.at = r.place]]
        /\ \/ /\ daemon' = [daemon EXCEPT !.fwd = gens'[daemon.gen], !.rows = @ \ {r}]
              /\ UNCHANGED ifaults
           \* The commit succeeds and is reported as a failure.
           \/ IndexerFault("ack") /\ daemon' = NotAdvanced(r)
    /\ UNCHANGED <<sourceVars, born, cli>>

\* The transaction of projectOne rolls back.
TickProjectFails ==
    /\ daemon.pc = "project"
    /\ \E r \in daemon.rows : NextRow(r) /\ daemon' = NotAdvanced(r)
    /\ \/ ~Accepts(daemon.gen) /\ UNCHANGED ifaults
       \/ IndexerFault("refuse")
    /\ UNCHANGED <<sourceVars, gens, born, posts, cli>>

\* listReorgedAfter: a page of the reorged batches of the tag.
ReorgedAfter(stamp) ==
    {[batch |-> e[1], stamp |-> stamps[e]] :
        e \in {e \in BatchId : /\ e[2] = ServedTag
                               /\ batches[e].status = "reorged"
                               /\ stamps[e] > stamp}}
Sooner(r, s) == r.stamp < s.stamp \/ (r.stamp = s.stamp /\ r.batch < s.batch)
TickReorgs ==
    /\ daemon.pc = "project"
    /\ daemon.rows = {}
    /\ LET lost == ReorgedAfter(daemon.fwd.reorgAt)
       IN  daemon' = [daemon EXCEPT !.pc = "evict", !.lost =
               {r \in lost : Cardinality({s \in lost : Sooner(s, r)}) < BatchSize}]
    /\ UNCHANGED <<sourceVars, gens, born, posts, cli, ifaults>>

\* The entry reorgOne takes next.
NextLost(r) == r \in daemon.lost /\ \A s \in daemon.lost \ {r} : Sooner(r, s)

\* reorgOne: the eviction, from every generation, and the cursor in one
\* transaction.
EvictedCurrentOnly(r) ==    \* mutant: the DELETE names the generation
    {p \in posts : <<p.gen, p.batch>> # <<daemon.gen, r.batch>>}
Evicted(r) == {p \in posts : p.batch # r.batch}
TickEvict ==
    /\ daemon.pc = "evict"
    /\ \E r \in daemon.lost :
        /\ NextLost(r)
        /\ Accepts(daemon.gen)
        /\ posts' = Evicted(r)
        /\ gens' = [gens EXCEPT ![daemon.gen] =
                        [daemon.fwd EXCEPT !.reorgAt = IF r.stamp > @ THEN r.stamp ELSE @]]
        /\ \/ /\ daemon' = [daemon EXCEPT !.fwd = gens'[daemon.gen], !.lost = @ \ {r}]
              /\ UNCHANGED ifaults
           \/ IndexerFault("ack") /\ daemon' = Resting
    /\ UNCHANGED <<sourceVars, born, cli>>

\* The transaction of reorgOne rolls back; the tick ends.
TickEvictFailsOn ==     \* mutant: no break
    /\ daemon.pc = "evict"
    /\ \E r \in daemon.lost :
        NextLost(r) /\ daemon' = [daemon EXCEPT !.lost = @ \ {r}]
    /\ \/ ~Accepts(daemon.gen) /\ UNCHANGED ifaults
       \/ IndexerFault("refuse")
    /\ UNCHANGED <<sourceVars, gens, born, posts, cli>>
TickEvictFails ==
    /\ daemon.pc = "evict"
    /\ daemon.lost # {}
    /\ daemon' = Resting
    /\ \/ ~Accepts(daemon.gen) /\ UNCHANGED ifaults
       \/ IndexerFault("refuse")
    /\ UNCHANGED <<sourceVars, gens, born, posts, cli>>

TickEnd ==
    /\ daemon.pc = "evict"
    /\ daemon.lost = {}
    /\ daemon' = Resting
    /\ UNCHANGED <<sourceVars, gens, born, posts, cli, ifaults>>

Tick == \/ TickStart \/ TickList \/ TickProject \/ TickProjectFails
        \/ TickReorgs \/ TickEvict \/ TickEvictFails \/ TickEnd

\* A query of the source or of the cursor throws: serve logs it and arms the
\* next tick.
TickThrows ==
    /\ daemon.pc = "list" \/ (daemon.pc = "project" /\ daemon.rows = {})
    /\ IndexerFault("throw")
    /\ daemon' = Resting
    /\ UNCHANGED <<sourceVars, gens, born, posts, cli>>

\* The process dies: its open transaction rolls back.
IndexerCrash ==
    /\ daemon.pc # "down"
    /\ IndexerFault("crash")
    /\ daemon' = Down
    /\ UNCHANGED <<sourceVars, gens, born, posts, cli>>

-----------------------------------------------------------------------------
(* The reset command *)

\* The command is a process with its own copy of the handler: it migrates.
ResetStart(v) ==
    /\ cli.pc = "idle"
    /\ cli.runs < MaxResets
    /\ Migrate(v)
    /\ cli' = [cli EXCEPT !.pc = "ready", !.runs = @ + 1]
    /\ UNCHANGED <<sourceVars, posts, daemon, ifaults>>

\* One generation, in one transaction: `--version', or `--current'.
Stopped(g) == (CarefulReset /\ gens[g].current) => daemon.pc = "down"
ResetGen(g) ==
    /\ cli.pc = "ready"
    /\ gens[g] # NoGen
    /\ Stopped(g)
    /\ posts' = {p \in posts : p.gen # g}
    /\ gens' = [gens EXCEPT ![g] = NoGen]
    /\ cli' = [cli EXCEPT !.pc = "idle"]
    /\ UNCHANGED <<sourceVars, born, daemon, ifaults>>

\* Every generation: the schema first, the cursors in a statement of their own.
ResetDrop ==
    /\ cli.pc = "ready"
    /\ \A g \in CurrentOf(gens) : Stopped(g)
    /\ posts' = {}
    /\ cli' = [cli EXCEPT !.pc = "dropped"]
    /\ UNCHANGED <<sourceVars, gens, born, daemon, ifaults>>
ResetForget ==
    /\ cli.pc = "dropped"
    /\ gens' = [g \in Gen |-> NoGen]
    /\ cli' = [cli EXCEPT !.pc = "idle"]
    /\ UNCHANGED <<sourceVars, born, posts, daemon, ifaults>>
\* The next migrate creates the table again, empty.
ResetCrash ==
    /\ cli.pc = "dropped"
    /\ IndexerFault("reset")
    /\ cli' = [cli EXCEPT !.pc = "idle", !.died = TRUE]
    /\ UNCHANGED <<sourceVars, gens, born, posts, daemon>>

Reset == \/ \E v \in CodeVersions : ResetStart(v)
         \/ \E g \in Gen : ResetGen(g)
         \/ ResetDrop \/ ResetForget \/ ResetCrash

-----------------------------------------------------------------------------
(* The specification *)

IndexerNext ==
    \/ Source
    \/ \E v \in CodeVersions : Boot(v)
    \/ Tick \/ TickThrows \/ IndexerCrash
    \/ Reset

IndexerSpec == IndexerInit /\ [][IndexerNext]_indexerVars

\* The loop arms the next tick whatever happened to the last one, and a reset
\* that started goes on.
IndexerFairSpec ==
    /\ IndexerSpec
    /\ WF_indexerVars(Tick)
    /\ WF_indexerVars(ResetForget)

-----------------------------------------------------------------------------
(* Properties *)

\* What the handler's table should hold for a generation: the confirmed
\* messages that decode, in their batches and at their places.
Wanted(g) == {[gen |-> g, key |-> k, batch |-> messages[k].batchRef, place |-> places[k]] :
                k \in {k \in ServedKeys : messages[k].body \notin Undecodable}}
PostsOf(g) == {p \in posts : p.gen = g}
ResetDied == cli.died

\* Every confirmed message at or below the cursor of the current generation
\* is in the table as the source has it: no failed or crashed transaction, no
\* stale page and no regressed cursor makes the forward pass step over one
\* (projectOne stops the pass at the first failure).  All it can miss is a
\* message that was confirmed where it had been already.  A `reset' that died
\* between its two statements is excepted: it leaves the cursors of an empty
\* table.
BehindCursor ==
    ResetDied \/ cli.pc = "dropped" \/
    \A g \in CurrentOf(gens) : \A p \in Wanted(g) :
        ~After(p.place, gens[g].at) => p \in posts \/ <<g, p.key>> \in late

\* A post of a batch that the source has lost is still ahead of the reorg
\* cursor, in whichever generation it is (cursor.ts: `a cursor on the
\* batch-level timestamp never misses a cascade').  All the cascade can miss
\* is a batch that has the stamp of another one, or a stamp older than one
\* given out before: pages that are cut, failures, migrations and the stamps
\* of other batches never hide a batch whose own stamp was the newest.
ReorgsCascade ==
    \A g \in CurrentOf(gens), p \in posts :
        Reorged(p.batch) /\ p.batch \notin tied => StampOf(p.batch) > gens[g].reorgAt

\* A superseded or deleted generation neither gains a row nor becomes current
\* or exists again, although a tick that began before may still hold its
\* cursor row (the unique index refuses that row).
FrozenStaysFrozen ==
    [][\A g \in 1 .. born : ~gens[g].current =>
        /\ {p \in posts' : p.gen = g} \subseteq PostsOf(g)
        /\ ~gens'[g].current
        /\ gens[g] = NoGen => gens'[g] = NoGen]_indexerVars

\* Once the source is quiet and the daemon stays up, the table of the current
\* generation is exactly the confirmed messages of the source, and no
\* generation keeps a post of a lost batch: what the README calls convergence.
Settled ==
    \/ daemon.pc = "down" \/ CurrentOf(gens) = {} \/ ResetDied
    \/ /\ \A g \in CurrentOf(gens) : PostsOf(g) = Wanted(g)
       /\ \A p \in posts : batches[<<p.batch, ServedTag>>].status = "confirmed"
Converges == <>[]Settled

\* What is left of it when batches are confirmed in any order and stamped by
\* any clock: the messages that were not late for the generation, and the
\* batches that are not tied.  A message that two batches carry may stay in
\* the table once for each, although the source has it in one of them.
InTime(ps) == {p \in ps : /\ <<p.gen, p.key>> \notin late /\ p.batch \notin tied
                          /\ messages[p.key].batchRef = p.batch}
SettledInTime ==
    \/ daemon.pc = "down" \/ CurrentOf(gens) = {} \/ ResetDied
    \/ /\ \A g \in CurrentOf(gens) : InTime(PostsOf(g)) = InTime(Wanted(g))
       /\ \A p \in posts : batches[<<p.batch, ServedTag>>].status = "confirmed" \/ p.batch \in tied
ConvergesInTime == <>[]SettledInTime
=============================================================================
