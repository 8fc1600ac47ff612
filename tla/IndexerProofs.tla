--------------------------- MODULE IndexerProofs ---------------------------
(***************************************************************************)
(* Theorems about the Indexer: type correctness; that a superseded or      *)
(* deleted generation stays as it is; and that nothing is missing below    *)
(* its two cursors, for an operator who stops the daemon before the        *)
(* generation it projects into is reset.                                   *)
(***************************************************************************)
EXTENDS Indexer, StoreProofs, TLAPS

\* What is counted and remembered of the source.
HistoryType == /\ clock \in Nat
               /\ reorgs \in 0 .. MaxReorgs
               /\ late \subseteq Gen \X Key
               /\ tied \subseteq Tx

\* A confirmed message names the transaction that carried it.
ConfirmedHasBatch ==
    \A k \in Key : messages[k].status = "confirmed" => messages[k].batchRef \in Tx

InTick == daemon.pc \in {"list", "project", "evict"}

\* What a tick carries: the row of a generation that was current.
CarriedCursor == InTick => /\ daemon.gen \in 1 .. born
                           /\ daemon.fwd \in GenRow
                           /\ daemon.fwd.current

\* Rows exist for version_ids that were handed out.
BornFirst == \A g \in Gen : g > born => gens[g] = NoGen

\* A tick, or a reset that has migrated, has a current generation next to
\* it; a reset is inside its two statements only with the daemon down.
CurrentExists == /\ InTick \/ cli.pc = "ready" => CurrentOf(gens) # {}
                 /\ cli.pc = "dropped" => daemon.pc = "down"

\* The inductive invariant.
GenerationInv == IndexerTypeOK /\ ConfirmedHasBatch /\ CarriedCursor /\ BornFirst
GenInv == GenerationInv /\ (CarefulReset => CurrentExists)

-----------------------------------------------------------------------------
(* The source *)

LEMMA AtType ==
  ASSUME NEW t \in Tx, NEW block \in Blocks[t], NEW k \in Key
  PROVE  <<block, t, Position[k]>> \in Coord
  BY IndexerAssumption, BamStoreAssumption DEF Coord, Tx

\* A confirmation keeps the source well typed.
LEMMA ConfirmType ==
  ASSUME GenerationInv, NEW t \in Tx, NEW block \in Blocks[t], Confirm(t, block)
  PROVE  /\ StoreTypeOK' /\ (places \in [Key -> Coord])' /\ ConfirmedHasBatch'
         /\ (HistoryType /\ stamps \in [BatchId -> Nat])'
  <1> DEFINE fresh == {m \in Carried[t] : ~ObservedConflict(messages, m)}
             row(k) == CHOOSE m \in fresh : m.key = k
             tags == {TagOfEntry(m) : m \in Carried[t]}
             rows == [k \in {m.key : m \in fresh} |->
                         [status |-> "confirmed", body |-> row(k).body,
                          batchRef |-> t, ingestSeq |-> 0]]
             brows == [e \in {t} \X tags |->
                         [status |-> "confirmed", blockNumber |-> block,
                          replacedBy |-> NoTx, submittedAt |-> FALSE,
                          invalidatedAt |-> FALSE,
                          snapshot |-> {m \in fresh : TagOfEntry(m) = e[2]}]]
             at(m) == <<block, t, Position[m.key]>>
  <1>1. /\ batches' = UpsertBatch(batches, brows)
        /\ messages' = UpsertObserved(messages, rows)
        /\ places' = [k \in Key |->
              IF messages'[k] # messages[k] THEN at(row(k)) ELSE places[k]]
        /\ UNCHANGED <<nonces, tagSeq>>
    BY DEF Confirm
  <1>2. fresh \subseteq Entry
    BY IndexerAssumption
  <1>3. ASSUME NEW k \in {m.key : m \in fresh}
        PROVE  row(k) \in fresh /\ row(k).key = k
    <2>1. PICK m \in fresh : m.key = k
      BY <1>3
    <2> QED
      BY <2>1
  <1>4. \A k \in DOMAIN rows : rows[k] \in MessageRow /\ rows[k].batchRef = t
    <2>1. \A k \in DOMAIN rows : row(k).body \in Bodies
      BY <1>2, <1>3 DEF Entry
    <2> QED
      BY <2>1 DEF MessageRow, MessageStatus
  <1>5. \A e \in DOMAIN brows : brows[e] \in BatchRow
    <2>1. block \in Nat
      BY IndexerAssumption
    <2>2. \A e \in DOMAIN brows : {m \in fresh : TagOfEntry(m) = e[2]} \in SUBSET Entry
      BY <1>2
    <2> HIDE DEF fresh
    <2> QED
      BY <2>1, <2>2 DEF BatchRow, BatchStatus
  <1>6. messages \in MessageTable /\ batches \in BatchTable
    BY DEF GenerationInv, IndexerTypeOK, StoreTypeOK, MessageTable, BatchTable
  <1> HIDE DEF rows, brows
  <1>7. messages' \in MessageTable /\ batches' \in BatchTable
    BY <1>1, <1>4, <1>5, <1>6, UpsertObservedType, UpsertBatchType
  <1>8. StoreTypeOK'
    BY <1>1, <1>7 DEF GenerationInv, IndexerTypeOK, StoreTypeOK, MessageTable, BatchTable
  <1>9. \A k \in Key : messages'[k] # messages[k] => k \in DOMAIN rows /\ messages'[k] = rows[k]
    BY <1>1, <1>6 DEF UpsertObserved, MessageTable
  <1>10. (places \in [Key -> Coord])'
    <2>1. ASSUME NEW k \in Key, messages'[k] # messages[k]
          PROVE  at(row(k)) \in Coord
      <3>1. row(k).key = k
        BY <1>3, <1>9, <2>1 DEF rows
      <3> QED
        BY <3>1, AtType
    <2>2. places \in [Key -> Coord]
      BY DEF GenerationInv, IndexerTypeOK
    <2> HIDE DEF at, row
    <2> QED
      BY <1>1, <2>1, <2>2
  <1>11. ConfirmedHasBatch'
    BY <1>4, <1>9 DEF GenerationInv, ConfirmedHasBatch
  <1>12. HistoryType'
    BY DEF Confirm, HistoryType, GenerationInv, IndexerTypeOK
  <1>13. (stamps \in [BatchId -> Nat])'
    BY DEF Confirm, GenerationInv, IndexerTypeOK
  <1> QED
    BY <1>8, <1>10, <1>11, <1>12, <1>13

LEMMA LoseType ==
  ASSUME GenerationInv, NEW t \in Tx, Lose(t)
  PROVE  /\ StoreTypeOK' /\ ConfirmedHasBatch'
         /\ (places \in [Key -> Coord] /\ stamps \in [BatchId -> Nat] /\ HistoryType)'
  <1>1. /\ messages \in MessageTable /\ batches \in BatchTable
        /\ clock \in Nat /\ stamps \in [BatchId -> Nat]
    BY DEF GenerationInv, IndexerTypeOK, StoreTypeOK, MessageTable, BatchTable
  <1>2. messages' \in MessageTable /\ batches' \in BatchTable
    BY <1>1, ReorgMessagesType, ReorgBatchesType DEF Lose
  <1>3. StoreTypeOK'
    BY <1>2 DEF Lose, GenerationInv, IndexerTypeOK, StoreTypeOK, MessageTable, BatchTable
  <1>4. ConfirmedHasBatch'
    <2>1. \A k \in Key : messages'[k].status = "confirmed" => messages'[k] = messages[k]
      BY <1>1 DEF Lose, ReorgMessages, MessageTable, MessageRow, NoMessage
    <2> QED
      BY <2>1 DEF GenerationInv, ConfirmedHasBatch
  <1>5. (stamps \in [BatchId -> Nat] /\ HistoryType)'
    <2>1. PICK now \in 1 .. MaxStamp :
            /\ clock' = IF now > clock THEN now ELSE clock
            /\ tied' = IF now > clock THEN tied \ {t} ELSE tied \cup {t} \cup {u \in Tx : StampOf(u) = now}
            /\ stamps' = [e \in BatchId |->
                    IF e[1] = t /\ batches[e].status # "absent" THEN now ELSE stamps[e]]
      BY DEF Lose
    <2>2. now \in Nat /\ MaxReorgs \in Nat
      BY IndexerAssumption
    <2>3. (stamps \in [BatchId -> Nat])' /\ clock' \in Nat
      BY <1>1, <2>1, <2>2
    <2>4. tied \subseteq Tx /\ late \subseteq Gen \X Key /\ reorgs \in 0 .. MaxReorgs
      BY DEF GenerationInv, IndexerTypeOK
    <2>5. tied' \subseteq Tx /\ late' \subseteq Gen \X Key /\ reorgs' \in 0 .. MaxReorgs
      BY <2>1, <2>2, <2>4 DEF Lose
    <2> QED
      BY <2>3, <2>5 DEF HistoryType
  <1> QED
    BY <1>3, <1>4, <1>5 DEF Lose, GenerationInv, IndexerTypeOK

-----------------------------------------------------------------------------
(* The cursor table *)

LEMMA SupersedeType ==
  ASSUME NEW gs \in [Gen -> GenRow \cup {NoGen}]
  PROVE  /\ Supersede(gs) \in [Gen -> GenRow \cup {NoGen}]
         /\ \A g \in Gen : ~Supersede(gs)[g].current
         /\ \A g \in Gen : ~gs[g].current => Supersede(gs)[g] = gs[g]
  <1>1. \A g \in Gen : gs[g].current => gs[g] \in GenRow
    BY DEF NoGen
  <1>2. \A r \in GenRow : [r EXCEPT !.current = FALSE] \in GenRow
                          /\ ~[r EXCEPT !.current = FALSE].current
    BY DEF GenRow
  <1>3. \A g \in Gen : ~gs[g].current => gs[g].current # TRUE
    OBVIOUS
  <1> QED
    BY <1>1, <1>2, <1>3 DEF Supersede

\* What is said of the cursor table and of version_ids in the invariant.
TableOK == /\ gens \in [Gen -> GenRow \cup {NoGen}]
           /\ born \in 0 .. MaxGen
           /\ \A g, h \in Gen : gens[g].current /\ gens[h].current => g = h
           /\ BornFirst

LEMMA MigrateStep ==
  ASSUME TableOK, NEW v \in CodeVersions, Migrate(v)
  PROVE  /\ TableOK' /\ CurrentOf(gens)' # {} /\ born <= born'
         /\ \A g \in 1 .. born : ~gens[g].current => gens'[g] = gens[g]
  <1>1. CASE UNCHANGED <<gens, born>> /\ CurrentOf(gens) # {}
    BY <1>1 DEF TableOK, BornFirst, CurrentOf
  <1>2. CASE born < MaxGen /\ born' = born + 1 /\ gens' = OpenGen(gens, v)
    <2> DEFINE new == [version |-> v, current |-> TRUE, at |-> Genesis, reorgAt |-> -1]
               sup == Supersede(gens)
    <2>1. MaxGen \in Nat /\ born \in 0 .. MaxGen /\ born + 1 \in Gen
      BY <1>2, IndexerAssumption DEF TableOK, Gen
    <2>2. new \in GenRow /\ new.current
      BY DEF GenRow, Genesis, Coord
    <2>3. /\ sup \in [Gen -> GenRow \cup {NoGen}]
          /\ \A g \in Gen : ~sup[g].current
          /\ \A g \in Gen : ~gens[g].current => sup[g] = gens[g]
      BY SupersedeType DEF TableOK
    <2>4. gens' = [sup EXCEPT ![born + 1] = new]
      BY <1>2 DEF OpenGen
    <2>5. gens'[born + 1] = new /\ \A g \in Gen : g # born + 1 => gens'[g] = sup[g]
      BY <2>1, <2>3, <2>4
    <2> HIDE DEF new, sup
    <2>6. (gens \in [Gen -> GenRow \cup {NoGen}])'
      BY <2>2, <2>3, <2>4
    <2>7. \A g, h \in Gen : gens'[g].current /\ gens'[h].current => g = h
      BY <2>3, <2>5
    <2>8. BornFirst'
      <3>1. ASSUME NEW g \in Gen, g > born + 1
            PROVE  gens'[g] = NoGen
        <4>1. g > born /\ g # born + 1
          BY <2>1, <3>1 DEF Gen
        <4>2. gens[g] = NoGen /\ ~gens[g].current
          BY <4>1 DEF TableOK, BornFirst, NoGen
        <4> QED
          BY <2>3, <2>5, <4>1, <4>2
      <3> QED
        BY <1>2, <3>1 DEF BornFirst
    <2>9. CurrentOf(gens)' # {}
      BY <2>1, <2>2, <2>5 DEF CurrentOf
    <2>10. ASSUME NEW g \in 1 .. born, ~gens[g].current
           PROVE  gens'[g] = gens[g]
      <3>1. g \in Gen /\ g # born + 1
        BY <2>1 DEF Gen
      <3> QED
        BY <2>3, <2>5, <2>10, <3>1
    <2>11. born' \in 0 .. MaxGen /\ born <= born'
      BY <1>2, <2>1
    <2> QED
      BY <2>6, <2>7, <2>8, <2>9, <2>10, <2>11 DEF TableOK
  <1> QED
    BY <1>1, <1>2 DEF Migrate, CurrentOf

\* A cursor the unique index accepts becomes the one current row.
LEMMA UpsertCursorStep ==
  ASSUME TableOK, NEW g \in 1 .. born, NEW row \in GenRow, row.current, Accepts(g),
         gens' = [gens EXCEPT ![g] = row], born' = born
  PROVE  /\ TableOK' /\ CurrentOf(gens)' # {}
         /\ \A h \in Gen : h # g => gens'[h] = gens[h]
  <1>1. MaxGen \in Nat /\ born \in 0 .. MaxGen /\ g \in Gen
    BY IndexerAssumption DEF TableOK, Gen
  <1>2. gens'[g] = row /\ \A h \in Gen : h # g => gens'[h] = gens[h]
    BY <1>1 DEF TableOK
  <1>3. (gens \in [Gen -> GenRow \cup {NoGen}])'
    BY DEF TableOK
  <1>4. \A h \in Gen : h # g => ~gens[h].current
    BY DEF Accepts, CurrentOf
  <1>5. \A h, i \in Gen : gens'[h].current /\ gens'[i].current => h = i
    BY <1>2, <1>4
  <1>6. BornFirst'
    <2>1. \A h \in Gen : h > born => h # g
      BY <1>1
    <2> QED
      BY <1>2, <2>1 DEF TableOK, BornFirst
  <1> QED
    BY <1>1, <1>2, <1>3, <1>5, <1>6 DEF TableOK, CurrentOf

\* Deleting rows keeps the table in order.
LEMMA DeleteStep ==
  ASSUME TableOK, NEW S \in SUBSET Gen, born' = born,
         gens' = [g \in Gen |-> IF g \in S THEN NoGen ELSE gens[g]]
  PROVE  /\ TableOK'
         /\ \A g \in Gen : gens'[g] = NoGen \/ gens'[g] = gens[g]
  <1>1. \A g \in Gen : gens'[g] = NoGen \/ gens'[g] = gens[g]
    OBVIOUS
  <1>2. ~NoGen.current
    BY DEF NoGen
  <1>3. (gens \in [Gen -> GenRow \cup {NoGen}])'
    BY DEF TableOK
  <1> QED
    BY <1>1, <1>2, <1>3 DEF TableOK, BornFirst

-----------------------------------------------------------------------------
(* Steps *)

\* The step of FrozenStaysFrozen.
FrozenStep == \A g \in 1 .. born : ~gens[g].current =>
                 /\ {p \in posts' : p.gen = g} \subseteq PostsOf(g)
                 /\ ~gens'[g].current
                 /\ gens[g] = NoGen => gens'[g] = NoGen

\* The parts of the type invariant that are not the source's.
OwnTypeOK == /\ posts \subseteq Post
             /\ daemon \in Daemon
             /\ cli \in Cli
             /\ ifaults \in 0 .. MaxIndexerFaults

SourceTypeOK == /\ StoreTypeOK
                /\ places \in [Key -> Coord]
                /\ stamps \in [BatchId -> Nat]
                /\ HistoryType

LEMMA TypeParts == IndexerTypeOK /\ BornFirst <=> SourceTypeOK /\ TableOK /\ OwnTypeOK
  BY DEF IndexerTypeOK, SourceTypeOK, HistoryType, TableOK, OwnTypeOK

LEMMA FaultType ==
  ASSUME ifaults \in 0 .. MaxIndexerFaults, NEW kind, IndexerFault(kind)
  PROVE  ifaults' \in 0 .. MaxIndexerFaults
  BY IndexerAssumption DEF IndexerFault

\* A step that leaves the source and the table of cursors alone.
LEMMA QuietStep ==
  ASSUME GenInv, UNCHANGED <<sourceVars, gens, born>>, OwnTypeOK', CarriedCursor',
         posts' = posts,
         CarefulReset => CurrentExists'
  PROVE  GenInv' /\ FrozenStep
  <1>1. SourceTypeOK' /\ TableOK' /\ ConfirmedHasBatch'
    BY TypeParts DEF GenInv, GenerationInv, SourceTypeOK, HistoryType, TableOK, StoreTypeOK, BornFirst,
       ConfirmedHasBatch, sourceVars, storeVars
  <1>2. IndexerTypeOK' /\ BornFirst'
    BY <1>1, TypeParts, PTL
  <1>3. FrozenStep
    BY DEF FrozenStep, PostsOf
  <1> QED
    BY <1>1, <1>2, <1>3 DEF GenInv, GenerationInv

LEMMA SourceStep == GenInv /\ Source => GenInv' /\ FrozenStep
  <1> SUFFICES ASSUME GenInv, Source PROVE GenInv' /\ FrozenStep
    OBVIOUS
  <1>1. UNCHANGED <<gens, born, posts, daemon, cli, ifaults>>
    BY DEF Source
  <1>2. SourceTypeOK' /\ ConfirmedHasBatch'
    <2>1. ASSUME NEW t \in Tx, Lose(t) PROVE SourceTypeOK' /\ ConfirmedHasBatch'
      BY <2>1, LoseType DEF GenInv, SourceTypeOK
    <2>2. ASSUME NEW t \in Tx, NEW block \in Blocks[t], Confirm(t, block)
          PROVE  SourceTypeOK' /\ ConfirmedHasBatch'
      BY <2>2, ConfirmType DEF GenInv, SourceTypeOK
    <2> QED
      BY <2>1, <2>2 DEF Source
  <1>3. (TableOK /\ OwnTypeOK /\ CarriedCursor)' /\ (CarefulReset => CurrentExists')
    BY <1>1, TypeParts DEF GenInv, GenerationInv, TableOK, OwnTypeOK, BornFirst,
       CarriedCursor, CurrentExists, CurrentOf, InTick
  <1>4. IndexerTypeOK' /\ BornFirst'
    BY <1>2, <1>3, TypeParts, PTL
  <1>5. FrozenStep
    BY <1>1 DEF FrozenStep, PostsOf
  <1> QED
    BY <1>2, <1>3, <1>4, <1>5 DEF GenInv, GenerationInv

\* Boot and the start of a reset.
LEMMA MigratingStep ==
  ASSUME GenInv, NEW v \in CodeVersions, Boot(v) \/ ResetStart(v)
  PROVE  GenInv' /\ FrozenStep
  <1>1. UNCHANGED <<sourceVars, posts, ifaults>> /\ Migrate(v)
    BY DEF Boot, ResetStart
  <1>2. TableOK
    BY TypeParts DEF GenInv, GenerationInv
  <1>3. /\ TableOK' /\ CurrentOf(gens)' # {} /\ born <= born'
        /\ \A g \in 1 .. born : ~gens[g].current => gens'[g] = gens[g]
    BY <1>1, <1>2, MigrateStep
  <1>4. SourceTypeOK' /\ ConfirmedHasBatch'
    BY <1>1, TypeParts DEF GenInv, GenerationInv, SourceTypeOK, HistoryType, StoreTypeOK,
       ConfirmedHasBatch, sourceVars, storeVars
  <1>5. daemon \in Daemon /\ cli \in Cli
    BY DEF GenInv, GenerationInv, IndexerTypeOK
  <1>6. daemon' \in Daemon /\ cli' \in Cli
    <2>1. Resting \in Daemon
      BY DEF Resting, Down, Daemon
    <2>2. [cli EXCEPT !.pc = "ready", !.runs = @ + 1] \in Cli
      <3>1. cli.runs + 1 \in Nat
        BY <1>5 DEF Cli
      <3>2. \A n \in Nat : [cli EXCEPT !.pc = "ready", !.runs = n] \in Cli
        BY <1>5 DEF Cli
      <3>3. [cli EXCEPT !.pc = "ready", !.runs = @ + 1] = [cli EXCEPT !.pc = "ready", !.runs = cli.runs + 1]
        BY <1>5 DEF Cli
      <3> QED
        BY <3>1, <3>2, <3>3
    <2> QED
      BY <1>5, <2>1, <2>2 DEF Boot, ResetStart
  <1>7. OwnTypeOK'
    BY <1>1, <1>6 DEF OwnTypeOK, GenInv, GenerationInv, IndexerTypeOK
  <1>8. CarriedCursor'
    <2>1. CASE daemon' = Resting
      BY <2>1 DEF CarriedCursor, InTick, Resting, Down
    <2>2. CASE daemon' = daemon
      <3>1. born \in Nat /\ born' \in Nat
        BY <1>2, <1>3, IndexerAssumption DEF TableOK
      <3> QED
        BY <2>2, <1>3, <3>1 DEF CarriedCursor, InTick, GenInv, GenerationInv
    <2> QED
      BY <2>1, <2>2 DEF Boot, ResetStart
  <1>9. CarefulReset => CurrentExists'
    <2>1. CASE Boot(v)
      BY <1>3, <2>1 DEF CurrentExists, Boot
    <2>2. CASE ResetStart(v)
      BY <1>3, <2>2 DEF CurrentExists, ResetStart
    <2> QED
      BY <2>1, <2>2
  <1>10. IndexerTypeOK' /\ BornFirst'
    BY <1>3, <1>4, <1>7, TypeParts, PTL
  <1>11. FrozenStep
    BY <1>1, <1>3 DEF FrozenStep, PostsOf
  <1> QED
    BY <1>4, <1>8, <1>9, <1>10, <1>11 DEF GenInv, GenerationInv

\* The daemon between two ticks, or down.
LEMMA RestingType == Resting \in Daemon /\ Down \in Daemon
                     /\ Resting.pc = "idle" /\ Down.pc = "down"
  BY DEF Resting, Down, Daemon

LEMMA ConfirmedAfterType ==
  ASSUME GenInv, NEW c \in Coord
  PROVE  ConfirmedAfter(c) \subseteq SourceRow
  <1> SUFFICES ASSUME NEW k \in Key, messages[k].status = "confirmed"
               PROVE  [key |-> k, body |-> messages[k].body,
                       batch |-> messages[k].batchRef, place |-> places[k]] \in SourceRow
    BY DEF ConfirmedAfter, ServedKeys
  <1>1. messages[k] \in MessageRow /\ places[k] \in Coord /\ messages[k].batchRef \in Tx
    BY DEF GenInv, GenerationInv, ConfirmedHasBatch, IndexerTypeOK, StoreTypeOK, NoMessage
  <1> QED
    BY <1>1 DEF SourceRow, MessageRow

LEMMA ReorgedAfterType ==
  ASSUME GenInv, NEW stamp
  PROVE  ReorgedAfter(stamp) \subseteq LostRow
  BY DEF ReorgedAfter, LostRow, GenInv, GenerationInv, IndexerTypeOK, BatchId

LEMMA NotAdvancedType ==
  ASSUME GenInv, NEW r
  PROVE  /\ NotAdvanced(r) \in Daemon
         /\ \/ NotAdvanced(r) = Resting
            \/ /\ NotAdvanced(r).gen = daemon.gen
               /\ NotAdvanced(r).fwd = daemon.fwd
               /\ NotAdvanced(r).pc = daemon.pc
  BY RestingType DEF NotAdvanced, GenInv, GenerationInv, IndexerTypeOK, Daemon

\* The steps of the daemon that write nothing.
LEMMA IdleStep ==
  ASSUME GenInv,
         TickStart \/ TickList \/ TickProjectFails \/ TickReorgs \/ TickEvictFails
           \/ TickEnd \/ TickThrows \/ IndexerCrash
  PROVE  GenInv' /\ FrozenStep
  <1>1. UNCHANGED <<sourceVars, gens, born, posts, cli>>
    BY DEF TickStart, TickList, TickProjectFails, TickReorgs, TickEvictFails, TickEnd,
       TickThrows, IndexerCrash
  <1>2. daemon \in Daemon /\ OwnTypeOK /\ TableOK
    BY TypeParts DEF GenInv, GenerationInv, IndexerTypeOK
  <1>3. ifaults' \in 0 .. MaxIndexerFaults
    <2>1. UNCHANGED ifaults \/ \E kind : IndexerFault(kind)
      BY DEF TickStart, TickList, TickProjectFails, TickReorgs, TickEvictFails, TickEnd,
         TickThrows, IndexerCrash
    <2> QED
      BY <1>2, <2>1, FaultType DEF OwnTypeOK
  <1>4. daemon' \in Daemon /\ CarriedCursor' /\ (CarefulReset => CurrentExists')
    <2>1. CASE TickStart
      <3>1. PICK g \in CurrentOf(gens) :
                daemon' = [daemon EXCEPT !.pc = "list", !.gen = g, !.fwd = gens[g]]
        BY <2>1 DEF TickStart
      <3>2. g \in Gen /\ gens[g].current /\ gens[g] # NoGen
        BY <3>1 DEF CurrentOf, NoGen
      <3>3. gens[g] \in GenRow /\ g \in 1 .. born
        <4>1. gens[g] \in GenRow
          BY <1>2, <3>2 DEF TableOK
        <4>2. ~(g > born)
          BY <1>2, <3>2 DEF TableOK, BornFirst
        <4>3. born \in Nat /\ MaxGen \in Nat
          BY <1>2, IndexerAssumption DEF TableOK
        <4> QED
          BY <3>2, <4>1, <4>2, <4>3 DEF Gen
      <3>4. daemon' \in Daemon /\ daemon'.gen = g /\ daemon'.fwd = gens[g] /\ daemon'.pc = "list"
        BY <1>2, <3>1, <3>2, <3>3 DEF Daemon
      <3>5. CarriedCursor'
        BY <1>1, <3>2, <3>3, <3>4 DEF CarriedCursor
      <3>6. cli' = cli /\ CurrentOf(gens)' # {} /\ daemon.pc = "idle"
        BY <1>1, <2>1, <3>1 DEF CurrentOf, TickStart
      <3> QED
        BY <3>4, <3>5, <3>6 DEF CurrentExists, GenInv
    <2>2. CASE TickList \/ TickReorgs
      <3>1. daemon' \in Daemon
        <4>1. CASE TickList
          <5>1. daemon.fwd.at \in Coord
            BY <1>2, <4>1 DEF TickList, CarriedCursor, InTick, GenInv, GenerationInv, GenRow
          <5> DEFINE page == {r \in ConfirmedAfter(daemon.fwd.at) :
                                Cardinality({s \in ConfirmedAfter(daemon.fwd.at) :
                                                After(r.place, s.place)}) < BatchSize}
          <5>2. page \in SUBSET SourceRow
            BY <5>1, ConfirmedAfterType
          <5>3. daemon' = [daemon EXCEPT !.pc = "project", !.rows = page]
            BY <4>1 DEF TickList
          <5> HIDE DEF page
          <5> QED
            BY <1>2, <5>2, <5>3 DEF Daemon
        <4>2. CASE TickReorgs
          <5> DEFINE page == {r \in ReorgedAfter(daemon.fwd.reorgAt) :
                                Cardinality({s \in ReorgedAfter(daemon.fwd.reorgAt) :
                                                Sooner(s, r)}) < BatchSize}
          <5>1. page \in SUBSET LostRow
            BY ReorgedAfterType
          <5>2. daemon' = [daemon EXCEPT !.pc = "evict", !.lost = page]
            BY <4>2 DEF TickReorgs
          <5> HIDE DEF page
          <5> QED
            BY <1>2, <5>1, <5>2 DEF Daemon
        <4> QED
          BY <2>2, <4>1, <4>2
      <3>2. InTick /\ daemon'.gen = daemon.gen /\ daemon'.fwd = daemon.fwd
            /\ daemon.pc # "down"
        BY <1>2, <2>2 DEF TickList, TickReorgs, Daemon, InTick
      <3> QED
        BY <1>1, <3>1, <3>2 DEF CarriedCursor, CurrentExists, CurrentOf, GenInv, GenerationInv
    <2>3. CASE TickProjectFails
      <3>1. PICK r : daemon' = NotAdvanced(r)
        BY <2>3 DEF TickProjectFails
      <3>2. InTick /\ daemon.pc # "down"
        BY <2>3 DEF TickProjectFails, InTick
      <3> QED
        BY <1>1, <3>1, <3>2, NotAdvancedType, RestingType
           DEF CarriedCursor, CurrentExists, CurrentOf, GenInv, GenerationInv, InTick
    <2>4. CASE TickEvictFails \/ TickEnd \/ TickThrows
      <3>1. daemon' = Resting /\ daemon.pc # "down"
        BY <2>4 DEF TickEvictFails, TickEnd, TickThrows
      <3> QED
        BY <1>1, <3>1, RestingType
           DEF CarriedCursor, CurrentExists, CurrentOf, GenInv, InTick
    <2>5. CASE IndexerCrash
      <3>1. daemon' = Down
        BY <2>5 DEF IndexerCrash
      <3> QED
        BY <1>1, <3>1, RestingType
           DEF CarriedCursor, CurrentExists, CurrentOf, GenInv, InTick
    <2> QED
      BY <2>1, <2>2, <2>3, <2>4, <2>5
  <1>5. OwnTypeOK'
    BY <1>1, <1>2, <1>3, <1>4 DEF OwnTypeOK
  <1> QED
    BY <1>1, <1>4, <1>5, QuietStep

\* A transaction of a pass: it writes the cursor row the tick carries, with
\* new coordinates, and rows of that generation only.
LEMMA CursorStep ==
  ASSUME GenInv, InTick, Accepts(daemon.gen),
         UNCHANGED <<sourceVars, born, cli>>,
         NEW row \in GenRow, row.current, gens' = [gens EXCEPT ![daemon.gen] = row],
         posts' \subseteq Post,
         \A p \in posts' : p \in posts \/ p.gen = daemon.gen,
         ifaults' \in 0 .. MaxIndexerFaults,
         daemon' \in Daemon, CarriedCursor', daemon'.pc # "down"
  PROVE  GenInv' /\ (CarefulReset => FrozenStep)
  <1>1. TableOK /\ OwnTypeOK /\ SourceTypeOK /\ daemon.gen \in 1 .. born
    BY TypeParts DEF GenInv, GenerationInv, CarriedCursor
  <1>2. PICK g : g = daemon.gen
    OBVIOUS
  <1>3. /\ TableOK' /\ CurrentOf(gens)' # {}
        /\ \A h \in Gen : h # g => gens'[h] = gens[h]
    BY <1>1, <1>2, UpsertCursorStep
  <1>4. SourceTypeOK' /\ ConfirmedHasBatch'
    BY <1>1 DEF GenInv, GenerationInv, SourceTypeOK, HistoryType, StoreTypeOK, ConfirmedHasBatch,
       sourceVars, storeVars
  <1>5. OwnTypeOK'
    BY <1>1 DEF OwnTypeOK
  <1>6. IndexerTypeOK' /\ BornFirst'
    BY <1>3, <1>4, <1>5, TypeParts, PTL
  <1>7. CarefulReset => CurrentExists'
    BY <1>3 DEF GenInv, CurrentExists, Accepts
  <1>8. ASSUME CarefulReset PROVE FrozenStep
    <2>1. g \in CurrentOf(gens)
      BY <1>2, <1>8 DEF GenInv, CurrentExists, Accepts
    <2>2. ASSUME NEW h \in 1 .. born, ~gens[h].current
          PROVE  /\ {p \in posts' : p.gen = h} \subseteq PostsOf(h)
                 /\ gens'[h] = gens[h]
      <3>1. h \in Gen /\ h # g
        BY <1>1, <2>1, <2>2, IndexerAssumption DEF TableOK, Gen, CurrentOf
      <3> QED
        BY <1>2, <1>3, <3>1 DEF PostsOf
    <2> QED
      BY <2>2 DEF FrozenStep
  <1> QED
    BY <1>4, <1>6, <1>7, <1>8 DEF GenInv, GenerationInv

LEMMA ProjectedType ==
  ASSUME GenInv, NEW g \in Gen, NEW r \in SourceRow
  PROVE  /\ Projected(g, r) \subseteq Post
         /\ \A p \in Projected(g, r) : p \in posts \/ p.gen = g
  <1>1. [gen |-> g, key |-> r.key, batch |-> r.batch, place |-> r.place] \in Post
    BY DEF Post, SourceRow
  <1>2. posts \subseteq Post
    BY DEF GenInv, GenerationInv, IndexerTypeOK
  <1> QED
    BY <1>1, <1>2 DEF Projected

LEMMA ProjectStep == GenInv /\ TickProject => GenInv' /\ (CarefulReset => FrozenStep)
  <1> SUFFICES ASSUME GenInv, TickProject PROVE GenInv' /\ (CarefulReset => FrozenStep)
    OBVIOUS
  <1>1. InTick /\ UNCHANGED <<sourceVars, born, cli>>
    BY DEF TickProject, InTick
  <1>2. PICK r \in daemon.rows :
          /\ Accepts(daemon.gen)
          /\ posts' = Projected(daemon.gen, r)
          /\ gens' = [gens EXCEPT ![daemon.gen] = [daemon.fwd EXCEPT !.at = r.place]]
          /\ \/ /\ daemon' = [daemon EXCEPT !.fwd = gens'[daemon.gen], !.rows = @ \ {r}]
                /\ UNCHANGED ifaults
             \/ IndexerFault("ack") /\ daemon' = NotAdvanced(r)
    BY DEF TickProject
  <1>3. /\ daemon \in Daemon /\ TableOK /\ ifaults \in 0 .. MaxIndexerFaults
        /\ daemon.gen \in 1 .. born /\ daemon.fwd \in GenRow /\ daemon.fwd.current
    BY <1>1, TypeParts DEF GenInv, GenerationInv, CarriedCursor, OwnTypeOK
  <1>4. r \in SourceRow /\ r.place \in Coord
    BY <1>2, <1>3 DEF Daemon, SourceRow
  <1> DEFINE row == [daemon.fwd EXCEPT !.at = r.place]
  <1>5. row \in GenRow /\ row.current
    BY <1>3, <1>4 DEF GenRow
  <1>6. daemon.gen \in Gen
    BY <1>3, IndexerAssumption DEF TableOK, Gen
  <1>7. gens' = [gens EXCEPT ![daemon.gen] = row] /\ gens'[daemon.gen] = row
    BY <1>2, <1>3, <1>6 DEF TableOK
  <1> HIDE DEF row
  <1>8. posts' \subseteq Post /\ \A p \in posts' : p \in posts \/ p.gen = daemon.gen
    BY <1>2, <1>4, <1>6, ProjectedType
  <1>9. ifaults' \in 0 .. MaxIndexerFaults
    BY <1>2, <1>3, FaultType
  <1>10. daemon' \in Daemon /\ CarriedCursor' /\ daemon'.pc # "down"
    <2>1. CASE daemon' = [daemon EXCEPT !.fwd = gens'[daemon.gen], !.rows = @ \ {r}]
      <3>1. /\ daemon' \in Daemon /\ daemon'.gen = daemon.gen /\ daemon'.fwd = row
            /\ daemon'.pc = daemon.pc
        BY <1>3, <1>5, <1>7, <2>1 DEF Daemon
      <3> QED
        BY <1>1, <1>3, <1>5, <3>1 DEF CarriedCursor, InTick
    <2>2. CASE daemon' = NotAdvanced(r)
      BY <1>1, <1>3, <2>2, NotAdvancedType, RestingType DEF CarriedCursor, InTick
    <2> QED
      BY <1>2, <2>1, <2>2
  <1> QED
    BY <1>1, <1>2, <1>5, <1>7, <1>8, <1>9, <1>10, CursorStep

LEMMA EvictStep == GenInv /\ TickEvict => GenInv' /\ (CarefulReset => FrozenStep)
  <1> SUFFICES ASSUME GenInv, TickEvict PROVE GenInv' /\ (CarefulReset => FrozenStep)
    OBVIOUS
  <1>1. InTick /\ UNCHANGED <<sourceVars, born, cli>>
    BY DEF TickEvict, InTick
  <1> DEFINE row(r) == [daemon.fwd EXCEPT !.reorgAt = IF r.stamp > @ THEN r.stamp ELSE @]
  <1>2. PICK r \in daemon.lost :
          /\ Accepts(daemon.gen)
          /\ posts' = Evicted(r)
          /\ gens' = [gens EXCEPT ![daemon.gen] = row(r)]
          /\ \/ /\ daemon' = [daemon EXCEPT !.fwd = gens'[daemon.gen], !.lost = @ \ {r}]
                /\ UNCHANGED ifaults
             \/ IndexerFault("ack") /\ daemon' = Resting
    BY DEF TickEvict
  <1>3. /\ daemon \in Daemon /\ TableOK /\ ifaults \in 0 .. MaxIndexerFaults
        /\ posts \subseteq Post
        /\ daemon.gen \in 1 .. born /\ daemon.fwd \in GenRow /\ daemon.fwd.current
    BY <1>1, TypeParts DEF GenInv, GenerationInv, CarriedCursor, OwnTypeOK
  <1>4. r.stamp \in Nat
    BY <1>2, <1>3 DEF Daemon, LostRow
  <1>5. row(r) \in GenRow /\ row(r).current
    BY <1>3, <1>4 DEF GenRow
  <1>6. daemon.gen \in Gen
    BY <1>3, IndexerAssumption DEF TableOK, Gen
  <1>7. gens'[daemon.gen] = row(r)
    BY <1>2, <1>3, <1>6 DEF TableOK
  <1> HIDE DEF row
  <1>8. posts' \subseteq Post /\ \A p \in posts' : p \in posts \/ p.gen = daemon.gen
    BY <1>2, <1>3 DEF Evicted
  <1>9. ifaults' \in 0 .. MaxIndexerFaults
    BY <1>2, <1>3, FaultType
  <1>10. daemon' \in Daemon /\ CarriedCursor' /\ daemon'.pc # "down"
    <2>1. CASE daemon' = [daemon EXCEPT !.fwd = gens'[daemon.gen], !.lost = @ \ {r}]
      <3>1. /\ daemon' \in Daemon /\ daemon'.gen = daemon.gen /\ daemon'.fwd = row(r)
            /\ daemon'.pc = daemon.pc
        BY <1>3, <1>5, <1>7, <2>1 DEF Daemon
      <3> QED
        BY <1>1, <1>3, <1>5, <3>1 DEF CarriedCursor, InTick
    <2>2. CASE daemon' = Resting
      BY <2>2, RestingType DEF CarriedCursor, InTick
    <2> QED
      BY <1>2, <2>1, <2>2
  <1> QED
    BY <1>1, <1>2, <1>5, <1>8, <1>9, <1>10, CursorStep

\* The deletions of the reset command.
LEMMA DeletingStep ==
  ASSUME GenInv, NEW S \in SUBSET Gen,
         gens' = [g \in Gen |-> IF g \in S THEN NoGen ELSE gens[g]],
         posts' \subseteq posts, cli' \in Cli,
         UNCHANGED <<sourceVars, born, daemon, ifaults>>,
         CarefulReset => CurrentExists'
  PROVE  GenInv' /\ FrozenStep
  <1>1. TableOK /\ OwnTypeOK /\ SourceTypeOK
    BY TypeParts DEF GenInv, GenerationInv
  <1>2. TableOK' /\ \A g \in Gen : gens'[g] = NoGen \/ gens'[g] = gens[g]
    BY <1>1, DeleteStep
  <1>3. SourceTypeOK' /\ ConfirmedHasBatch' /\ OwnTypeOK' /\ CarriedCursor'
    BY <1>1 DEF GenInv, GenerationInv, SourceTypeOK, HistoryType, StoreTypeOK, ConfirmedHasBatch,
       sourceVars, storeVars, OwnTypeOK, CarriedCursor, InTick
  <1>4. IndexerTypeOK' /\ BornFirst'
    BY <1>2, <1>3, TypeParts, PTL
  <1>5. FrozenStep
    <2>1. \A g \in 1 .. born : g \in Gen
      BY <1>1, IndexerAssumption DEF TableOK, Gen
    <2>2. ~NoGen.current
      BY DEF NoGen
    <2> QED
      BY <1>2, <2>1, <2>2 DEF FrozenStep, PostsOf
  <1> QED
    BY <1>3, <1>4, <1>5 DEF GenInv, GenerationInv

LEMMA ResetStep ==
  GenInv /\ ((\E g \in Gen : ResetGen(g)) \/ ResetDrop \/ ResetForget \/ ResetCrash)
    => GenInv' /\ FrozenStep
  <1> SUFFICES ASSUME GenInv PROVE
          ((\E g \in Gen : ResetGen(g)) \/ ResetDrop \/ ResetForget \/ ResetCrash)
             => GenInv' /\ FrozenStep
    OBVIOUS
  <1>1. cli \in Cli /\ TableOK /\ OwnTypeOK
    BY TypeParts DEF GenInv, GenerationInv, OwnTypeOK
  <1>2. /\ \A pc \in {"idle", "dropped"} : [cli EXCEPT !.pc = pc] \in Cli
                                           /\ [cli EXCEPT !.pc = pc].pc = pc
        /\ [cli EXCEPT !.pc = "idle", !.died = TRUE] \in Cli
        /\ [cli EXCEPT !.pc = "idle", !.died = TRUE].pc = "idle"
    BY <1>1 DEF Cli
  <1>3. ASSUME NEW g \in Gen, ResetGen(g) PROVE GenInv' /\ FrozenStep
    <2>1. cli' \in Cli /\ cli'.pc = "idle"
      BY <1>2, <1>3 DEF ResetGen
    <2>2. gens' = [h \in Gen |-> IF h \in {g} THEN NoGen ELSE gens[h]]
      BY <1>1, <1>3 DEF ResetGen, TableOK
    <2>3. posts' \subseteq posts /\ UNCHANGED <<sourceVars, born, daemon, ifaults>>
      BY <1>3 DEF ResetGen
    <2>4. CarefulReset => CurrentExists'
      <3>1. ASSUME CarefulReset, InTick PROVE CurrentOf(gens)' # {}
        <4>1. ~gens[g].current
          BY <1>3, <3>1 DEF ResetGen, Stopped, InTick
        <4>2. PICK h \in Gen : gens[h].current
          BY <3>1 DEF GenInv, CurrentExists, CurrentOf
        <4> QED
          BY <2>2, <4>1, <4>2 DEF CurrentOf
      <3> QED
        BY <2>1, <2>3, <3>1 DEF CurrentExists, InTick
    <2> QED
      BY <2>1, <2>2, <2>3, <2>4, DeletingStep
  <1>4. ASSUME ResetDrop PROVE GenInv' /\ FrozenStep
    <2>1. cli' \in Cli /\ cli'.pc = "dropped"
      BY <1>2, <1>4 DEF ResetDrop
    <2> PICK S \in SUBSET Gen : S = {}
      OBVIOUS
    <2>2. gens' = [h \in Gen |-> IF h \in S THEN NoGen ELSE gens[h]]
      BY <1>1, <1>4 DEF ResetDrop, TableOK
    <2>3. posts' \subseteq posts /\ UNCHANGED <<sourceVars, born, daemon, ifaults>>
      BY <1>4 DEF ResetDrop
    <2>4. CarefulReset => CurrentExists'
      <3>1. ASSUME CarefulReset PROVE daemon.pc = "down"
        <4>1. PICK g \in CurrentOf(gens) : TRUE
          BY <1>4, <3>1 DEF GenInv, CurrentExists, ResetDrop
        <4> QED
          BY <1>4, <3>1, <4>1 DEF ResetDrop, Stopped, CurrentOf
      <3> QED
        BY <2>1, <2>3, <3>1 DEF CurrentExists, InTick
    <2> QED
      BY <2>1, <2>2, <2>3, <2>4, DeletingStep
  <1>5. ASSUME ResetForget PROVE GenInv' /\ FrozenStep
    <2>1. cli' \in Cli /\ cli'.pc = "idle"
      BY <1>2, <1>5 DEF ResetForget
    <2>2. gens' = [h \in Gen |-> IF h \in Gen THEN NoGen ELSE gens[h]]
      BY <1>5 DEF ResetForget
    <2>3. posts' \subseteq posts /\ UNCHANGED <<sourceVars, born, daemon, ifaults>>
      BY <1>5 DEF ResetForget
    <2>4. CarefulReset => CurrentExists'
      BY <1>5, <2>1, <2>3 DEF GenInv, CurrentExists, InTick, ResetForget
    <2> QED
      BY <2>1, <2>2, <2>3, <2>4, DeletingStep
  <1>6. ASSUME ResetCrash PROVE GenInv' /\ FrozenStep
    <2>1. cli' \in Cli /\ cli'.pc = "idle" /\ ifaults' \in 0 .. MaxIndexerFaults
      BY <1>1, <1>2, <1>6, FaultType DEF ResetCrash, OwnTypeOK
    <2>2. UNCHANGED <<sourceVars, gens, born, posts, daemon>>
      BY <1>6 DEF ResetCrash
    <2>3. OwnTypeOK' /\ CarriedCursor'
      BY <1>1, <2>1, <2>2 DEF OwnTypeOK, CarriedCursor, InTick, GenInv, GenerationInv
    <2>4. CarefulReset => CurrentExists'
      BY <1>6, <2>1, <2>2 DEF GenInv, CurrentExists, InTick, ResetCrash
    <2> QED
      BY <2>2, <2>3, <2>4, QuietStep
  <1> QED
    BY <1>3, <1>4, <1>5, <1>6

-----------------------------------------------------------------------------
(* Theorems *)

LEMMA InitInv == IndexerInit => GenInv
  <1> SUFFICES ASSUME IndexerInit PROVE GenInv
    OBVIOUS
  <1>1. MaxGen \in Nat /\ Genesis \in Coord
    BY IndexerAssumption DEF Genesis, Coord
  <1>2. StoreTypeOK
    BY BamStoreAssumption DEF IndexerInit, StoreInit, StoreTypeOK, NonceRow, NoNonce
  <1>3. Down \in Daemon /\ [pc |-> "idle", runs |-> 0, died |-> FALSE] \in Cli
    BY RestingType DEF Cli
  <1>4. IndexerTypeOK
    <2>1. SourceTypeOK
      BY <1>1, <1>2, IndexerAssumption DEF IndexerInit, SourceTypeOK, HistoryType
    <2>2. TableOK
      BY <1>1 DEF IndexerInit, TableOK, BornFirst, NoGen
    <2>3. OwnTypeOK
      BY <1>3, IndexerAssumption DEF IndexerInit, OwnTypeOK
    <2> QED
      BY <2>1, <2>2, <2>3, TypeParts
  <1>5. ConfirmedHasBatch
    BY DEF IndexerInit, StoreInit, NoMessage, ConfirmedHasBatch
  <1>6. CarriedCursor /\ BornFirst /\ CurrentExists
    BY RestingType DEF IndexerInit, CarriedCursor, BornFirst, CurrentExists, InTick
  <1> QED
    BY <1>4, <1>5, <1>6 DEF GenInv, GenerationInv

LEMMA NextInv ==
  GenInv /\ [IndexerNext]_indexerVars
    => GenInv' /\ (CarefulReset => (FrozenStep \/ UNCHANGED indexerVars))
  <1> SUFFICES ASSUME GenInv, [IndexerNext]_indexerVars
               PROVE  GenInv' /\ (CarefulReset => (FrozenStep \/ UNCHANGED indexerVars))
    OBVIOUS
  <1>1. CASE Source
    BY <1>1, SourceStep
  <1>2. ASSUME NEW v \in CodeVersions, Boot(v) \/ ResetStart(v)
        PROVE  GenInv' /\ FrozenStep
    BY <1>2, MigratingStep
  <1>3. CASE TickStart \/ TickList \/ TickProjectFails \/ TickReorgs \/ TickEvictFails
             \/ TickEnd \/ TickThrows \/ IndexerCrash
    BY <1>3, IdleStep
  <1>4. CASE TickProject
    BY <1>4, ProjectStep
  <1>5. CASE TickEvict
    BY <1>5, EvictStep
  <1>6. CASE (\E g \in Gen : ResetGen(g)) \/ ResetDrop \/ ResetForget \/ ResetCrash
    BY <1>6, ResetStep
  <1>7. CASE UNCHANGED indexerVars
    <2>1. UNCHANGED <<sourceVars, gens, born, posts, daemon, cli, ifaults>>
      BY <1>7 DEF indexerVars
    <2>2. OwnTypeOK
      BY TypeParts DEF GenInv, GenerationInv
    <2>3. OwnTypeOK' /\ CarriedCursor' /\ (CarefulReset => CurrentExists')
      BY <2>1, <2>2 DEF OwnTypeOK, CarriedCursor, CurrentExists, CurrentOf, InTick,
         GenInv, GenerationInv
    <2> QED
      BY <2>1, <2>3, QuietStep
  <1> QED
    BY <1>1, <1>2, <1>3, <1>4, <1>5, <1>6, <1>7 DEF IndexerNext, Tick, Reset

\* Every reachable state of the Indexer is well typed and has at most one
\* current generation (the migration's flip and insert, the unique index).
THEOREM IndexerTypesOK == IndexerSpec => []IndexerTypeOK
  <1>1. GenInv => IndexerTypeOK
    BY DEF GenInv, GenerationInv
  <1> QED
    BY InitInv, NextInv, <1>1, PTL DEF IndexerSpec

\* A superseded or deleted generation gains no row, does not become current
\* and does not exist again, for any number of migrations, crashes and resets
\* of an operator who stops the daemon before its generation is reset.
THEOREM FrozenGenerations ==
  ASSUME CarefulReset
  PROVE  IndexerSpec => FrozenStaysFrozen
  <1>1. GenInv /\ [IndexerNext]_indexerVars => [FrozenStep]_indexerVars
    BY NextInv
  <1>2. [FrozenStep]_indexerVars =>
           [\A g \in 1 .. born : ~gens[g].current =>
              /\ {p \in posts' : p.gen = g} \subseteq PostsOf(g)
              /\ ~gens'[g].current
              /\ gens[g] = NoGen => gens'[g] = NoGen]_indexerVars
    BY DEF FrozenStep
  <1> QED
    BY InitInv, NextInv, <1>1, <1>2, PTL DEF IndexerSpec, FrozenStaysFrozen

-----------------------------------------------------------------------------
(***************************************************************************)
(* The two cursors: nothing at or below the forward cursor is missing from *)
(* the handler's table unless it was confirmed late, and no post of a lost *)
(* batch falls behind the reorg cursor unless its stamp is tied.  First    *)
(* the inductive invariants.                                               *)
(***************************************************************************)

\* A confirmed message has a place on the chain, and its batch is confirmed.
SourceBacked ==
    \A k \in Key : messages[k].status = "confirmed" =>
        /\ After(places[k], Genesis)
        /\ batches[<<messages[k].batchRef, TagOf[messages[k].body]>>].status = "confirmed"

\* The cursor row that a tick carries may lag behind the stored one, after a
\* commit that was reported as a failure, but only in the forward coordinate.
CursorsLag ==
    InTick /\ gens[daemon.gen].current =>
        /\ ~After(daemon.fwd.at, gens[daemon.gen].at)
        /\ daemon.fwd.reorgAt = gens[daemon.gen].reorgAt

\* A page holds rows ahead of the cursor that asked for it.
PageAhead == daemon.pc = "project" => \A r \in daemon.rows : After(r.place, daemon.fwd.at)

CommonInv == SourceBacked /\ CursorsLag /\ PageAhead

RowOf(k) == [key |-> k, body |-> messages[k].body, batch |-> messages[k].batchRef, place |-> places[k]]

\* A message that was not confirmed behind the pass of the daemon's generation.
InTimeFor(k) == <<daemon.gen, k>> \notin late

\* What is left of a page, with a row of a message at most: a message in time that the source serves
\* ahead of the cursor is in it as the source has it, or comes after all of it; and a row of a
\* message in time that is no longer as the source has it stands for one that is still ahead.
PageFaithful ==
    daemon.pc = "project" /\ gens[daemon.gen].current =>
        /\ \A r, s \in daemon.rows : r.key = s.key => r = s
        /\ \A r \in daemon.rows : r.key \in ServedKeys /\ InTimeFor(r.key) =>
              After(places[r.key], daemon.fwd.at)
        /\ \A k \in ServedKeys : InTimeFor(k) /\ After(places[k], daemon.fwd.at) =>
              RowOf(k) \in daemon.rows \/ \A r \in daemon.rows : After(places[k], r.place)

\* A lost batch that was confirmed again since is ahead of the cursor, or late.
LostAhead ==
    daemon.pc = "evict" /\ gens[daemon.gen].current =>
        \A r \in daemon.lost, k \in ServedKeys :
            messages[k].batchRef = r.batch /\ InTimeFor(k) => After(places[k], daemon.fwd.at)

ForwardInv == PageFaithful /\ LostAhead /\ BehindCursor

-----------------------------------------------------------------------------
\* No reorg is stamped later than the clock, and what is not tied has its stamp for itself.
StampsOrdered ==
    /\ \A e \in BatchId : stamps[e] <= clock /\ (batches[e].status = "reorged" => stamps[e] > 0)
    /\ \A t, u \in Tx : Reorged(t) /\ t \notin tied /\ StampOf(t) = StampOf(u) => t = u
    /\ \A g \in Gen : gens[g].reorgAt <= clock
    /\ InTick => daemon.fwd.reorgAt <= clock
    /\ daemon.pc = "evict" => \A r \in daemon.lost : r.stamp <= clock

\* A row of the page whose batch is lost by now was lost after the cursor.
PageLostLater ==
    daemon.pc = "project" =>
        \A r \in daemon.rows : Reorged(r.batch) /\ r.batch \notin tied =>
            StampOf(r.batch) > daemon.fwd.reorgAt

\* What is left of the page of reorgs: a post to evict is in it, or comes after all of it.
LostFaithful ==
    daemon.pc = "evict" =>
        /\ \A r \in daemon.lost : r.stamp >= daemon.fwd.reorgAt
        /\ \A r \in daemon.lost, t \in Tx :
              Reorged(t) /\ t \notin tied /\ StampOf(t) = r.stamp => t = r.batch
        /\ \A p \in posts :
              Reorged(p.batch) /\ p.batch \notin tied /\ StampOf(p.batch) > daemon.fwd.reorgAt =>
              \/ [batch |-> p.batch, stamp |-> StampOf(p.batch)] \in daemon.lost
              \/ \A r \in daemon.lost : StampOf(p.batch) > r.stamp

CascadeInv == StampsOrdered /\ PageLostLater /\ LostFaithful /\ ReorgsCascade

-----------------------------------------------------------------------------
(* The order of places *)

LEMMA AfterOrder ==
  ASSUME NEW c \in Coord, NEW d \in Coord, NEW e \in Coord
  PROVE  /\ ~After(c, c)
         /\ After(c, d) => ~After(d, c)
         /\ After(c, d) /\ After(d, e) => After(c, e)
         /\ After(c, d) /\ ~After(e, d) => After(c, e)
         /\ ~After(d, c) /\ After(d, e) => After(c, e)
         /\ ~After(c, d) /\ ~After(d, e) => ~After(c, e)
  BY DEF After, Coord

-----------------------------------------------------------------------------
(* What the source does to the rows *)

\* A message is late for the same generations as before, or for those whose pass has been at it.
SameLate(k) == \A g \in Gen : <<g, k>> \in late' <=> <<g, k>> \in late
LateIfPassed(k) == \A g \in Gen : <<g, k>> \in late' <=> Passed(g, places'[k])

LEMMA ConfirmRows ==
  ASSUME GenInv, NEW t \in Tx, NEW block \in Blocks[t], Confirm(t, block)
  PROVE  /\ \A k \in Key :
              \/ messages'[k] = messages[k] /\ places'[k] = places[k] /\ SameLate(k)
              \/ /\ messages'[k].batchRef = t /\ messages'[k].body \in Bodies
                 /\ batches'[<<t, TagOf[messages'[k].body]>>].status = "confirmed"
                 /\ After(places'[k], Genesis)
                 /\ LateIfPassed(k)
         /\ \A e \in BatchId :
              \/ batches'[e] = batches[e] /\ stamps'[e] = stamps[e]
              \/ batches'[e].status = "confirmed" /\ stamps'[e] = 0
         /\ clock' = clock /\ tied' = {u \in tied : Reorged(u)'}
  <1> DEFINE fresh == {m \in Carried[t] : ~ObservedConflict(messages, m)}
             row(k) == CHOOSE m \in fresh : m.key = k
             tags == {TagOfEntry(m) : m \in Carried[t]}
             rows == [k \in {m.key : m \in fresh} |->
                         [status |-> "confirmed", body |-> row(k).body,
                          batchRef |-> t, ingestSeq |-> 0]]
             brows == [e \in {t} \X tags |->
                         [status |-> "confirmed", blockNumber |-> block,
                          replacedBy |-> NoTx, submittedAt |-> FALSE,
                          invalidatedAt |-> FALSE,
                          snapshot |-> {m \in fresh : TagOfEntry(m) = e[2]}]]
             at(m) == <<block, t, Position[m.key]>>
  <1>1. /\ batches' = UpsertBatch(batches, brows)
        /\ messages' = UpsertObserved(messages, rows)
        /\ places' = [k \in Key |->
              IF messages'[k] # messages[k] THEN at(row(k)) ELSE places[k]]
        /\ stamps' = [e \in BatchId |-> IF e \in {t} \X tags THEN 0 ELSE stamps[e]]
        /\ clock' = clock /\ tied' = {u \in tied : Reorged(u)'}
    BY DEF Confirm
  <1>2. fresh \subseteq Entry /\ fresh \subseteq Carried[t]
    BY IndexerAssumption
  <1>3. \A k \in {m.key : m \in fresh} : row(k) \in fresh /\ row(k).key = k
    OBVIOUS
  <1>4. messages \in MessageTable /\ batches \in BatchTable
    BY DEF GenInv, GenerationInv, IndexerTypeOK, StoreTypeOK, MessageTable, BatchTable
  <1>5. \A k \in Key : messages'[k] # messages[k] => k \in {m.key : m \in fresh} /\ messages'[k] = rows[k]
    BY <1>1, <1>4 DEF UpsertObserved, MessageTable
  <1>6. \A e \in BatchId : \/ batches'[e] = batches[e] /\ stamps'[e] = stamps[e]
                           \/ batches'[e].status = "confirmed" /\ stamps'[e] = 0
    <2>1. \A e \in DOMAIN brows : brows[e].status = "confirmed"
      OBVIOUS
    <2>2. \A e \in DOMAIN brows : MergeBatch(batches[e], brows[e]).status = "confirmed"
      BY DEF MergeBatch
    <2>3. DOMAIN brows = {t} \X tags
      OBVIOUS
    <2> HIDE DEF brows, tags
    <2> QED
      BY <1>1, <1>4, <2>1, <2>2, <2>3 DEF UpsertBatch, BatchTable
  <1>7. \A tag \in tags : <<t, tag>> \in BatchId => batches'[<<t, tag>>].status = "confirmed"
    <2>1. \A e \in DOMAIN brows : brows[e].status = "confirmed"
      OBVIOUS
    <2>2. \A e \in DOMAIN brows : MergeBatch(batches[e], brows[e]).status = "confirmed"
      BY DEF MergeBatch
    <2>3. \A tag \in tags : <<t, tag>> \in DOMAIN brows
      OBVIOUS
    <2> HIDE DEF brows
    <2> QED
      BY <1>1, <1>4, <2>1, <2>2, <2>3 DEF UpsertBatch, BatchTable
  <1>8. ASSUME NEW k \in Key, messages'[k] # messages[k]
        PROVE  /\ messages'[k].batchRef = t /\ messages'[k].body \in Bodies
               /\ batches'[<<t, TagOf[messages'[k].body]>>].status = "confirmed"
               /\ After(places'[k], Genesis)
    <2>1. row(k) \in fresh /\ row(k) \in Entry /\ row(k) \in Carried[t] /\ row(k).key = k
      BY <1>2, <1>3, <1>5, <1>8
    <2>2. messages'[k].batchRef = t /\ messages'[k].body = row(k).body /\ row(k).body \in Bodies
      <3>1. k \in {m.key : m \in fresh} /\ messages'[k] = rows[k]
        BY <1>5, <1>8
      <3>2. rows[k].batchRef = t /\ rows[k].body = row(k).body
        BY <3>1
      <3> HIDE DEF rows, row
      <3> QED
        BY <2>1, <3>1, <3>2 DEF Entry
    <2>3. TagOf[row(k).body] \in tags /\ TagOf[row(k).body] \in Tags
      BY <2>1, <2>2, BamStoreAssumption DEF TagOfEntry
    <2>4. places'[k] = at(row(k))
      BY <1>1, <1>8
    <2>5. After(at(row(k)), Genesis)
      BY IndexerAssumption DEF After, Genesis
    <2> HIDE DEF row, at, tags
    <2>6. <<t, TagOf[row(k).body]>> \in BatchId
      BY <2>3 DEF BatchId
    <2> QED
      BY <1>1, <1>7, <2>1, <2>2, <2>3, <2>4, <2>5, <2>6
  <1>9. \A k \in Key : messages'[k] = messages[k] => places'[k] = places[k]
    BY <1>1
  <1>10. late' = {l \in Gen \X Key :
            IF messages'[l[2]] # messages[l[2]] THEN Passed(l[1], places'[l[2]]) ELSE l \in late}
    BY DEF Confirm
  <1>11. \A k \in Key : IF messages'[k] # messages[k] THEN LateIfPassed(k) ELSE SameLate(k)
    BY <1>10 DEF LateIfPassed, SameLate
  <1> HIDE DEF fresh, row, tags, rows, brows, at
  <1> QED
    BY <1>1, <1>6, <1>8, <1>9, <1>11

\* The stamp of a reorg is newer than all, or its batch and those that have it are tied.
StampedAt(t, now) ==
    \/ now > clock /\ clock' = now /\ tied' = tied \ {t}
    \/ now <= clock /\ clock' = clock /\ tied' = tied \cup {t} \cup {u \in Tx : StampOf(u) = now}

LEMMA LoseRows ==
  ASSUME GenInv, NEW t \in Tx, Lose(t)
  PROVE  /\ places' = places
         /\ \A k \in Key : messages'[k].status = "confirmed" =>
               messages'[k] = messages[k] /\ messages[k].batchRef # t /\ SameLate(k)
         /\ \A e \in BatchId : e[1] # t => batches'[e] = batches[e]
         /\ \E now \in 1 .. MaxStamp :
              /\ StampedAt(t, now)
              /\ \A e \in BatchId :
                   \/ batches'[e] = batches[e] /\ stamps'[e] = stamps[e]
                      /\ (e[1] = t => batches[e].status = "absent")
                   \/ e[1] = t /\ batches'[e].status = "reorged" /\ stamps'[e] = now
  <1>1. /\ messages \in MessageTable /\ batches \in BatchTable
        /\ clock \in Nat /\ stamps \in [BatchId -> Nat]
        /\ late \subseteq Gen \X Key
    BY DEF GenInv, GenerationInv, IndexerTypeOK, StoreTypeOK, MessageTable, BatchTable
  <1>2. PICK now \in 1 .. MaxStamp :
            /\ clock' = IF now > clock THEN now ELSE clock
            /\ tied' = IF now > clock THEN tied \ {t} ELSE tied \cup {t} \cup {u \in Tx : StampOf(u) = now}
            /\ stamps' = [e \in BatchId |->
                    IF e[1] = t /\ batches[e].status # "absent" THEN now ELSE stamps[e]]
    BY DEF Lose
  <1>3. /\ places' = places
        /\ messages' = ReorgMessages(messages, t) /\ batches' = ReorgBatches(batches, t)
        /\ late' = {l \in late : messages'[l[2]].status = "confirmed"}
    BY DEF Lose
  <1>4. \A k \in Key : messages'[k].status = "confirmed" =>
           messages'[k] = messages[k] /\ messages[k].batchRef # t
    BY <1>1, <1>3 DEF ReorgMessages, MessageTable, MessageRow, NoMessage
  <1>5. \A k \in Key : messages'[k].status = "confirmed" => SameLate(k)
    BY <1>1, <1>3 DEF SameLate
  <1>6. ASSUME NEW e \in BatchId
        PROVE  \/ batches'[e] = batches[e] /\ stamps'[e] = stamps[e]
                  /\ (e[1] = t => batches[e].status = "absent")
               \/ e[1] = t /\ batches'[e].status = "reorged" /\ stamps'[e] = now
    <2>1. batches[e].status # "absent" => batches[e] \in BatchRow
      BY <1>1 DEF BatchTable, NoBatch
    <2> QED
      BY <1>1, <1>2, <1>3, <2>1 DEF ReorgBatches, BatchTable, BatchRow
  <1>7. StampedAt(t, now)
    <2>1. now \in Nat
      BY IndexerAssumption
    <2> QED
      BY <1>1, <1>2, <2>1 DEF StampedAt
  <1> QED
    BY <1>3, <1>4, <1>5, <1>6, <1>7

-----------------------------------------------------------------------------
(* What the steps do to the cursors *)

LEMMA MigrateRows ==
  ASSUME TableOK, NEW v \in CodeVersions, Migrate(v)
  PROVE  \A g \in Gen :
           /\ gens'[g].at \in {gens[g].at, Genesis}
           /\ gens'[g].reorgAt \in {gens[g].reorgAt, -1}
           /\ gens'[g].current => \/ gens'[g] = gens[g]
                                  \/ g = born + 1 /\ gens'[g].at = Genesis /\ gens'[g].reorgAt = -1
  <1>1. CASE UNCHANGED gens
    BY <1>1
  <1>2. CASE born < MaxGen /\ gens' = OpenGen(gens, v)
    <2> DEFINE new == [version |-> v, current |-> TRUE, at |-> Genesis, reorgAt |-> -1]
               sup == Supersede(gens)
    <2>1. /\ sup \in [Gen -> GenRow \cup {NoGen}]
          /\ \A g \in Gen : ~sup[g].current
      BY SupersedeType DEF TableOK
    <2>2. \A g \in Gen : sup[g].at = gens[g].at /\ sup[g].reorgAt = gens[g].reorgAt
      <3>1. \A g \in Gen : gens[g].current => gens[g] \in GenRow
        BY DEF TableOK, NoGen
      <3>2. \A r \in GenRow : [r EXCEPT !.current = FALSE].at = r.at
                              /\ [r EXCEPT !.current = FALSE].reorgAt = r.reorgAt
        BY DEF GenRow
      <3> QED
        BY <3>1, <3>2 DEF Supersede
    <2>3. gens' = [sup EXCEPT ![born + 1] = new]
      BY <1>2 DEF OpenGen
    <2>4. new.at = Genesis /\ new.reorgAt = -1
      OBVIOUS
    <2> HIDE DEF new, sup
    <2> QED
      BY <2>1, <2>2, <2>3, <2>4
  <1> QED
    BY <1>1, <1>2 DEF Migrate

\* With a current generation next to the tick, what the unique index accepts is the row of that
\* generation.
LEMMA AcceptedIsCurrent ==
  ASSUME GenInv, CarefulReset, InTick, Accepts(daemon.gen)
  PROVE  /\ daemon.gen \in Gen /\ daemon.gen \in 1 .. born /\ gens[daemon.gen].current
         /\ \A g \in Gen : gens[g].current => g = daemon.gen
  <1>1. TableOK /\ daemon.gen \in 1 .. born
    BY TypeParts DEF GenInv, GenerationInv, CarriedCursor
  <1>2. daemon.gen \in Gen
    BY <1>1, IndexerAssumption DEF TableOK, Gen
  <1>3. CurrentOf(gens) = {daemon.gen}
    BY DEF GenInv, CurrentExists, Accepts
  <1> QED
    BY <1>1, <1>2, <1>3 DEF CurrentOf

\* The committed transaction of projectOne.
Advanced(r) ==
    /\ r \in SourceRow /\ NextRow(r)
    /\ daemon.gen \in Gen /\ gens[daemon.gen].current
    /\ \A g \in Gen : gens[g].current => g = daemon.gen
    /\ posts' = Projected(daemon.gen, r)
    /\ gens'[daemon.gen].at = r.place /\ gens'[daemon.gen].reorgAt = daemon.fwd.reorgAt
    /\ \A g \in Gen \ {daemon.gen} : gens'[g] = gens[g]
    /\ \/ /\ daemon'.pc = "project" /\ daemon'.gen = daemon.gen
          /\ daemon'.fwd = gens'[daemon.gen] /\ daemon'.rows = daemon.rows \ {r}
       \/ /\ daemon'.pc = "project" /\ daemon'.gen = daemon.gen
          /\ daemon'.fwd = daemon.fwd /\ daemon'.rows = {}
       \/ daemon'.pc = "idle"

LEMMA ProjectRows ==
  ASSUME GenInv, CarefulReset, TickProject
  PROVE  /\ UNCHANGED <<sourceVars, born, cli>> /\ daemon.pc = "project"
         /\ \E r \in daemon.rows : Advanced(r)
  <1>1. InTick /\ UNCHANGED <<sourceVars, born, cli>> /\ daemon.pc = "project"
    BY DEF TickProject, InTick
  <1>2. PICK r \in daemon.rows :
          /\ NextRow(r)
          /\ Accepts(daemon.gen)
          /\ posts' = Projected(daemon.gen, r)
          /\ gens' = [gens EXCEPT ![daemon.gen] = [daemon.fwd EXCEPT !.at = r.place]]
          /\ \/ daemon' = [daemon EXCEPT !.fwd = gens'[daemon.gen], !.rows = @ \ {r}]
             \/ daemon' = NotAdvanced(r)
    BY DEF TickProject
  <1>3. /\ daemon \in Daemon /\ TableOK /\ daemon.fwd \in GenRow
    BY <1>1, TypeParts DEF GenInv, GenerationInv, CarriedCursor, OwnTypeOK
  <1>4. r \in SourceRow
    BY <1>2, <1>3 DEF Daemon
  <1>5. /\ daemon.gen \in Gen /\ gens[daemon.gen].current
        /\ \A g \in Gen : gens[g].current => g = daemon.gen
    BY <1>1, <1>2, AcceptedIsCurrent
  <1>6. /\ gens'[daemon.gen].at = r.place /\ gens'[daemon.gen].reorgAt = daemon.fwd.reorgAt
        /\ \A g \in Gen \ {daemon.gen} : gens'[g] = gens[g]
    BY <1>2, <1>3, <1>5 DEF TableOK, GenRow
  <1>7. \/ /\ daemon'.pc = "project" /\ daemon'.gen = daemon.gen
           /\ daemon'.fwd = gens'[daemon.gen] /\ daemon'.rows = daemon.rows \ {r}
        \/ /\ daemon'.pc = "project" /\ daemon'.gen = daemon.gen
           /\ daemon'.fwd = daemon.fwd /\ daemon'.rows = {}
        \/ daemon'.pc = "idle"
    BY <1>1, <1>2, <1>3, RestingType DEF NotAdvanced, Daemon
  <1> QED
    BY <1>1, <1>2, <1>4, <1>5, <1>6, <1>7 DEF Advanced

\* The committed transaction of reorgOne.
Retreated(r) ==
    /\ r \in LostRow /\ NextLost(r)
    /\ daemon.gen \in Gen /\ gens[daemon.gen].current
    /\ \A g \in Gen : gens[g].current => g = daemon.gen
    /\ posts' = Evicted(r)
    /\ gens'[daemon.gen].at = daemon.fwd.at
    /\ gens'[daemon.gen].reorgAt = IF r.stamp > daemon.fwd.reorgAt THEN r.stamp ELSE daemon.fwd.reorgAt
    /\ \A g \in Gen \ {daemon.gen} : gens'[g] = gens[g]
    /\ \/ /\ daemon'.pc = "evict" /\ daemon'.gen = daemon.gen
          /\ daemon'.fwd = gens'[daemon.gen] /\ daemon'.lost = daemon.lost \ {r}
       \/ daemon'.pc = "idle"

LEMMA EvictRows ==
  ASSUME GenInv, CarefulReset, TickEvict
  PROVE  /\ UNCHANGED <<sourceVars, born, cli>> /\ daemon.pc = "evict"
         /\ \E r \in daemon.lost : Retreated(r)
  <1>1. InTick /\ UNCHANGED <<sourceVars, born, cli>> /\ daemon.pc = "evict"
    BY DEF TickEvict, InTick
  <1>2. PICK r \in daemon.lost :
          /\ NextLost(r)
          /\ Accepts(daemon.gen)
          /\ posts' = Evicted(r)
          /\ gens' = [gens EXCEPT ![daemon.gen] =
                        [daemon.fwd EXCEPT !.reorgAt = IF r.stamp > @ THEN r.stamp ELSE @]]
          /\ \/ daemon' = [daemon EXCEPT !.fwd = gens'[daemon.gen], !.lost = @ \ {r}]
             \/ daemon' = Resting
    BY DEF TickEvict
  <1>3. /\ daemon \in Daemon /\ TableOK /\ daemon.fwd \in GenRow
    BY <1>1, TypeParts DEF GenInv, GenerationInv, CarriedCursor, OwnTypeOK
  <1>4. r \in LostRow
    BY <1>2, <1>3 DEF Daemon
  <1>5. /\ daemon.gen \in Gen /\ gens[daemon.gen].current
        /\ \A g \in Gen : gens[g].current => g = daemon.gen
    BY <1>1, <1>2, AcceptedIsCurrent
  <1>6. /\ gens'[daemon.gen].at = daemon.fwd.at
        /\ gens'[daemon.gen].reorgAt = IF r.stamp > daemon.fwd.reorgAt THEN r.stamp ELSE daemon.fwd.reorgAt
        /\ \A g \in Gen \ {daemon.gen} : gens'[g] = gens[g]
    BY <1>2, <1>3, <1>5 DEF TableOK, GenRow
  <1>7. \/ /\ daemon'.pc = "evict" /\ daemon'.gen = daemon.gen
           /\ daemon'.fwd = gens'[daemon.gen] /\ daemon'.lost = daemon.lost \ {r}
        \/ daemon'.pc = "idle"
    BY <1>1, <1>2, <1>3, RestingType DEF Daemon
  <1> QED
    BY <1>1, <1>2, <1>4, <1>5, <1>6, <1>7 DEF Retreated

\* A step of the daemon that writes nothing and leaves its page, or ends the tick.
LEMMA PauseRows ==
  ASSUME GenInv, TickProjectFails \/ TickEvictFails \/ TickEnd \/ TickThrows \/ IndexerCrash
  PROVE  /\ UNCHANGED <<sourceVars, gens, born, posts, cli>>
         /\ \/ /\ daemon.pc = "project" /\ daemon'.pc = "project" /\ daemon'.gen = daemon.gen
               /\ daemon'.fwd = daemon.fwd /\ daemon'.rows = {}
            \/ daemon'.pc \in {"idle", "down"}
  <1>1. daemon \in Daemon
    BY DEF GenInv, GenerationInv, IndexerTypeOK
  <1>2. CASE TickProjectFails
    BY <1>1, <1>2, RestingType DEF TickProjectFails, NotAdvanced, Daemon
  <1>3. CASE TickEvictFails \/ TickEnd \/ TickThrows \/ IndexerCrash
    BY <1>3, RestingType DEF TickEvictFails, TickEnd, TickThrows, IndexerCrash
  <1> QED
    BY <1>2, <1>3

\* The deletions of the reset command.
LEMMA ResetRows ==
  ASSUME GenInv, CarefulReset,
         (\E g \in Gen : ResetGen(g)) \/ ResetDrop \/ ResetForget \/ ResetCrash
  PROVE  /\ UNCHANGED <<sourceVars, born, daemon>>
         /\ \A g \in Gen : gens'[g] = NoGen \/ gens'[g] = gens[g]
         /\ posts' \subseteq posts
         /\ \/ /\ cli.pc # "dropped"
               /\ \A g \in Gen : gens'[g].current => PostsOf(g) \subseteq posts'
            \/ cli'.pc = "dropped"
            \/ \A g \in Gen : ~gens'[g].current
            \/ ResetDied'
  <1>1. cli \in Cli /\ TableOK /\ ifaults \in 0 .. MaxIndexerFaults
    BY TypeParts DEF GenInv, GenerationInv, OwnTypeOK
  <1>2. ~NoGen.current
    BY DEF NoGen
  <1>3. ASSUME NEW g \in Gen, ResetGen(g)
        PROVE  /\ UNCHANGED <<sourceVars, born, daemon>>
               /\ \A h \in Gen : gens'[h] = NoGen \/ gens'[h] = gens[h]
               /\ posts' \subseteq posts /\ cli.pc # "dropped"
               /\ \A h \in Gen : gens'[h].current => PostsOf(h) \subseteq posts'
    BY <1>1, <1>2, <1>3 DEF ResetGen, TableOK, PostsOf
  <1>4. CASE ResetDrop
    BY <1>1, <1>4 DEF ResetDrop, Cli
  <1>5. CASE ResetForget
    BY <1>2, <1>5 DEF ResetForget
  <1>6. CASE ResetCrash
    BY <1>1, <1>6 DEF ResetCrash, ResetDied, Cli
  <1> QED
    BY <1>3, <1>4, <1>5, <1>6

LEMMA StartRows ==
  ASSUME GenInv, TickStart
  PROVE  /\ UNCHANGED <<sourceVars, gens, born, posts, cli>>
         /\ daemon'.pc = "list" /\ daemon'.gen \in Gen /\ daemon'.fwd = gens[daemon'.gen]
  <1>1. daemon \in Daemon
    BY DEF GenInv, GenerationInv, IndexerTypeOK
  <1> QED
    BY <1>1 DEF TickStart, Daemon, CurrentOf

\* The smallest rows of a finite set are closed downwards: what is left out of a page is not
\* before any of it.
LEMMA PageIsPrefix ==
  ASSUME NEW rows \in SUBSET SourceRow, IsFiniteSet(rows), NEW r \in rows, NEW q \in rows,
         Cardinality({s \in rows : After(r.place, s.place)}) < BatchSize,
         ~(Cardinality({s \in rows : After(q.place, s.place)}) < BatchSize)
  PROVE  After(q.place, r.place)
  <1> DEFINE below(x) == {s \in rows : After(x.place, s.place)}
  <1> SUFFICES ASSUME ~After(q.place, r.place) PROVE FALSE
    OBVIOUS
  <1>1. \A s \in rows : s.place \in Coord
    BY DEF SourceRow
  <1>2. below(q) \in SUBSET below(r)
    BY <1>1, AfterOrder
  <1>3. IsFiniteSet(below(r))
    BY FS_Subset
  <1>4. /\ Cardinality(below(q)) <= Cardinality(below(r))
        /\ Cardinality(below(q)) \in Nat /\ Cardinality(below(r)) \in Nat
    BY <1>2, <1>3, FS_Subset, FS_CardinalityType
  <1> HIDE DEF below
  <1>5. Cardinality(below(r)) < BatchSize /\ ~(Cardinality(below(q)) < BatchSize) /\ BatchSize \in Nat
    BY IndexerAssumption DEF below
  <1> QED
    BY <1>4, <1>5

LEMMA ListRows ==
  ASSUME GenInv, TickList
  PROVE  /\ UNCHANGED <<sourceVars, gens, born, posts, cli>>
         /\ daemon.pc = "list" /\ daemon'.pc = "project" /\ daemon'.gen = daemon.gen
         /\ daemon'.fwd = daemon.fwd
         /\ \A r \in daemon'.rows : \E k \in ServedKeys : r = RowOf(k) /\ After(r.place, daemon.fwd.at)
         /\ \A k \in ServedKeys : After(places[k], daemon.fwd.at) =>
               RowOf(k) \in daemon'.rows \/ \A r \in daemon'.rows : After(places[k], r.place)
  <1> DEFINE rows == ConfirmedAfter(daemon.fwd.at)
             page == {r \in rows : Cardinality({s \in rows : After(r.place, s.place)}) < BatchSize}
  <1>1. daemon \in Daemon /\ daemon.fwd.at \in Coord
    BY DEF GenInv, GenerationInv, IndexerTypeOK, CarriedCursor, InTick, TickList, GenRow
  <1>2. /\ UNCHANGED <<sourceVars, gens, born, posts, cli>>
        /\ daemon.pc = "list" /\ daemon' = [daemon EXCEPT !.pc = "project", !.rows = page]
    BY DEF TickList
  <1>3. \A r : r \in rows <=> \E k \in ServedKeys : After(places[k], daemon.fwd.at) /\ r = RowOf(k)
    BY DEF ConfirmedAfter, RowOf
  <1>4. rows \in SUBSET SourceRow
    BY <1>1, ConfirmedAfterType
  <1>5. IsFiniteSet(rows)
    <2> DEFINE ahead == {k \in ServedKeys : After(places[k], daemon.fwd.at)}
    <2>1. IsFiniteSet(ahead)
      BY KeyFinite, FS_Subset DEF ServedKeys
    <2>2. rows = {RowOf(k) : k \in ahead}
      BY <1>3
    <2>3. [k \in ahead |-> RowOf(k)] \in Surjection(ahead, rows)
      <3> HIDE DEF rows, ahead
      <3> QED
        BY <2>2 DEF Surjection
    <2> HIDE DEF rows, ahead
    <2> QED
      BY <2>1, <2>3, FS_Surjection
  <1>6. \A k : RowOf(k).place = places[k]
    BY DEF RowOf
  <1>7. \A r \in page, q \in rows \ page : After(q.place, r.place)
    <2>1. \A r \in page : r \in rows /\ Cardinality({s \in rows : After(r.place, s.place)}) < BatchSize
      OBVIOUS
    <2>2. \A q \in rows \ page : q \in rows /\ ~(Cardinality({s \in rows : After(q.place, s.place)}) < BatchSize)
      OBVIOUS
    <2> HIDE DEF rows, page
    <2> QED
      BY <1>4, <1>5, <2>1, <2>2, PageIsPrefix
  <1>8. page \subseteq rows
    OBVIOUS
  <1> HIDE DEF rows, page
  <1>9. /\ daemon'.pc = "project" /\ daemon'.gen = daemon.gen /\ daemon'.fwd = daemon.fwd
        /\ daemon'.rows = page
    BY <1>1, <1>2 DEF Daemon
  <1>10. \A r \in page : \E k \in ServedKeys : r = RowOf(k) /\ After(r.place, daemon.fwd.at)
    BY <1>3, <1>6, <1>8
  <1>11. ASSUME NEW k \in ServedKeys, After(places[k], daemon.fwd.at), RowOf(k) \notin page
         PROVE  \A r \in page : After(places[k], r.place)
    BY <1>3, <1>6, <1>7, <1>11
  <1> QED
    BY <1>2, <1>9, <1>10, <1>11

-----------------------------------------------------------------------------
(* What both cursors need *)

LEMMA CommonInitially == IndexerInit => CommonInv
  BY RestingType DEF IndexerInit, StoreInit, NoMessage, CommonInv, SourceBacked, CursorsLag, PageAhead, InTick

LEMMA CommonStep ==
  ASSUME GenInv, GenInv', CommonInv, CarefulReset, [IndexerNext]_indexerVars
  PROVE  CommonInv'
  <1> USE DEF CommonInv
  <1>1. TableOK /\ MaxGen \in Nat /\ (InTick => daemon.gen \in Gen /\ daemon.gen \in 1 .. born)
    BY TypeParts, IndexerAssumption DEF GenInv, GenerationInv, CarriedCursor, TableOK, Gen
  <1>2. \A g \in Gen : gens[g].at \in Coord /\ gens'[g].at \in Coord
    BY DEF GenInv, GenerationInv, IndexerTypeOK, GenRow, NoGen, Genesis, Coord
  <1>3. /\ InTick => daemon.fwd.at \in Coord
        /\ daemon.pc = "project" => \A r \in daemon.rows : r.place \in Coord
    BY DEF GenInv, GenerationInv, IndexerTypeOK, CarriedCursor, GenRow, Daemon, SourceRow
  <1>s. UNCHANGED sourceVars => SourceBacked'
    BY DEF SourceBacked, sourceVars, storeVars
  <1>4. CASE Source
    <2>1. UNCHANGED <<gens, daemon>>
      BY <1>4 DEF Source
    <2>2. CursorsLag' /\ PageAhead'
      BY <2>1 DEF CursorsLag, PageAhead, InTick
    <2>3. ASSUME NEW k \in Key, messages[k].status = "confirmed"
          PROVE  <<messages[k].batchRef, TagOf[messages[k].body]>> \in BatchId
      <3>1. messages[k].batchRef \in Tx /\ messages[k] \in MessageRow
        BY <2>3 DEF GenInv, GenerationInv, ConfirmedHasBatch, IndexerTypeOK, StoreTypeOK, NoMessage
      <3> QED
        BY <3>1, BamStoreAssumption DEF BatchId, MessageRow
    <2>4. ASSUME NEW t \in Tx, NEW block \in Blocks[t], Confirm(t, block) PROVE SourceBacked'
      <3>1. \A e \in BatchId : batches'[e] = batches[e] \/ batches'[e].status = "confirmed"
        BY <2>4, ConfirmRows
      <3>2. \A k \in Key :
              \/ messages'[k] = messages[k] /\ places'[k] = places[k]
              \/ /\ batches'[<<messages'[k].batchRef, TagOf[messages'[k].body]>>].status = "confirmed"
                 /\ After(places'[k], Genesis)
        BY <2>4, ConfirmRows
      <3> QED
        BY <2>3, <3>1, <3>2 DEF SourceBacked
    <2>5. ASSUME NEW t \in Tx, Lose(t) PROVE SourceBacked'
      <3>1. /\ places' = places
            /\ \A k \in Key : messages'[k].status = "confirmed" =>
                  messages'[k] = messages[k] /\ messages[k].batchRef # t
            /\ \A e \in BatchId : e[1] # t => batches'[e] = batches[e]
        BY <2>5, LoseRows
      <3> QED
        BY <2>3, <3>1 DEF SourceBacked
    <2> QED
      BY <1>4, <2>2, <2>4, <2>5 DEF Source
  <1>5. ASSUME NEW v \in CodeVersions, Boot(v) \/ ResetStart(v) PROVE CommonInv'
    <2>1. UNCHANGED sourceVars /\ Migrate(v) /\ (daemon' = daemon \/ daemon' = Resting)
      BY <1>5 DEF Boot, ResetStart
    <2>2. \A g \in Gen : gens'[g].current => gens'[g] = gens[g] \/ g = born + 1
      BY <1>1, <2>1, MigrateRows
    <2>3. CursorsLag' /\ PageAhead'
      <3>1. CASE daemon' = Resting
        BY <3>1, RestingType DEF CursorsLag, PageAhead, InTick
      <3>2. CASE daemon' = daemon
        BY <1>1, <2>2, <3>2 DEF CursorsLag, PageAhead, InTick, TableOK
      <3> QED
        BY <2>1, <3>1, <3>2
    <2> QED
      BY <1>s, <2>1, <2>3
  <1>6. CASE TickStart
    BY <1>2, <1>6, <1>s, StartRows, AfterOrder DEF CursorsLag, PageAhead, InTick
  <1>7. CASE TickList
    BY <1>7, <1>s, ListRows DEF CursorsLag, PageAhead, InTick
  <1>8. CASE TickReorgs
    <2>1. /\ UNCHANGED <<sourceVars, gens>> /\ daemon.pc = "project"
          /\ daemon'.pc = "evict" /\ daemon'.gen = daemon.gen /\ daemon'.fwd = daemon.fwd
      BY <1>8 DEF TickReorgs, GenInv, GenerationInv, IndexerTypeOK, Daemon
    <2> QED
      BY <2>1, <1>s DEF CursorsLag, PageAhead, InTick
  <1>9. CASE TickProject
    <2>1. PICK r \in daemon.rows : Advanced(r)
      BY <1>9, ProjectRows
    <2>2. UNCHANGED sourceVars /\ daemon.pc = "project"
      BY <1>9, ProjectRows
    <2>3. r.place \in Coord /\ daemon.fwd.at \in Coord /\ After(r.place, daemon.fwd.at)
      BY <1>3, <2>2 DEF PageAhead, InTick
    <2>4. CursorsLag'
      BY <2>1, <2>2, <2>3, AfterOrder DEF CursorsLag, Advanced, InTick
    <2>5. PageAhead'
      BY <2>1, <2>2 DEF PageAhead, Advanced, NextRow
    <2> QED
      BY <2>2, <2>4, <2>5, <1>s
  <1>10. CASE TickEvict
    <2>1. PICK r \in daemon.lost : Retreated(r)
      BY <1>10, EvictRows
    <2>2. UNCHANGED sourceVars
      BY <1>10, EvictRows
    <2>3. CursorsLag' /\ PageAhead'
      BY <1>2, <2>1, AfterOrder DEF CursorsLag, PageAhead, Retreated, InTick
    <2> QED
      BY <2>2, <2>3, <1>s
  <1>11. CASE TickProjectFails \/ TickEvictFails \/ TickEnd \/ TickThrows \/ IndexerCrash
    BY <1>11, <1>s, PauseRows DEF CursorsLag, PageAhead, InTick
  <1>12. CASE (\E g \in Gen : ResetGen(g)) \/ ResetDrop \/ ResetForget \/ ResetCrash
    <2>1. /\ UNCHANGED <<sourceVars, daemon>>
          /\ \A g \in Gen : gens'[g] = NoGen \/ gens'[g] = gens[g]
      BY <1>12, ResetRows
    <2>2. ~NoGen.current
      BY DEF NoGen
    <2> QED
      BY <1>1, <1>s, <2>1, <2>2 DEF CursorsLag, PageAhead, InTick
  <1>13. CASE UNCHANGED indexerVars
    BY <1>13, <1>s DEF indexerVars, CursorsLag, PageAhead, InTick
  <1> QED
    BY <1>4, <1>5, <1>6, <1>7, <1>8, <1>9, <1>10, <1>11, <1>12, <1>13 DEF IndexerNext, Tick, Reset

-----------------------------------------------------------------------------
(* The forward cursor *)

LEMMA ForwardInitially == IndexerInit => ForwardInv
  <1> SUFFICES ASSUME IndexerInit PROVE ForwardInv
    OBVIOUS
  <1>1. ~InTick /\ CurrentOf(gens) = {} /\ \A g \in Gen : gens[g].at = Genesis
    BY RestingType DEF IndexerInit, InTick, CurrentOf, NoGen
  <1> QED
    BY <1>1 DEF ForwardInv, PageFaithful, LostAhead, BehindCursor, InTick

\* A step of the source: a message that is served afterwards was served before just so, or is late
\* for the generations whose pass has been at its new place.
LEMMA ServedRows ==
  ASSUME GenInv, Source, NEW k \in ServedKeys'
  PROVE  \/ k \in ServedKeys /\ messages'[k] = messages[k] /\ places'[k] = places[k] /\ SameLate(k)
         \/ LateIfPassed(k)
  <1>1. k \in Key /\ messages'[k].status = "confirmed"
    BY DEF ServedKeys
  <1>2. ASSUME NEW t \in Tx, NEW block \in Blocks[t], Confirm(t, block)
        PROVE  \/ messages'[k] = messages[k] /\ places'[k] = places[k] /\ SameLate(k)
               \/ LateIfPassed(k)
    BY <1>1, <1>2, ConfirmRows
  <1>3. ASSUME NEW t \in Tx, Lose(t)
        PROVE  messages'[k] = messages[k] /\ places'[k] = places[k] /\ SameLate(k)
    BY <1>1, <1>3, LoseRows
  <1> QED
    BY <1>1, <1>2, <1>3 DEF Source, ServedKeys

\* The coordinates that the rows, the cursors and a page hold.
LEMMA PlaceTypes ==
  ASSUME GenInv
  PROVE  /\ \A k \in Key : places[k] \in Coord
         /\ \A g \in Gen : gens[g].at \in Coord
         /\ InTick => daemon.fwd.at \in Coord
         /\ \A s \in daemon.rows : s.place \in Coord /\ s.key \in Key
         /\ ServedKeys \subseteq Key
  <1>1. /\ places \in [Key -> Coord] /\ gens \in [Gen -> GenRow \cup {NoGen}]
        /\ daemon.rows \subseteq SourceRow /\ (InTick => daemon.fwd \in GenRow)
    BY DEF GenInv, GenerationInv, IndexerTypeOK, Daemon, CarriedCursor
  <1>2. \A g \in GenRow \cup {NoGen} : g.at \in Coord
    BY DEF GenRow, NoGen, Genesis, Coord
  <1>3. \A s \in SourceRow : s.place \in Coord /\ s.key \in Key
    BY DEF SourceRow
  <1>4. ServedKeys \subseteq Key
    BY DEF ServedKeys
  <1>5. QED
    BY <1>1, <1>2, <1>3, <1>4

\* A message that the source serves afterwards and that is in time for a current generation was
\* served before just so, or is ahead of the cursor of that generation and of the page of its tick.
LEMMA ServedInTime ==
  ASSUME GenInv, Source, NEW k \in ServedKeys', NEW g \in Gen, gens[g].current, <<g, k>> \notin late'
  PROVE  \/ /\ k \in ServedKeys /\ messages'[k] = messages[k] /\ places'[k] = places[k]
            /\ <<g, k>> \notin late
         \/ /\ After(places'[k], gens[g].at)
            /\ daemon.gen = g => \A r \in daemon.rows : After(places'[k], r.place)
  BY ServedRows DEF SameLate, LateIfPassed, Passed

LEMMA ForwardSource ==
  ASSUME GenInv, GenInv', CommonInv, ForwardInv, Source
  PROVE  ForwardInv'
  <1> USE DEF ForwardInv
  <1>1. UNCHANGED <<gens, born, posts, daemon, cli, ifaults>>
    BY DEF Source
  <1>2. /\ \A k \in Key : places[k] \in Coord /\ places'[k] \in Coord
        /\ \A g \in Gen : gens[g].at \in Coord
        /\ InTick => daemon.fwd.at \in Coord /\ daemon.gen \in Gen
        /\ ServedKeys \subseteq Key /\ ServedKeys' \subseteq Key
    <2>1. places' \in [Key -> Coord] /\ ServedKeys' \subseteq Key
      BY DEF GenInv, GenerationInv, IndexerTypeOK, ServedKeys
    <2>2. InTick => daemon.gen \in Gen
      BY TypeParts, IndexerAssumption DEF GenInv, GenerationInv, CarriedCursor, TableOK, Gen
    <2> QED
      BY <2>1, <2>2, PlaceTypes
  <1>3. ASSUME InTick, gens[daemon.gen].current, NEW k \in ServedKeys', InTimeFor(k)'
        PROVE  \/ /\ k \in ServedKeys /\ messages'[k] = messages[k] /\ places'[k] = places[k]
                  /\ InTimeFor(k)
               \/ /\ After(places'[k], daemon.fwd.at)
                  /\ \A r \in daemon.rows : After(places'[k], r.place)
    <2>1. daemon.gen \in Gen /\ <<daemon.gen, k>> \notin late'
      BY <1>1, <1>2, <1>3 DEF InTimeFor
    <2>2. CASE k \in ServedKeys /\ messages'[k] = messages[k] /\ places'[k] = places[k]
               /\ <<daemon.gen, k>> \notin late
      BY <2>2 DEF InTimeFor
    <2>3. CASE /\ After(places'[k], gens[daemon.gen].at)
               /\ \A r \in daemon.rows : After(places'[k], r.place)
      <3>1. ~After(daemon.fwd.at, gens[daemon.gen].at)
        BY <1>3 DEF CommonInv, CursorsLag
      <3>2. places'[k] \in Coord /\ daemon.fwd.at \in Coord /\ gens[daemon.gen].at \in Coord
        BY <1>2, <1>3, <2>1
      <3> QED
        BY <2>3, <3>1, <3>2, AfterOrder
    <2> QED
      BY <1>3, <2>1, <2>2, <2>3, ServedInTime
  <1>4. PageFaithful'
    <2> SUFFICES ASSUME daemon.pc = "project", gens[daemon.gen].current
                 PROVE  /\ \A r, s \in daemon.rows : r.key = s.key => r = s
                        /\ \A r \in daemon.rows : r.key \in ServedKeys' /\ InTimeFor(r.key)' =>
                              After(places'[r.key], daemon.fwd.at)
                        /\ \A k \in ServedKeys' : InTimeFor(k)' /\ After(places'[k], daemon.fwd.at) =>
                              RowOf(k)' \in daemon.rows \/ \A r \in daemon.rows : After(places'[k], r.place)
      BY <1>1 DEF PageFaithful, InTimeFor
    <2>1. InTick
      BY DEF InTick
    <2>2. ASSUME NEW r \in daemon.rows, r.key \in ServedKeys', InTimeFor(r.key)'
          PROVE  After(places'[r.key], daemon.fwd.at)
      <3> DEFINE k == r.key
      <3>1. \/ /\ k \in ServedKeys /\ places'[k] = places[k] /\ InTimeFor(k)
            \/ After(places'[k], daemon.fwd.at)
        BY <1>3, <2>1, <2>2
      <3> QED
        BY <3>1 DEF PageFaithful
    <2>3. ASSUME NEW k \in ServedKeys', InTimeFor(k)', After(places'[k], daemon.fwd.at)
          PROVE  RowOf(k)' \in daemon.rows \/ \A r \in daemon.rows : After(places'[k], r.place)
      <3>1. CASE k \in ServedKeys /\ messages'[k] = messages[k] /\ places'[k] = places[k] /\ InTimeFor(k)
        <4>1. RowOf(k)' = RowOf(k)
          BY <3>1 DEF RowOf
        <4> QED
          BY <2>3, <3>1, <4>1 DEF PageFaithful
      <3> QED
        BY <1>3, <2>1, <2>3, <3>1
    <2>4. \A r, s \in daemon.rows : r.key = s.key => r = s
      BY DEF PageFaithful
    <2> QED
      BY <2>2, <2>3, <2>4
  <1>5. LostAhead'
    <2> SUFFICES ASSUME daemon.pc = "evict", gens[daemon.gen].current,
                        NEW r \in daemon.lost, NEW k \in ServedKeys',
                        messages'[k].batchRef = r.batch, InTimeFor(k)'
                 PROVE  After(places'[k], daemon.fwd.at)
      BY <1>1 DEF LostAhead, InTimeFor
    <2>1. InTick
      BY DEF InTick
    <2>2. CASE k \in ServedKeys /\ messages'[k] = messages[k] /\ places'[k] = places[k] /\ InTimeFor(k)
      BY <2>2 DEF LostAhead
    <2> QED
      BY <1>3, <2>1, <2>2
  <1>6. BehindCursor'
    <2> SUFFICES ASSUME ~ResetDied, cli.pc # "dropped", NEW g \in Gen, gens[g].current,
                        NEW k \in ServedKeys', messages'[k].body \notin Undecodable,
                        ~After(places'[k], gens[g].at), <<g, k>> \notin late'
                 PROVE  [gen |-> g, key |-> k, batch |-> messages'[k].batchRef, place |-> places'[k]] \in posts
      BY <1>1 DEF BehindCursor, ResetDied, CurrentOf, Wanted
    <2>1. k \in ServedKeys /\ messages'[k] = messages[k] /\ places'[k] = places[k] /\ <<g, k>> \notin late
      BY ServedInTime
    <2> QED
      BY <2>1 DEF BehindCursor, CurrentOf, Wanted
  <1> QED
    BY <1>4, <1>5, <1>6

\* A reset that died is never forgotten.
LEMMA DiedStays ==
  ASSUME GenInv, [IndexerNext]_indexerVars, ResetDied
  PROVE  ResetDied'
  <1>1. cli \in Cli
    BY DEF GenInv, GenerationInv, IndexerTypeOK
  <1>2. \/ cli' = cli \/ cli' = [cli EXCEPT !.pc = "ready", !.runs = @ + 1]
        \/ cli' = [cli EXCEPT !.pc = "idle"] \/ cli' = [cli EXCEPT !.pc = "dropped"]
        \/ cli' = [cli EXCEPT !.pc = "idle", !.died = TRUE]
    BY DEF IndexerNext, Source, Boot, Tick, TickStart, TickList, TickProject, TickProjectFails, TickReorgs,
           TickEvict, TickEvictFails, TickEnd, TickThrows, IndexerCrash, Reset, ResetStart, ResetGen,
           ResetDrop, ResetForget, ResetCrash, indexerVars
  <1> QED
    BY <1>1, <1>2 DEF ResetDied, Cli

\* The post of a message that the source serves.
PostOf(g, k) == [gen |-> g, key |-> k, batch |-> messages[k].batchRef, place |-> places[k]]

\* What BehindCursor asks of one generation.
HasBehind(g) ==
    \A k \in ServedKeys : messages[k].body \notin Undecodable /\ ~After(places[k], gens[g].at)
        => PostOf(g, k) \in posts \/ <<g, k>> \in late

EachHasBehind == ResetDied \/ cli.pc = "dropped" \/ \A g \in Gen : gens[g].current => HasBehind(g)

LEMMA BehindParts == BehindCursor <=> EachHasBehind
  <1>1. \A g : Wanted(g) = {PostOf(g, k) : k \in {k \in ServedKeys : messages[k].body \notin Undecodable}}
    BY DEF Wanted, PostOf
  <1>2. \A g, k : PostOf(g, k).place = places[k] /\ PostOf(g, k).key = k
    BY DEF PostOf
  <1> QED
    BY <1>1, <1>2 DEF BehindCursor, HasBehind, EachHasBehind, CurrentOf

LEMMA ForwardMigrate ==
  ASSUME GenInv, GenInv', CommonInv, ForwardInv, CarefulReset,
         ResetDied => ResetDied',
         NEW v \in CodeVersions, Boot(v) \/ ResetStart(v)
  PROVE  ForwardInv'
  <1> USE DEF ForwardInv
  <1>1. /\ UNCHANGED sourceVars /\ UNCHANGED <<posts, ifaults>> /\ Migrate(v) /\ cli.pc # "dropped"
        /\ daemon' = daemon \/ daemon' = Resting
    BY DEF Boot, ResetStart
  <1>2. UNCHANGED <<messages, batches, places, late, posts>>
    BY <1>1 DEF sourceVars, storeVars
  <1>3. TableOK
    BY TypeParts DEF GenInv, GenerationInv
  <1>4. \A g \in Gen :
           /\ gens'[g].current => gens'[g] = gens[g] \/ gens'[g].at = Genesis
           /\ gens'[g].current /\ g \in 1 .. born => gens'[g] = gens[g]
    <2>1. born \in Nat
      BY <1>3, IndexerAssumption DEF TableOK
    <2> QED
      BY <1>1, <1>3, <2>1, MigrateRows
  <1>5. InTick => daemon.gen \in 1 .. born /\ daemon.gen \in Gen
    BY <1>3, IndexerAssumption DEF GenInv, GenerationInv, CarriedCursor, TableOK, Gen
  <1>6. PageFaithful' /\ LostAhead'
    <2>1. CASE daemon' = daemon
      <3>1. InTick /\ gens'[daemon.gen].current => gens[daemon.gen].current
        BY <1>4, <1>5
      <3> QED
        BY <1>2, <2>1, <3>1 DEF PageFaithful, LostAhead, ServedKeys, RowOf, InTimeFor, InTick
    <2>2. CASE daemon' = Resting
      BY <2>2, RestingType DEF PageFaithful, LostAhead
    <2> QED
      BY <1>1, <2>1, <2>2
  <1>7. ASSUME ~ResetDied', NEW g \in Gen, gens'[g].current
        PROVE  HasBehind(g)'
    <2>1. ~ResetDied
      BY <1>7
    <2>2. CASE gens'[g] = gens[g]
      <3>1. HasBehind(g)
        BY <1>1, <1>7, <2>1, <2>2, BehindParts DEF EachHasBehind
      <3> QED
        BY <1>2, <2>2, <3>1 DEF HasBehind, ServedKeys, PostOf
    <2>3. CASE gens'[g].at = Genesis
      BY <1>2, <2>3 DEF CommonInv, SourceBacked, HasBehind, ServedKeys
    <2> QED
      BY <1>4, <1>7, <2>2, <2>3
  <1>8. EachHasBehind'
    BY <1>7 DEF EachHasBehind
  <1>9. BehindCursor'
    BY <1>8, BehindParts, PTL
  <1> QED
    BY <1>6, <1>9

LEMMA ForwardStart ==
  ASSUME GenInv, GenInv', CommonInv, ForwardInv, TickStart \/ TickList \/ TickReorgs
  PROVE  ForwardInv'
  <1> USE DEF ForwardInv
  <1>1. UNCHANGED <<sourceVars, gens, posts, cli, ifaults>>
    BY DEF TickStart, TickList, TickReorgs
  <1>2. UNCHANGED <<messages, batches, places, late>> /\ UNCHANGED <<gens, posts, cli, ifaults>>
    BY <1>1 DEF sourceVars, storeVars
  <1>3. BehindCursor'
    BY <1>2 DEF BehindCursor, ResetDied, CurrentOf, Wanted, ServedKeys
  <1>4. CASE TickStart
    BY <1>2, <1>3, <1>4, StartRows DEF PageFaithful, LostAhead, InTick
  <1>5. CASE TickList
    <2>1. LostAhead'
      BY <1>5, ListRows DEF LostAhead
    <2>2. \A k : RowOf(k).key = k /\ RowOf(k).place = places[k]
      BY DEF RowOf
    <2>3. \A r, s \in daemon'.rows : r.key = s.key => r = s
      BY <1>5, <2>2, ListRows
    <2>4. \A r \in daemon'.rows : After(places[r.key], daemon.fwd.at)
      BY <1>5, <2>2, ListRows
    <2>5. PageFaithful'
      BY <1>2, <1>5, <2>3, <2>4, ListRows DEF PageFaithful, ServedKeys, RowOf
    <2> QED
      BY <1>3, <2>1, <2>5
  <1>6. CASE TickReorgs
    <2>1. /\ daemon.pc = "project" /\ daemon'.pc = "evict" /\ daemon'.fwd = daemon.fwd
          /\ daemon'.lost \subseteq ReorgedAfter(daemon.fwd.reorgAt)
      BY <1>6 DEF TickReorgs, GenInv, GenerationInv, IndexerTypeOK, Daemon
    <2>2. \A r \in daemon'.lost : batches[<<r.batch, ServedTag>>].status = "reorged"
      BY <2>1 DEF ReorgedAfter, BatchId
    <2>3. \A k \in ServedKeys : batches[<<messages[k].batchRef, ServedTag>>].status = "confirmed"
      BY DEF CommonInv, SourceBacked, ServedKeys
    <2>4. LostAhead'
      BY <1>2, <2>1, <2>2, <2>3 DEF LostAhead, ServedKeys
    <2> QED
      BY <1>2, <1>3, <2>1, <2>4 DEF PageFaithful
  <1> QED
    BY <1>4, <1>5, <1>6

LEMMA ForwardProject ==
  ASSUME GenInv, GenInv', CommonInv, ForwardInv, CarefulReset, TickProject,
         ResetDied => ResetDied'
  PROVE  ForwardInv'
  <1> USE DEF ForwardInv
  <1>1. PICK r \in daemon.rows : Advanced(r)
    BY ProjectRows
  <1>2. /\ UNCHANGED <<messages, batches, places, late, cli>> /\ daemon.pc = "project" /\ InTick
    BY ProjectRows DEF sourceVars, storeVars, InTick
  <1>3. /\ \A k \in Key : places[k] \in Coord
        /\ \A g \in Gen : gens[g].at \in Coord
        /\ daemon.fwd.at \in Coord /\ r.place \in Coord /\ r.key \in Key
        /\ \A s \in daemon.rows : s.place \in Coord
        /\ ServedKeys \subseteq Key
    BY <1>1, <1>2, PlaceTypes
  <1>4. /\ After(r.place, daemon.fwd.at) /\ gens[daemon.gen].current
        /\ \A s \in daemon.rows \ {r} : After(s.place, r.place)
    BY <1>1, <1>2 DEF CommonInv, PageAhead, Advanced, NextRow
  <1>5. \A k : RowOf(k).key = k /\ RowOf(k).place = places[k]
    BY DEF RowOf
  <1>6. PageFaithful'
    <2>1. CASE daemon'.pc = "idle"
      BY <2>1 DEF PageFaithful
    <2>2. CASE daemon'.rows = {}
      BY <2>2 DEF PageFaithful
    <2>3. CASE /\ daemon'.gen = daemon.gen /\ daemon'.fwd.at = r.place
               /\ daemon'.rows = daemon.rows \ {r}
      <3>1. ASSUME NEW k \in ServedKeys, InTimeFor(k), After(places[k], daemon.fwd.at)
            PROVE  \/ RowOf(k) = r
                   \/ RowOf(k) \in daemon.rows \ {r} /\ After(places[k], r.place)
                   \/ \A s \in daemon.rows : After(places[k], s.place)
        BY <1>2, <1>4, <1>5, <3>1 DEF PageFaithful
      <3>2. ASSUME NEW k \in ServedKeys, InTimeFor(k), After(places[k], r.place)
            PROVE  RowOf(k) \in daemon.rows \ {r} \/ \A s \in daemon.rows : After(places[k], s.place)
        <4>1. After(places[k], daemon.fwd.at)
          BY <1>3, <1>4, <3>2, AfterOrder
        <4>2. RowOf(k) # r
          BY <1>3, <1>5, <3>2, AfterOrder
        <4> QED
          BY <3>1, <3>2, <4>1, <4>2
      <3>3. ASSUME NEW s \in daemon.rows \ {r}, s.key \in ServedKeys, InTimeFor(s.key)
            PROVE  After(places[s.key], r.place)
        <4>1. After(places[s.key], daemon.fwd.at) /\ s.key # r.key
          BY <1>2, <1>4, <3>3 DEF PageFaithful
        <4>2. RowOf(s.key) # r
          BY <1>5, <4>1
        <4> QED
          BY <3>1, <3>3, <4>1, <4>2
      <3>4. \A s, q \in daemon.rows : s.key = q.key => s = q
        BY <1>2, <1>4 DEF PageFaithful
      <3> QED
        BY <1>2, <2>3, <3>2, <3>3, <3>4 DEF PageFaithful, ServedKeys, RowOf, InTimeFor
    <2> QED
      BY <1>1, <2>1, <2>2, <2>3 DEF Advanced
  <1>7. ASSUME ~ResetDied', cli'.pc # "dropped", NEW g \in Gen, gens'[g].current
        PROVE  HasBehind(g)'
    <2>1. g = daemon.gen
      BY <1>1, <1>7 DEF Advanced
    <2>2. gens[g].current /\ gens'[g].at = r.place /\ posts' = Projected(g, r)
      BY <1>1, <2>1 DEF Advanced
    <2>3. HasBehind(g) /\ ~After(daemon.fwd.at, gens[g].at)
      BY <1>2, <1>7, <2>1, <2>2, BehindParts DEF EachHasBehind, CommonInv, CursorsLag
    <2> SUFFICES ASSUME NEW k \in ServedKeys, messages[k].body \notin Undecodable,
                        ~After(places[k], r.place), <<g, k>> \notin late
                 PROVE  PostOf(g, k) \in Projected(g, r)
      BY <1>2, <2>2 DEF HasBehind, ServedKeys, PostOf
    <2>4. CASE After(places[k], daemon.fwd.at)
      <3>1. RowOf(k) \in daemon.rows
        BY <1>1, <1>2, <1>4, <2>1, <2>4 DEF PageFaithful, InTimeFor
      <3>2. RowOf(k) = r
        BY <1>4, <1>5, <3>1
      <3>3. r.key = k /\ r.body = messages[k].body /\ r.batch = messages[k].batchRef /\ r.place = places[k]
        BY <3>2 DEF RowOf
      <3> QED
        BY <3>3 DEF Projected, PostOf
    <2>5. CASE ~After(places[k], daemon.fwd.at)
      <3>1. ~After(places[k], gens[g].at)
        BY <1>3, <2>3, <2>5, AfterOrder
      <3>2. PostOf(g, k) \in posts
        BY <2>3, <3>1 DEF HasBehind
      <3>3. r.key # k
        BY <1>2, <1>4, <2>1, <2>5 DEF PageFaithful, InTimeFor
      <3>4. PostOf(g, k).key = k
        BY DEF PostOf
      <3> QED
        BY <3>2, <3>3, <3>4 DEF Projected
    <2> QED
      BY <2>4, <2>5
  <1>8. EachHasBehind'
    BY <1>7 DEF EachHasBehind
  <1>9. BehindCursor'
    BY <1>8, BehindParts, PTL
  <1>10. LostAhead'
    BY <1>1 DEF Advanced, LostAhead
  <1> QED
    BY <1>6, <1>9, <1>10

LEMMA ForwardEvict ==
  ASSUME GenInv, GenInv', CommonInv, ForwardInv, CarefulReset, TickEvict,
         ResetDied => ResetDied'
  PROVE  ForwardInv'
  <1> USE DEF ForwardInv
  <1>1. PICK r \in daemon.lost : Retreated(r)
    BY EvictRows
  <1>2. /\ UNCHANGED <<messages, batches, places, late, cli>> /\ daemon.pc = "evict" /\ InTick
    BY EvictRows DEF sourceVars, storeVars, InTick
  <1>3. /\ \A k \in Key : places[k] \in Coord
        /\ \A g \in Gen : gens[g].at \in Coord
        /\ daemon.fwd.at \in Coord
        /\ ServedKeys \subseteq Key
    BY <1>2, PlaceTypes
  <1>4. /\ gens[daemon.gen].current
        /\ \/ /\ daemon'.pc = "evict" /\ daemon'.fwd.at = daemon.fwd.at /\ daemon'.gen = daemon.gen
              /\ daemon'.lost \subseteq daemon.lost
           \/ daemon'.pc = "idle"
    BY <1>1 DEF Retreated
  <1>6. PageFaithful' /\ LostAhead'
    BY <1>2, <1>4 DEF PageFaithful, LostAhead, ServedKeys, InTimeFor
  <1>7. ASSUME ~ResetDied', cli'.pc # "dropped", NEW g \in Gen, gens'[g].current
        PROVE  HasBehind(g)'
    <2>1. g = daemon.gen
      BY <1>1, <1>7 DEF Retreated
    <2>2. gens[g].current /\ gens'[g].at = daemon.fwd.at /\ posts' = Evicted(r)
      BY <1>1, <2>1 DEF Retreated
    <2>3. HasBehind(g) /\ ~After(daemon.fwd.at, gens[g].at)
      BY <1>2, <1>7, <2>1, <2>2, BehindParts DEF EachHasBehind, CommonInv, CursorsLag
    <2> SUFFICES ASSUME NEW k \in ServedKeys, messages[k].body \notin Undecodable,
                        ~After(places[k], daemon.fwd.at), <<g, k>> \notin late
                 PROVE  PostOf(g, k) \in Evicted(r)
      BY <1>2, <2>2 DEF HasBehind, ServedKeys, PostOf
    <2>4. ~After(places[k], gens[g].at)
      BY <1>3, <2>3, AfterOrder
    <2>5. PostOf(g, k) \in posts
      BY <2>3, <2>4 DEF HasBehind
    <2>6. messages[k].batchRef # r.batch
      BY <1>2, <1>4, <2>1 DEF LostAhead, InTimeFor
    <2> QED
      BY <2>5, <2>6 DEF Evicted, PostOf
  <1>8. EachHasBehind'
    BY <1>7 DEF EachHasBehind
  <1>9. BehindCursor'
    BY <1>8, BehindParts, PTL
  <1> QED
    BY <1>6, <1>9

LEMMA ForwardReset ==
  ASSUME GenInv, GenInv', CommonInv, ForwardInv, CarefulReset,
         ResetDied => ResetDied',
         (\E g \in Gen : ResetGen(g)) \/ ResetDrop \/ ResetForget \/ ResetCrash
  PROVE  ForwardInv'
  <1> USE DEF ForwardInv
  <1>1. UNCHANGED <<messages, batches, places, late, daemon>>
    BY ResetRows DEF sourceVars, storeVars
  <1>2. \A g \in Gen : gens'[g] = NoGen \/ gens'[g] = gens[g]
    BY ResetRows
  <1>3. PageFaithful' /\ LostAhead'
    <2>1. InTick => daemon.gen \in Gen
      BY TypeParts, IndexerAssumption DEF GenInv, GenerationInv, CarriedCursor, TableOK, Gen
    <2>2. InTick /\ gens'[daemon.gen].current => gens[daemon.gen].current
      BY <1>2, <2>1 DEF NoGen
    <2> QED
      BY <1>1, <2>2 DEF InTick, PageFaithful, LostAhead, ServedKeys, RowOf, InTimeFor
  <1>4. ASSUME ~ResetDied', cli'.pc # "dropped", NEW g \in Gen, gens'[g].current
        PROVE  HasBehind(g)'
    <2>1. gens'[g] = gens[g]
      BY <1>2, <1>4 DEF NoGen
    <2>2. cli.pc # "dropped" /\ PostsOf(g) \subseteq posts'
      BY <1>4, ResetRows
    <2>3. HasBehind(g)
      BY <1>4, <2>1, <2>2, BehindParts DEF EachHasBehind
    <2> QED
      BY <1>1, <2>1, <2>2, <2>3 DEF HasBehind, ServedKeys, PostOf, PostsOf
  <1>5. EachHasBehind'
    BY <1>4 DEF EachHasBehind
  <1>6. BehindCursor'
    BY <1>5, BehindParts, PTL
  <1> QED
    BY <1>3, <1>6

LEMMA ForwardStep ==
  ASSUME GenInv, GenInv', CommonInv, ForwardInv, CarefulReset, [IndexerNext]_indexerVars
  PROVE  ForwardInv'
  <1>1. ResetDied => ResetDied'
    BY DiedStays
  <1>2. CASE TickProjectFails \/ TickEvictFails \/ TickEnd \/ TickThrows \/ IndexerCrash
    <2>1. UNCHANGED <<messages, batches, places, late>> /\ UNCHANGED <<gens, posts, cli>>
      BY <1>2, PauseRows DEF sourceVars, storeVars
    <2>2. PageFaithful' /\ LostAhead'
      BY <1>2, <2>1, PauseRows DEF PageFaithful, LostAhead
    <2>3. BehindCursor'
      BY <1>1, <2>1 DEF ForwardInv, BehindCursor, CurrentOf, Wanted, ServedKeys
    <2> QED
      BY <2>2, <2>3 DEF ForwardInv
  <1>3. CASE UNCHANGED indexerVars
    BY <1>3 DEF indexerVars, sourceVars, storeVars, ForwardInv, PageFaithful, LostAhead,
                BehindCursor, ResetDied, CurrentOf, Wanted, ServedKeys, RowOf, InTimeFor
  <1>4. ASSUME NEW v \in CodeVersions, Boot(v) \/ ResetStart(v) PROVE ForwardInv'
    BY <1>1, <1>4, ForwardMigrate
  <1>5. CASE Source
    BY <1>5, ForwardSource
  <1>6. CASE TickStart \/ TickList \/ TickReorgs
    BY <1>6, ForwardStart
  <1>7. CASE TickProject
    BY <1>1, <1>7, ForwardProject
  <1>8. CASE TickEvict
    BY <1>1, <1>8, ForwardEvict
  <1>9. CASE (\E g \in Gen : ResetGen(g)) \/ ResetDrop \/ ResetForget \/ ResetCrash
    BY <1>1, <1>9, ForwardReset
  <1> QED
    BY <1>2, <1>3, <1>4, <1>5, <1>6, <1>7, <1>8, <1>9 DEF IndexerNext, Tick, Reset

\* No confirmed message that decodes is stepped over: at or below the cursor of the current
\* generation (cursor.ts, projectOne), the handler's table holds every one of them as the source has
\* it, whatever transactions fail, pages go stale or processes die, and in whatever order batches are
\* confirmed; but for a message that was confirmed where the pass of that generation had been, and
\* for a reset that died.  It is so for an operator who stops the daemon before its generation is
\* reset.
THEOREM NothingBehindTheCursor ==
  ASSUME CarefulReset
  PROVE  IndexerSpec => []BehindCursor
  <1>1. IndexerInit => GenInv /\ CommonInv /\ ForwardInv
    BY InitInv, CommonInitially, ForwardInitially
  <1>2. GenInv /\ CommonInv /\ ForwardInv /\ [IndexerNext]_indexerVars
          => (GenInv /\ CommonInv /\ ForwardInv)'
    BY NextInv, CommonStep, ForwardStep
  <1>3. ForwardInv => BehindCursor
    BY DEF ForwardInv
  <1> QED
    BY <1>1, <1>2, <1>3, PTL DEF IndexerSpec

-----------------------------------------------------------------------------
(* The reorg cursor *)

LEMMA CascadeInitially == IndexerInit => CascadeInv
  <1> SUFFICES ASSUME IndexerInit PROVE CascadeInv
    OBVIOUS
  <1>1. /\ ~InTick /\ CurrentOf(gens) = {} /\ \A g \in Gen : gens[g].reorgAt = -1
        /\ clock = 0 /\ \A e \in BatchId : stamps[e] = 0 /\ batches[e].status = "absent"
    BY RestingType DEF IndexerInit, StoreInit, NoBatch, InTick, CurrentOf, NoGen
  <1>2. \A t \in Tx : ~Reorged(t)
    BY <1>1, IndexerAssumption DEF Reorged, BatchId
  <1> QED
    BY <1>1, <1>2 DEF CascadeInv, StampsOrdered, PageLostLater, LostFaithful, ReorgsCascade, InTick

\* What the invariant says of the types it compares.
LEMMA StampTypes ==
  ASSUME GenInv
  PROVE  /\ clock \in Nat /\ \A e \in BatchId : stamps[e] \in Nat
         /\ \A t \in Tx : <<t, ServedTag>> \in BatchId
         /\ \A p \in posts : p.batch \in Tx
         /\ \A g \in Gen : gens[g].reorgAt \in Nat \cup {-1}
         /\ InTick => daemon.fwd.reorgAt \in Nat \cup {-1}
         /\ daemon.lost \subseteq LostRow /\ \A r \in daemon.lost : r.stamp \in Nat /\ r.batch \in Tx
         /\ \A r \in daemon.rows : r.batch \in Tx
  BY IndexerAssumption DEF GenInv, GenerationInv, IndexerTypeOK, CarriedCursor, GenRow, NoGen, Daemon,
     SourceRow, LostRow, Post, BatchId

\* A batch that is lost and not tied after a step of the source was so before it, or is lost with
\* the newest stamp.
LostAlready(t) == Reorged(t) /\ t \notin tied /\ StampOf(t)' = StampOf(t)
LostNow(t) == StampOf(t)' = clock' /\ clock < clock'

LEMMA LostRows ==
  ASSUME GenInv, StampsOrdered, Source
  PROVE  /\ clock' \in Nat /\ clock <= clock'
         /\ \A e \in BatchId : stamps'[e] <= clock' /\ (batches'[e].status = "reorged" => stamps'[e] > 0)
         /\ \A t \in Tx : Reorged(t)' /\ t \notin tied' => LostAlready(t) \/ LostNow(t)
         /\ \A t, u \in Tx : Reorged(t)' /\ t \notin tied' /\ StampOf(t)' = StampOf(u)' => t = u
  <1>1. /\ clock \in Nat /\ \A e \in BatchId : stamps[e] \in Nat /\ stamps[e] <= clock
        /\ \A t \in Tx : <<t, ServedTag>> \in BatchId
        /\ \A e \in BatchId : batches[e].status = "reorged" => stamps[e] > 0
        /\ \A t, u \in Tx : Reorged(t) /\ t \notin tied /\ StampOf(t) = StampOf(u) => t = u
    BY StampTypes DEF StampsOrdered
  <1>2. CASE \E t \in Tx : Lose(t)
    <2>1. PICK t \in Tx : Lose(t)
      BY <1>2
    <2>2. PICK now \in 1 .. MaxStamp :
            /\ StampedAt(t, now)
            /\ \A e \in BatchId :
                 \/ batches'[e] = batches[e] /\ stamps'[e] = stamps[e]
                    /\ (e[1] = t => batches[e].status = "absent")
                 \/ e[1] = t /\ batches'[e].status = "reorged" /\ stamps'[e] = now
      BY <2>1, LoseRows
    <2>3. now \in Nat /\ now > 0
      BY IndexerAssumption
    <2>4. clock' \in Nat /\ clock <= clock' /\ now <= clock'
      BY <1>1, <2>2, <2>3 DEF StampedAt
    <2>5. \A e \in BatchId : stamps'[e] <= clock' /\ (batches'[e].status = "reorged" => stamps'[e] > 0)
      BY <1>1, <2>2, <2>3, <2>4
    <2>6. \A u \in Tx : \/ /\ Reorged(u)' <=> Reorged(u)
                           /\ StampOf(u)' = StampOf(u)
                           /\ u = t => ~Reorged(u)
                        \/ u = t /\ StampOf(u)' = now
      BY <1>1, <2>2 DEF Reorged, StampOf
    <2>7. \A u \in Tx : StampOf(u) \in Nat /\ StampOf(u) <= clock
      BY <1>1 DEF StampOf
    <2> HIDE DEF Reorged, StampOf
    <2>8. ASSUME NEW u \in Tx, Reorged(u)', u \notin tied'
          PROVE  LostAlready(u) \/ LostNow(u)
      BY <2>2, <2>3, <2>6, <2>8 DEF StampedAt, LostAlready, LostNow
    <2>9. ASSUME NEW u \in Tx, NEW w \in Tx, Reorged(u)', u \notin tied', StampOf(u)' = StampOf(w)'
          PROVE  u = w
      <3>1. CASE now > clock /\ clock' = now /\ tied' = tied \ {t}
        BY <1>1, <2>3, <2>6, <2>7, <2>9, <3>1
      <3>2. CASE now <= clock /\ tied' = tied \cup {t} \cup {x \in Tx : StampOf(x) = now}
        BY <1>1, <2>3, <2>6, <2>7, <2>9, <3>2
      <3> QED
        BY <2>2, <3>1, <3>2 DEF StampedAt
    <2> QED
      BY <2>4, <2>5, <2>8, <2>9
  <1>3. CASE \E t \in Tx : \E block \in Blocks[t] : Confirm(t, block)
    <2>1. /\ \A e \in BatchId :
               \/ batches'[e] = batches[e] /\ stamps'[e] = stamps[e]
               \/ batches'[e].status = "confirmed" /\ stamps'[e] = 0
          /\ clock' = clock /\ tied' = {u \in tied : Reorged(u)'}
      BY <1>3, ConfirmRows
    <2>2. \A e \in BatchId : stamps'[e] <= clock' /\ (batches'[e].status = "reorged" => stamps'[e] > 0)
      BY <1>1, <2>1
    <2>3. \A u \in Tx : \/ (Reorged(u)' <=> Reorged(u)) /\ StampOf(u)' = StampOf(u)
                        \/ ~Reorged(u)' /\ StampOf(u)' = 0
      BY <1>1, <2>1 DEF Reorged, StampOf
    <2>4. \A u \in Tx : Reorged(u) => StampOf(u) # 0
      BY <1>1 DEF Reorged, StampOf
    <2> HIDE DEF Reorged, StampOf
    <2>5. ASSUME NEW u \in Tx, Reorged(u)', u \notin tied'
          PROVE  LostAlready(u)
      BY <2>1, <2>3, <2>5 DEF LostAlready
    <2>6. ASSUME NEW u \in Tx, NEW w \in Tx, Reorged(u)', u \notin tied', StampOf(u)' = StampOf(w)'
          PROVE  u = w
      <3>1. Reorged(u) /\ u \notin tied /\ StampOf(u)' = StampOf(u) /\ StampOf(u) # 0
        BY <2>4, <2>5, <2>6 DEF LostAlready
      <3>2. StampOf(w) = StampOf(u)
        BY <2>3, <2>6, <3>1
      <3>3. \A x, y \in Tx : Reorged(x) /\ x \notin tied /\ StampOf(x) = StampOf(y) => x = y
        BY <1>1
      <3> QED
        BY <3>1, <3>2, <3>3
    <2> QED
      BY <1>1, <2>1, <2>2, <2>5, <2>6
  <1> QED
    BY <1>2, <1>3 DEF Source

LEMMA CascadeSource ==
  ASSUME GenInv, GenInv', CascadeInv, Source
  PROVE  CascadeInv'
  <1> USE DEF CascadeInv
  <1>1. UNCHANGED <<gens, posts, daemon>>
    BY DEF Source
  <1>2. /\ clock' \in Nat /\ clock <= clock'
        /\ \A e \in BatchId : stamps'[e] <= clock' /\ (batches'[e].status = "reorged" => stamps'[e] > 0)
        /\ \A t \in Tx : Reorged(t)' /\ t \notin tied' => LostAlready(t) \/ LostNow(t)
        /\ \A t, u \in Tx : Reorged(t)' /\ t \notin tied' /\ StampOf(t)' = StampOf(u)' => t = u
    BY LostRows
  <1>3. /\ clock \in Nat
        /\ \A p \in posts : p.batch \in Tx
        /\ \A g \in Gen : gens[g].reorgAt \in Nat \cup {-1}
        /\ InTick => daemon.fwd.reorgAt \in Nat \cup {-1}
        /\ \A r \in daemon.lost : r.stamp \in Nat
        /\ \A r \in daemon.rows : r.batch \in Tx
    BY StampTypes
  <1>4. /\ \A g \in Gen : gens[g].reorgAt <= clock
        /\ InTick => daemon.fwd.reorgAt <= clock
        /\ daemon.pc = "evict" => \A r \in daemon.lost : r.stamp <= clock
    BY DEF StampsOrdered
  <1>5. StampsOrdered'
    <2>1. /\ \A g \in Gen : gens'[g].reorgAt <= clock'
          /\ InTick' => daemon'.fwd.reorgAt <= clock'
          /\ daemon'.pc = "evict" => \A r \in daemon'.lost : r.stamp <= clock'
      BY <1>1, <1>2, <1>3, <1>4 DEF InTick
    <2> QED
      BY <1>2, <2>1 DEF StampsOrdered
  <1>6. PageLostLater'
    <2> SUFFICES ASSUME daemon.pc = "project", NEW r \in daemon.rows, Reorged(r.batch)', r.batch \notin tied'
                 PROVE  StampOf(r.batch)' > daemon.fwd.reorgAt
      BY <1>1 DEF PageLostLater
    <2>1. LostAlready(r.batch) \/ LostNow(r.batch)
      BY <1>2, <1>3
    <2>2. CASE LostAlready(r.batch)
      BY <2>2 DEF LostAlready, PageLostLater
    <2>3. CASE LostNow(r.batch)
      BY <1>2, <1>3, <1>4, <2>3 DEF LostNow, InTick
    <2> QED
      BY <2>1, <2>2, <2>3
  <1>7. LostFaithful'
    <2>1. ASSUME daemon.pc = "evict", NEW r \in daemon.lost, NEW t \in Tx, Reorged(t)', t \notin tied',
                 StampOf(t)' = r.stamp
          PROVE  t = r.batch
      <3>1. CASE LostAlready(t)
        BY <2>1, <3>1 DEF LostAlready, LostFaithful
      <3>2. CASE LostNow(t)
        <4>1. r.stamp = clock' /\ clock < clock'
          BY <2>1, <3>2 DEF LostNow
        <4>2. r.stamp <= clock /\ r.stamp \in Nat
          BY <1>3, <1>4, <2>1
        <4> QED
          BY <1>2, <1>3, <4>1, <4>2
      <3>3. LostAlready(t) \/ LostNow(t)
        BY <1>2, <2>1
      <3> QED
        BY <3>1, <3>2, <3>3
    <2>2. ASSUME daemon.pc = "evict", NEW p \in posts, Reorged(p.batch)', p.batch \notin tied',
                 StampOf(p.batch)' > daemon.fwd.reorgAt
          PROVE  \/ [batch |-> p.batch, stamp |-> StampOf(p.batch)'] \in daemon.lost
                 \/ \A r \in daemon.lost : StampOf(p.batch)' > r.stamp
      <3>1. LostAlready(p.batch) \/ LostNow(p.batch)
        BY <1>2, <1>3, <2>2
      <3>2. CASE LostAlready(p.batch)
        BY <2>2, <3>2 DEF LostAlready, LostFaithful
      <3>3. CASE LostNow(p.batch)
        BY <1>2, <1>3, <1>4, <2>2, <3>3 DEF LostNow
      <3> QED
        BY <3>1, <3>2, <3>3
    <2> QED
      BY <1>1, <2>1, <2>2 DEF LostFaithful
  <1>8. ReorgsCascade'
    <2> SUFFICES ASSUME NEW g \in Gen, gens[g].current, NEW p \in posts, Reorged(p.batch)', p.batch \notin tied'
                 PROVE  StampOf(p.batch)' > gens[g].reorgAt
      BY <1>1 DEF ReorgsCascade, CurrentOf, Reorged, StampOf
    <2>1. LostAlready(p.batch) \/ LostNow(p.batch)
      BY <1>2, <1>3
    <2>2. CASE LostAlready(p.batch)
      BY <2>2 DEF LostAlready, ReorgsCascade, CurrentOf
    <2>3. CASE LostNow(p.batch)
      BY <1>2, <1>3, <1>4, <2>3 DEF LostNow
    <2> QED
      BY <2>1, <2>2, <2>3
  <1> QED
    BY <1>5, <1>6, <1>7, <1>8

\* The reorgs of a page come before those that are left out of it.
LEMMA LostPageIsPrefix ==
  ASSUME NEW rows \in SUBSET LostRow, IsFiniteSet(rows), NEW r \in rows, NEW q \in rows,
         Cardinality({s \in rows : Sooner(s, r)}) < BatchSize,
         ~(Cardinality({s \in rows : Sooner(s, q)}) < BatchSize)
  PROVE  Sooner(r, q)
  <1> DEFINE below(x) == {s \in rows : Sooner(s, x)}
  <1> SUFFICES ASSUME ~Sooner(r, q) PROVE FALSE
    OBVIOUS
  <1>1. \A s \in rows : s.stamp \in Nat /\ s.batch \in Int
    BY BamStoreAssumption DEF LostRow, Tx
  <1>2. below(q) \in SUBSET below(r)
    BY <1>1 DEF Sooner
  <1>3. IsFiniteSet(below(r))
    BY FS_Subset
  <1>4. /\ Cardinality(below(q)) <= Cardinality(below(r))
        /\ Cardinality(below(q)) \in Nat /\ Cardinality(below(r)) \in Nat
    BY <1>2, <1>3, FS_Subset, FS_CardinalityType
  <1> HIDE DEF below
  <1>5. Cardinality(below(r)) < BatchSize /\ ~(Cardinality(below(q)) < BatchSize) /\ BatchSize \in Nat
    BY IndexerAssumption DEF below
  <1> QED
    BY <1>4, <1>5

\* The page of listReorgedAfter.
LEMMA LostListRows ==
  ASSUME GenInv, StampsOrdered, TickReorgs
  PROVE  /\ daemon.pc = "project" /\ daemon'.pc = "evict" /\ daemon'.gen = daemon.gen
         /\ daemon'.fwd = daemon.fwd
         /\ \A r \in daemon'.lost : r.stamp > daemon.fwd.reorgAt /\ r.stamp <= clock
         /\ \A r \in daemon'.lost, t \in Tx :
              Reorged(t) /\ t \notin tied /\ StampOf(t) = r.stamp => t = r.batch
         /\ \A t \in Tx : Reorged(t) /\ t \notin tied /\ StampOf(t) > daemon.fwd.reorgAt =>
              \/ [batch |-> t, stamp |-> StampOf(t)] \in daemon'.lost
              \/ \A r \in daemon'.lost : StampOf(t) > r.stamp
  <1> DEFINE lost == ReorgedAfter(daemon.fwd.reorgAt)
             page == {r \in lost : Cardinality({s \in lost : Sooner(s, r)}) < BatchSize}
             Row(t) == [batch |-> t, stamp |-> StampOf(t)]
             behind == {t \in Tx : Reorged(t) /\ StampOf(t) > daemon.fwd.reorgAt}
  <1>1. /\ daemon.pc = "project" /\ daemon'.pc = "evict" /\ daemon'.gen = daemon.gen
        /\ daemon'.fwd = daemon.fwd /\ daemon'.lost = page
    BY DEF TickReorgs, GenInv, GenerationInv, IndexerTypeOK, Daemon
  <1>2. lost = {Row(t) : t \in behind}
    <2>1. \A t \in Tx : <<t, ServedTag>> \in BatchId
      BY StampTypes
    <2>2. \A e \in BatchId : e[2] = ServedTag => e[1] \in Tx /\ e = <<e[1], ServedTag>>
      BY DEF BatchId
    <2> QED
      BY <2>1, <2>2 DEF ReorgedAfter, Reorged, StampOf
  <1>3. lost \in SUBSET LostRow
    BY ReorgedAfterType
  <1>4. IsFiniteSet(lost)
    <2>1. IsFiniteSet(Tx)
      <3>1. Tx = 1 .. MaxTx /\ MaxTx \in Int
        BY BamStoreAssumption DEF Tx
      <3> QED
        BY <3>1, FS_Interval
    <2>2. IsFiniteSet(behind)
      BY <2>1, FS_Subset
    <2>3. [t \in behind |-> Row(t)] \in Surjection(behind, lost)
      <3> HIDE DEF lost, behind
      <3> QED
        BY <1>2 DEF Surjection
    <2> HIDE DEF lost, behind
    <2> QED
      BY <2>2, <2>3, FS_Surjection
  <1>5. \A t \in behind : StampOf(t) > 0 /\ StampOf(t) <= clock /\ StampOf(t) \in Nat
    BY StampTypes DEF StampsOrdered, Reorged, StampOf
  <1>6. \A t, u \in Tx : Reorged(t) /\ t \notin tied /\ StampOf(t) = StampOf(u) => t = u
    BY DEF StampsOrdered
  <1>7. ASSUME NEW r \in page, NEW q \in lost \ page
        PROVE  Sooner(r, q)
    <2>1. r \in lost /\ Cardinality({s \in lost : Sooner(s, r)}) < BatchSize
      OBVIOUS
    <2>2. q \in lost /\ ~(Cardinality({s \in lost : Sooner(s, q)}) < BatchSize)
      OBVIOUS
    <2> HIDE DEF lost, page
    <2> QED
      BY <1>3, <1>4, <2>1, <2>2, LostPageIsPrefix
  <1>8. page \subseteq lost
    OBVIOUS
  <1> HIDE DEF lost, page
  <1>9. \A r \in page : r.stamp > daemon.fwd.reorgAt /\ r.stamp <= clock
    BY <1>2, <1>5, <1>8
  <1>10. ASSUME NEW r \in lost, NEW t \in Tx, Reorged(t), t \notin tied, StampOf(t) = r.stamp
         PROVE  t = r.batch
    <2>1. PICK u \in behind : r = Row(u)
      BY <1>2
    <2> QED
      BY <1>6, <1>10, <2>1
  <1>11. ASSUME NEW t \in behind, t \notin tied, Row(t) \notin page
         PROVE  \A r \in page : StampOf(t) > r.stamp
    <2>1. Row(t) \in lost \ page /\ Row(t).stamp = StampOf(t) /\ Row(t).batch = t
      BY <1>2, <1>11
    <2>2. \A r \in page : Sooner(r, Row(t)) /\ r.stamp \in Nat /\ r.batch \in Tx
      BY <1>3, <1>7, <1>8, <2>1 DEF LostRow
    <2>3. \A r \in page : r.stamp = StampOf(t) => t = r.batch
      BY <1>8, <1>10, <1>11
    <2>4. t \in Int
      BY <1>11, BamStoreAssumption DEF Tx
    <2> QED
      BY <1>5, <1>11, <2>1, <2>2, <2>3, <2>4 DEF Sooner
  <1> QED
    BY <1>1, <1>8, <1>9, <1>10, <1>11

LEMMA CascadeMigrate ==
  ASSUME GenInv, GenInv', CascadeInv, NEW v \in CodeVersions, Boot(v) \/ ResetStart(v)
  PROVE  CascadeInv'
  <1> USE DEF CascadeInv
  <1>1. /\ UNCHANGED sourceVars /\ UNCHANGED posts /\ Migrate(v)
        /\ daemon' = daemon \/ daemon' = Resting
    BY DEF Boot, ResetStart
  <1>2. UNCHANGED <<messages, batches, stamps, clock, tied, posts>>
    BY <1>1 DEF sourceVars, storeVars
  <1>3. TableOK
    BY TypeParts DEF GenInv, GenerationInv
  <1>4. \A g \in Gen :
           /\ gens'[g].reorgAt \in {gens[g].reorgAt, -1}
           /\ gens'[g].current => gens'[g] = gens[g] \/ gens'[g].reorgAt = -1
    BY <1>1, <1>3, MigrateRows
  <1>5. StampsOrdered'
    BY <1>1, <1>2, <1>4, StampTypes, RestingType DEF StampsOrdered, InTick, Reorged, StampOf
  <1>6. PageLostLater' /\ LostFaithful'
    <2>1. CASE daemon' = daemon
      BY <1>2, <2>1 DEF PageLostLater, LostFaithful, Reorged, StampOf
    <2>2. CASE daemon' = Resting
      BY <2>2, RestingType DEF PageLostLater, LostFaithful
    <2> QED
      BY <1>1, <2>1, <2>2
  <1>7. ReorgsCascade'
    BY <1>2, <1>4, StampTypes DEF ReorgsCascade, CurrentOf, Reorged, StampOf
  <1> QED
    BY <1>5, <1>6, <1>7

LEMMA CascadeStart ==
  ASSUME GenInv, GenInv', CommonInv, CascadeInv, TickStart \/ TickList \/ TickReorgs
  PROVE  CascadeInv'
  <1> USE DEF CascadeInv
  <1>1. UNCHANGED <<sourceVars, gens, posts>>
    BY DEF TickStart, TickList, TickReorgs
  <1>2. UNCHANGED <<messages, batches, stamps, clock, tied>> /\ UNCHANGED <<gens, posts>>
    BY <1>1 DEF sourceVars, storeVars
  <1>3. ReorgsCascade'
    BY <1>2 DEF ReorgsCascade, CurrentOf, Reorged, StampOf
  <1>4. CASE TickStart
    BY <1>2, <1>3, <1>4, StartRows DEF StampsOrdered, PageLostLater, LostFaithful, InTick, Reorged, StampOf
  <1>5. CASE TickList
    <2>1. StampsOrdered' /\ LostFaithful'
      BY <1>2, <1>5, ListRows DEF StampsOrdered, LostFaithful, InTick, Reorged, StampOf
    <2>2. \A k \in ServedKeys : ~Reorged(RowOf(k).batch)
      BY DEF CommonInv, SourceBacked, ServedKeys, Reorged, RowOf
    <2>3. \A r \in daemon'.rows : ~Reorged(r.batch)
      BY <1>5, <2>2, ListRows
    <2>4. PageLostLater'
      BY <1>2, <2>3 DEF PageLostLater, Reorged
    <2> QED
      BY <1>3, <2>1, <2>4
  <1>6. CASE TickReorgs
    <2>1. /\ daemon.pc = "project" /\ daemon'.pc = "evict" /\ daemon'.gen = daemon.gen
          /\ daemon'.fwd = daemon.fwd
          /\ \A r \in daemon'.lost : r.stamp > daemon.fwd.reorgAt /\ r.stamp <= clock
          /\ \A r \in daemon'.lost, t \in Tx :
               Reorged(t) /\ t \notin tied /\ StampOf(t) = r.stamp => t = r.batch
          /\ \A t \in Tx : Reorged(t) /\ t \notin tied /\ StampOf(t) > daemon.fwd.reorgAt =>
               \/ [batch |-> t, stamp |-> StampOf(t)] \in daemon'.lost
               \/ \A r \in daemon'.lost : StampOf(t) > r.stamp
      BY <1>6, LostListRows
    <2>2. StampsOrdered' /\ PageLostLater'
      BY <1>2, <2>1 DEF StampsOrdered, PageLostLater, InTick, Reorged, StampOf
    <2>3. LostFaithful'
      <3>1. /\ daemon.fwd.reorgAt \in Nat \cup {-1} /\ \A p \in posts : p.batch \in Tx
            /\ \A r \in daemon'.lost : r.stamp \in Nat
        BY <2>1, StampTypes DEF InTick, GenInv, GenerationInv, IndexerTypeOK, Daemon, LostRow
      <3>2. /\ UNCHANGED <<posts, tied>>
            /\ \A t : (Reorged(t)' <=> Reorged(t)) /\ StampOf(t)' = StampOf(t)
        BY <1>2 DEF Reorged, StampOf
      <3>3. \A r \in daemon'.lost : r.stamp >= daemon'.fwd.reorgAt
        BY <2>1, <3>1
      <3> QED
        BY <2>1, <3>1, <3>2, <3>3 DEF LostFaithful
    <2> QED
      BY <1>3, <2>2, <2>3
  <1> QED
    BY <1>4, <1>5, <1>6

LEMMA CascadeProject ==
  ASSUME GenInv, GenInv', CommonInv, CascadeInv, CarefulReset, TickProject
  PROVE  CascadeInv'
  <1> USE DEF CascadeInv
  <1>1. PICK r \in daemon.rows : Advanced(r)
    BY ProjectRows
  <1>2. /\ UNCHANGED <<batches, stamps, clock, tied>> /\ daemon.pc = "project" /\ InTick
    BY ProjectRows DEF sourceVars, storeVars, InTick
  <1>3. /\ \A g \in Gen : g # daemon.gen => gens'[g] = gens[g]
        /\ gens'[daemon.gen].reorgAt = daemon.fwd.reorgAt
        /\ gens[daemon.gen].current /\ daemon.fwd.reorgAt = gens[daemon.gen].reorgAt
        /\ \A g \in Gen : gens[g].current => g = daemon.gen
    <2>1. gens[daemon.gen].current /\ \A g \in Gen : gens[g].current => g = daemon.gen
      BY <1>1 DEF Advanced
    <2>2. daemon.fwd.reorgAt = gens[daemon.gen].reorgAt
      BY <1>2, <2>1 DEF CommonInv, CursorsLag
    <2>3. /\ gens'[daemon.gen].reorgAt = daemon.fwd.reorgAt
          /\ \A g \in Gen \ {daemon.gen} : gens'[g] = gens[g]
      BY <1>1 DEF Advanced
    <2> QED
      BY <2>1, <2>2, <2>3
  <1>4. \/ /\ daemon'.pc = "project" /\ daemon'.fwd.reorgAt = daemon.fwd.reorgAt
           /\ daemon'.rows \subseteq daemon.rows
        \/ daemon'.pc = "idle"
    BY <1>1 DEF Advanced
  <1>5. StampsOrdered'
    BY <1>2, <1>3, <1>4 DEF StampsOrdered, InTick, Reorged, StampOf
  <1>6. PageLostLater' /\ LostFaithful'
    BY <1>2, <1>4 DEF PageLostLater, LostFaithful, Reorged, StampOf
  <1>7. \A p \in posts' : p \in posts \/ p.batch = r.batch
    BY <1>1 DEF Advanced, Projected
  <1>8. ReorgsCascade'
    <2> SUFFICES ASSUME NEW g \in Gen, gens'[g].current, NEW p \in posts', Reorged(p.batch),
                        p.batch \notin tied
                 PROVE  StampOf(p.batch) > gens'[g].reorgAt
      BY <1>2 DEF ReorgsCascade, CurrentOf, Reorged, StampOf
    <2>1. gens[g].current /\ gens'[g].reorgAt = daemon.fwd.reorgAt /\ gens[g].reorgAt = daemon.fwd.reorgAt
      BY <1>1, <1>3 DEF Advanced
    <2>2. CASE p \in posts
      BY <2>1, <2>2 DEF ReorgsCascade, CurrentOf, Reorged, StampOf
    <2>3. CASE p.batch = r.batch
      BY <1>2, <2>1, <2>3 DEF PageLostLater
    <2> QED
      BY <1>7, <2>2, <2>3
  <1> QED
    BY <1>5, <1>6, <1>8

LEMMA CascadeEvict ==
  ASSUME GenInv, GenInv', CommonInv, CascadeInv, CarefulReset, TickEvict
  PROVE  CascadeInv'
  <1> USE DEF CascadeInv
  <1>1. PICK r \in daemon.lost : Retreated(r)
    BY EvictRows
  <1>2. /\ UNCHANGED <<batches, stamps, clock, tied>> /\ daemon.pc = "evict" /\ InTick
    BY EvictRows DEF sourceVars, storeVars, InTick
  <1>3. /\ clock \in Nat /\ r.stamp \in Nat /\ r.stamp <= clock
        /\ daemon.fwd.reorgAt \in Nat \cup {-1} /\ r.stamp >= daemon.fwd.reorgAt
        /\ \A s \in daemon.lost : s.stamp \in Nat
        /\ \A p \in posts : p.batch \in Tx /\ StampOf(p.batch) \in Nat
    BY <1>2, StampTypes DEF StampsOrdered, LostFaithful, StampOf
  <1>4. /\ \A g \in Gen : g # daemon.gen => gens'[g] = gens[g]
        /\ gens[daemon.gen].current /\ gens'[daemon.gen].reorgAt = r.stamp
        /\ daemon.fwd.reorgAt = gens[daemon.gen].reorgAt
        /\ \A g \in Gen : gens[g].current => g = daemon.gen
    <2>1. gens[daemon.gen].current /\ \A g \in Gen : gens[g].current => g = daemon.gen
      BY <1>1 DEF Retreated
    <2>2. daemon.fwd.reorgAt = gens[daemon.gen].reorgAt
      BY <1>2, <2>1 DEF CommonInv, CursorsLag
    <2>3. /\ gens'[daemon.gen].reorgAt = r.stamp
          /\ \A g \in Gen \ {daemon.gen} : gens'[g] = gens[g]
      BY <1>1, <1>3 DEF Retreated
    <2> QED
      BY <2>1, <2>2, <2>3
  <1>5. \/ /\ daemon'.pc = "evict" /\ daemon'.fwd.reorgAt = r.stamp
           /\ daemon'.lost = daemon.lost \ {r}
        \/ daemon'.pc = "idle"
    BY <1>1, <1>4 DEF Retreated
  <1>6. \A s \in daemon.lost : s.stamp >= r.stamp
    BY <1>1, <1>3 DEF Retreated, NextLost, Sooner
  <1>7. \A p \in posts' : p \in posts /\ p.batch # r.batch
    BY <1>1 DEF Retreated, Evicted
  <1>8. StampsOrdered'
    BY <1>2, <1>3, <1>4, <1>5 DEF StampsOrdered, InTick, Reorged, StampOf
  <1>9. PageLostLater'
    BY <1>5 DEF PageLostLater
  <1>10. ASSUME NEW p \in posts', Reorged(p.batch), p.batch \notin tied,
                StampOf(p.batch) > daemon.fwd.reorgAt
         PROVE  /\ StampOf(p.batch) > r.stamp
                /\ \/ [batch |-> p.batch, stamp |-> StampOf(p.batch)] \in daemon.lost \ {r}
                   \/ \A s \in daemon.lost : StampOf(p.batch) > s.stamp
    <2>1. p \in posts /\ p.batch # r.batch
      BY <1>7
    <2>2. \/ [batch |-> p.batch, stamp |-> StampOf(p.batch)] \in daemon.lost
          \/ \A s \in daemon.lost : StampOf(p.batch) > s.stamp
      BY <1>2, <1>10, <2>1 DEF LostFaithful
    <2>3. [batch |-> p.batch, stamp |-> StampOf(p.batch)] # r
      BY <2>1
    <2>4. StampOf(p.batch) # r.stamp
      BY <1>2, <1>3, <1>10, <2>1 DEF LostFaithful
    <2>5. StampOf(p.batch) \in Nat /\ r.stamp \in Nat
      BY <1>3, <2>1
    <2> QED
      BY <1>6, <2>2, <2>3, <2>4, <2>5
  <1>11. LostFaithful'
    <2>1. CASE daemon'.pc = "idle"
      BY <2>1 DEF LostFaithful
    <2>2. CASE /\ daemon'.pc = "evict" /\ daemon'.fwd.reorgAt = r.stamp
               /\ daemon'.lost = daemon.lost \ {r}
      <3>1. \A s \in daemon'.lost : s.stamp >= daemon'.fwd.reorgAt
        BY <1>6, <2>2
      <3>2. \A s \in daemon'.lost, t \in Tx :
               Reorged(t) /\ t \notin tied /\ StampOf(t) = s.stamp => t = s.batch
        BY <1>2, <2>2 DEF LostFaithful
      <3>3. ASSUME NEW p \in posts', Reorged(p.batch), p.batch \notin tied, StampOf(p.batch) > r.stamp
            PROVE  \/ [batch |-> p.batch, stamp |-> StampOf(p.batch)] \in daemon.lost \ {r}
                   \/ \A s \in daemon.lost : StampOf(p.batch) > s.stamp
        BY <1>3, <1>7, <1>10, <3>3
      <3> QED
        BY <1>2, <2>2, <3>1, <3>2, <3>3 DEF LostFaithful, Reorged, StampOf
    <2> QED
      BY <1>5, <2>1, <2>2
  <1>12. ReorgsCascade'
    <2> SUFFICES ASSUME NEW g \in Gen, gens'[g].current, NEW p \in posts', Reorged(p.batch),
                        p.batch \notin tied
                 PROVE  StampOf(p.batch) > gens'[g].reorgAt
      BY <1>2 DEF ReorgsCascade, CurrentOf, Reorged, StampOf
    <2>1. g = daemon.gen /\ gens[g].current /\ gens'[g].reorgAt = r.stamp
      BY <1>4
    <2>2. StampOf(p.batch) > daemon.fwd.reorgAt
      BY <1>4, <1>7, <2>1 DEF ReorgsCascade, CurrentOf, Reorged, StampOf
    <2> QED
      BY <1>10, <2>1, <2>2
  <1> QED
    BY <1>8, <1>9, <1>11, <1>12

LEMMA CascadeStep ==
  ASSUME GenInv, GenInv', CommonInv, CascadeInv, CarefulReset,
         [IndexerNext]_indexerVars
  PROVE  CascadeInv'
  <1>1. CASE TickProjectFails \/ TickEvictFails \/ TickEnd \/ TickThrows \/ IndexerCrash
    <2>1. UNCHANGED <<batches, stamps, clock, tied>> /\ UNCHANGED <<gens, posts>>
      BY <1>1, PauseRows DEF sourceVars, storeVars
    <2> QED
      BY <1>1, <2>1, PauseRows DEF CascadeInv, StampsOrdered, PageLostLater, LostFaithful, ReorgsCascade,
                                   CurrentOf, InTick, Reorged, StampOf
  <1>2. CASE (\E g \in Gen : ResetGen(g)) \/ ResetDrop \/ ResetForget \/ ResetCrash
    <2>1. UNCHANGED <<batches, stamps, clock, tied>> /\ daemon' = daemon /\ posts' \subseteq posts
      BY <1>2, ResetRows DEF sourceVars, storeVars
    <2>2. /\ \A g \in Gen : gens'[g] = NoGen \/ gens'[g] = gens[g]
          /\ ~NoGen.current /\ NoGen.reorgAt = -1 /\ clock \in Nat
      BY <1>2, ResetRows, StampTypes DEF NoGen
    <2>3. StampsOrdered'
      BY <2>1, <2>2 DEF CascadeInv, StampsOrdered, InTick, Reorged, StampOf
    <2>4. PageLostLater' /\ LostFaithful'
      BY <2>1 DEF CascadeInv, PageLostLater, LostFaithful, Reorged, StampOf
    <2>5. ReorgsCascade'
      BY <2>1, <2>2 DEF CascadeInv, ReorgsCascade, CurrentOf, Reorged, StampOf
    <2> QED
      BY <2>3, <2>4, <2>5 DEF CascadeInv
  <1>3. CASE UNCHANGED indexerVars
    BY <1>3 DEF indexerVars, sourceVars, storeVars, CascadeInv, StampsOrdered, PageLostLater, LostFaithful,
                ReorgsCascade, Reorged, StampOf, CurrentOf, InTick
  <1>4. ASSUME NEW v \in CodeVersions, Boot(v) \/ ResetStart(v) PROVE CascadeInv'
    BY <1>4, CascadeMigrate
  <1>5. CASE Source
    BY <1>5, CascadeSource
  <1>6. CASE TickStart \/ TickList \/ TickReorgs
    BY <1>6, CascadeStart
  <1>7. CASE TickProject
    BY <1>7, CascadeProject
  <1>8. CASE TickEvict
    BY <1>8, CascadeEvict
  <1> QED
    BY <1>1, <1>2, <1>3, <1>4, <1>5, <1>6, <1>7, <1>8 DEF IndexerNext, Tick, Reset

\* A cursor on the batch-level timestamp never misses a cascade (cursor.ts): a post of a lost batch,
\* in whichever generation it is, is stamped after the reorg cursor of the current generation.
\* Batches are confirmed in any order and two clocks stamp the reorgs: all that may escape is a
\* batch that is tied, and ties never hide a batch that is not.  The operator stops the daemon
\* before its generation is reset.
THEOREM NoCascadeIsMissed ==
  ASSUME CarefulReset
  PROVE  IndexerSpec => []ReorgsCascade
  <1>1. IndexerInit => GenInv /\ CommonInv /\ CascadeInv
    BY InitInv, CommonInitially, CascadeInitially
  <1>2. GenInv /\ CommonInv /\ CascadeInv /\ [IndexerNext]_indexerVars
          => (GenInv /\ CommonInv /\ CascadeInv)'
    BY NextInv, CommonStep, CascadeStep
  <1>3. CascadeInv => ReorgsCascade
    BY DEF CascadeInv
  <1> QED
    BY <1>1, <1>2, <1>3, PTL DEF IndexerSpec
=============================================================================
