------------------------------ MODULE Startup ------------------------------
(***************************************************************************)
(* How the three daemons start: bam-poster, bam-reader and bam-indexer     *)
(* read a dotenv file, the environment and the command line, check them    *)
(* against the chain and the database, and then serve, run one operator's  *)
(* command, or exit with a code.                                           *)
(*                                                                         *)
(* The values of variables and arguments are texts.  Finite gives the      *)
(* number rounded down of those that JavaScript's Number() turns into a    *)
(* finite one ("" is 0); Whole holds those that are integers.  What the    *)
(* other formats accept is a set of texts each.                            *)
(***************************************************************************)
EXTENDS Integers, Sequences, SequencesExt, FiniteSetsExt

CONSTANTS
    Finite, Whole,                  \* see above
    Addresses, Bytes32s, TagLists, Uuids, PostgresUrls,     \* texts of these forms
    Flags,                          \* texts that begin with --
    DeployBlock, AbiDecoders,       \* bam-sdk's deployments: block of the core, chains with an ABIDecoder
    DotenvLevels,                   \* directories searched for a dotenv file
    MinReorgWindow, MaxReorgWindow, DefaultReorgWindow,
    MinLogChunk, MaxLogChunk, MinGasCap, MaxPort,
    Startups                        \* what a process may start from

Unset == "unset"

ASSUME StartupAssumption ==
    /\ Finite \in [DOMAIN Finite -> Int] /\ Whole \subseteq DOMAIN Finite \ {Unset}
    /\ "" \in Whole => Finite[""] = 0
    /\ PostgresUrls \cap {"memory:", "in process"} = {}
    /\ MinReorgWindow \in Nat \ {0} /\ MaxReorgWindow \in Nat
    /\ DefaultReorgWindow \in MinReorgWindow .. MaxReorgWindow
    /\ MaxLogChunk \in Nat /\ MinLogChunk \in 1 .. MaxLogChunk
    /\ \A chain \in DOMAIN DeployBlock : DeployBlock[chain] \in Nat
    /\ \A start \in Startups :
          start.who \in {"poster", "reader", "indexer"} /\ start.argv \in Seq(STRING) /\ start.world.head \in Int

VARIABLE startup   \* a process, what it starts from and how far it is

Given(v) == v \notin {Unset, ""}
Or(v, default) == IF v = Unset THEN default ELSE v
OrNumber(v, default) == IF Given(v) THEN Finite[v] ELSE default
AtLeast(v, min) == v \in Whole /\ Finite[v] >= min
Between(v, min, max) == AtLeast(v, min) /\ Finite[v] <= max
Positive(v) == AtLeast(v, 1)

-----------------------------------------------------------------------------
(***************************************************************************)
(* Environment.                                                            *)
(***************************************************************************)
\* The file named by <SERVICE>_ENV_FILE, or else the nearest .env.local or .env; at most one.
DotenvFile(who) ==
    LET named == startup.named[who]
        dirs == {i \in DOMAIN startup.dirs : i <= DotenvLevels /\ startup.dirs[i].local \cup startup.dirs[i].plain # {}}
        nearest == startup.dirs[Min(dirs)]
    IN  IF named.given THEN named.file
        ELSE IF dirs = {} THEN {}
        ELSE IF nearest.local # {} THEN nearest.local
        ELSE nearest.plain

\* A variable of the process wins over the file, an empty one too.
LoadDotenv(who) ==
    [key \in DOMAIN startup.env |->
        IF startup.env[key] = Unset /\ \E file \in DotenvFile(who) : key \in DOMAIN file
        THEN (CHOOSE file \in DotenvFile(who) : TRUE)[key]
        ELSE startup.env[key]]

ClampReorgWindow(v) ==
    IF v \in DOMAIN Finite THEN Min({Max({Finite[v], MinReorgWindow}), MaxReorgWindow}) ELSE DefaultReorgWindow

ReorgWindow(v) == IF Given(v) THEN ClampReorgWindow(v) ELSE DefaultReorgWindow

PosterEnvAccepted(e) ==
    /\ e.POSTER_ALLOWED_TAGS \in TagLists
    /\ Positive(e.POSTER_CHAIN_ID)
    /\ e.POSTER_BAM_CORE_ADDRESS \in Addresses
    /\ Given(e.POSTER_SIGNATURE_REGISTRY) => e.POSTER_SIGNATURE_REGISTRY \in Addresses
    /\ e.POSTER_BATCH_ENCODING \in {Unset, "binary", "abi"}
    /\ e.POSTER_BATCH_ENCODING = "abi" => Finite[e.POSTER_CHAIN_ID] \in AbiDecoders
    /\ Given(e.POSTER_RPC_URL)
    /\ e.POSTER_SIGNER_PRIVATE_KEY \in Bytes32s
    /\ Between(Or(e.POSTER_PORT, "8787"), 0, MaxPort)
    /\ Given(e.POSTER_PACKING_LOSS_STREAK_WARN_THRESHOLD) =>
            Positive(e.POSTER_PACKING_LOSS_STREAK_WARN_THRESHOLD)

\* Without POSTGRES_URL the rows are in the process and gone with it.
PosterConfig(e) ==
    [chainId |-> Finite[e.POSTER_CHAIN_ID],
     dbUrl |-> IF Given(e.POSTGRES_URL) THEN e.POSTGRES_URL ELSE "in process",
     window |-> ReorgWindow(e.POSTER_REORG_WINDOW_BLOCKS)]

ReaderDbUrl(e) ==
    IF Given(e.READER_DB_URL) THEN e.READER_DB_URL
    ELSE IF Given(e.POSTGRES_URL) THEN e.POSTGRES_URL
    ELSE "memory:"

AnyChain(e) == Given(e.POSTER_CHAIN_ID) => Positive(e.POSTER_CHAIN_ID)   \* mutant: not compared

\* The Poster's chain, when the Reader sees it, is the Reader's.
SameChain(e) ==
    Given(e.POSTER_CHAIN_ID) =>
        Positive(e.POSTER_CHAIN_ID) /\ Finite[e.POSTER_CHAIN_ID] = Finite[e.READER_CHAIN_ID]

ReaderEnvAccepted(e) ==
    /\ Positive(e.READER_CHAIN_ID)
    /\ SameChain(e)
    /\ Given(e.READER_RPC_URL)
    /\ e.READER_BAM_CORE \in Addresses
    /\ Given(e.READER_CONTENT_TAGS) => e.READER_CONTENT_TAGS \in TagLists
    /\ ReaderDbUrl(e) \in PostgresUrls \cup {"memory:", "memory"}
    /\ Between(Or(e.READER_HTTP_PORT, "8788"), 0, MaxPort)
    /\ Given(e.READER_ETH_CALL_GAS_CAP) => AtLeast(e.READER_ETH_CALL_GAS_CAP, MinGasCap)
    /\ Positive(Or(e.READER_ETH_CALL_TIMEOUT_MS, "5000"))
    /\ Given(e.READER_START_BLOCK) => AtLeast(e.READER_START_BLOCK, 0)
    /\ Between(Or(e.READER_LOG_SCAN_CHUNK_BLOCKS, "2000"), MinLogChunk, MaxLogChunk)
    /\ Positive(Or(e.READER_BACKFILL_PROGRESS_INTERVAL_MS, "10000"))
    /\ Positive(Or(e.READER_BACKFILL_PROGRESS_EVERY_CHUNKS, "5"))

\* The environment's start block, the core's deploy block, or the first one.
ResolveStartBlock(e) ==
    IF Given(e.READER_START_BLOCK) THEN Finite[e.READER_START_BLOCK]
    ELSE IF Finite[e.READER_CHAIN_ID] \in DOMAIN DeployBlock THEN DeployBlock[Finite[e.READER_CHAIN_ID]]
    ELSE 0

ReaderConfig(e) ==
    [chainId |-> Finite[e.READER_CHAIN_ID], dbUrl |-> ReaderDbUrl(e),
     window |-> ReorgWindow(e.READER_REORG_WINDOW_BLOCKS),
     chunk |-> Finite[Or(e.READER_LOG_SCAN_CHUNK_BLOCKS, "2000")], startBlock |-> ResolveStartBlock(e)]

\* The chain id is digits, "0" among them, and is compared with nothing.
IndexerEnvAccepted(e) ==
    /\ AtLeast(e.INDEXER_CHAIN_ID, 0)
    /\ Given(e.INDEXER_DB_URL)
    /\ \A v \in {e.INDEXER_POLL_MS, e.INDEXER_BATCH_SIZE} : Given(v) => Positive(v)
    /\ Given(e.INDEXER_HTTP_PORT) => AtLeast(e.INDEXER_HTTP_PORT, 0)
    /\ e.INDEXER_TWITTER_TAG \in Bytes32s

IndexerConfig(e) ==
    [chainId |-> Finite[e.INDEXER_CHAIN_ID], dbUrl |-> e.INDEXER_DB_URL,
     writeDbUrl |-> Or(e.INDEXER_WRITE_DB_URL, e.INDEXER_DB_URL),
     pollMs |-> OrNumber(e.INDEXER_POLL_MS, 5000), batchSize |-> OrNumber(e.INDEXER_BATCH_SIZE, 200)]

-----------------------------------------------------------------------------
(***************************************************************************)
(* Command lines.                                                          *)
(***************************************************************************)
Refused == [subcommand |-> "refused"]

\* Flags, and the values of those in `valued': each takes the next argument, whatever it is.
ReadFlags(argv, valued) ==
    LET isValue[i \in DOMAIN argv] == i > 1 /\ argv[i - 1] \in valued /\ ~isValue[i - 1]
        open == {i \in DOMAIN argv : argv[i] \in valued /\ ~isValue[i]}
        given(flag) == {i \in open \ {Len(argv)} : argv[i] = flag}
    IN  [for |-> IF Len(argv) \in open THEN argv[Len(argv)] ELSE Unset,
         value |-> [flag \in valued |-> IF given(flag) = {} THEN Unset ELSE argv[Max(given(flag)) + 1]],
         flags |-> {argv[i] : i \in {j \in DOMAIN argv : argv[j] \notin valued /\ ~isValue[j]}}]

ResetArgs(argv) ==
    LET flags == ToSet(argv)
    IN  IF flags \subseteq {"--cursor", "--all", "--yes"} /\ ("--cursor" \in flags <=> "--all" \notin flags)
        THEN [subcommand |-> "reset", scope |-> IF "--all" \in flags THEN "all" ELSE "cursor",
              confirmed |-> "--yes" \in flags]
        ELSE Refused

BackfillArgs(argv) ==
    LET read == ReadFlags(argv, {"--from", "--to"})
        from == read.value["--from"]
        to == read.value["--to"]
        Backfill(marker) == [subcommand |-> "backfill", marker |-> marker, from |-> from, to |-> to]
    IN  IF read.for # Unset \/ ~(read.flags \subseteq {"--catchup"}) THEN Refused
        ELSE IF "--catchup" \in read.flags
             THEN IF from = Unset /\ to = Unset THEN Backfill("catchup") ELSE Refused
        ELSE IF from = "deploy"
             THEN IF to = Unset \/ AtLeast(to, 0) THEN Backfill("deploy") ELSE Refused
        ELSE IF AtLeast(from, 0) /\ AtLeast(to, Finite[from]) THEN Backfill("block")
        ELSE Refused

ParseArgs(argv) ==
    IF argv = <<"serve">> THEN [subcommand |-> "serve"]
    ELSE IF argv # <<>> /\ argv[1] = "reset" THEN ResetArgs(Tail(argv))
    ELSE IF argv # <<>> /\ argv[1] = "backfill" THEN BackfillArgs(Tail(argv))
    ELSE Refused

\* bam-indexer: unknown arguments are passed over.
IndexerArgs(argv) ==
    LET read == ReadFlags(Tail(argv), {"--handler", "--version"})
        version == read.value["--version"]
        current == "--current" \in read.flags
    IN  IF argv # <<>> /\ argv[1] = "serve" THEN [subcommand |-> "serve"]
        ELSE IF /\ argv # <<>> /\ argv[1] = "reset"
                /\ read.for = Unset /\ read.value["--handler"] \notin Flags \cup {Unset} /\ version \notin Flags
                /\ version # Unset => version \in Uuids /\ ~current
                /\ "--yes" \in read.flags
             THEN [subcommand |-> "reset", handler |-> read.value["--handler"],
                   scope |-> IF version # Unset THEN version ELSE IF current THEN "current" ELSE "all"]
        ELSE Refused

-----------------------------------------------------------------------------
(***************************************************************************)
(* Processes.  `did' is what a process has begun to do.                    *)
(***************************************************************************)
StartupInit ==
    \E start \in Startups :
        startup = [who |-> start.who, argv |-> start.argv, env |-> start.env, dirs |-> start.dirs,
                   named |-> start.named, world |-> start.world,
                   pc |-> "begin", code |-> 0, config |-> <<>>, command |-> Refused, did |-> <<>>]
NoStartup == startup = [pc |-> "none"]

StoreOpens ==
    \/ startup.config.dbUrl \in {"in process"} \cup (IF startup.who = "reader" THEN {"memory:", "memory"} ELSE {})
    \/ startup.config.dbUrl \in PostgresUrls /\ startup.world.db # "down"

ExitWith(code) == startup' = [startup EXCEPT !.pc = "over", !.code = code]
Configured(config, command) ==
    startup' = [startup EXCEPT !.pc = "configured", !.config = config, !.command = command]
Does(pc, did) == startup' = [startup EXCEPT !.pc = pc, !.did = did]

PosterStarts ==
    /\ startup.pc = "begin" /\ startup.who = "poster"
    /\ LET e == LoadDotenv("poster")
       IN IF PosterEnvAccepted(e) THEN Configured(PosterConfig(e), [subcommand |-> "serve"]) ELSE ExitWith(2)

\* The store is opened, then the RPC's chain, the core's code and the schema are looked at.
PosterReconciles ==
    /\ startup.pc = "configured" /\ startup.who = "poster"
    /\ LET world == startup.world
       IN IF ~StoreOpens \/ world.chain = 0 THEN ExitWith(1)
          ELSE IF \/ world.chain # startup.config.chainId \/ ~world.deployed
                  \/ startup.config.dbUrl # "in process" /\ world.db = "other schema" THEN ExitWith(3)
          ELSE IF world.portTaken THEN ExitWith(1)
          ELSE Does("serving", <<"serve">>)

ReaderStarts ==
    /\ startup.pc = "begin" /\ startup.who = "reader"
    /\ LET e == LoadDotenv("reader")
           command == ParseArgs(startup.argv)
       IN IF {"--help", "-h"} \cap ToSet(startup.argv) # {} THEN ExitWith(0)
          ELSE IF command = Refused THEN ExitWith(4)
          ELSE IF ~ReaderEnvAccepted(e) THEN ExitWith(2)
          ELSE IF command.subcommand = "reset" /\ ~command.confirmed THEN ExitWith(4)
          ELSE Configured(ReaderConfig(e), command)

\* In one transaction, and without the RPC.
ReaderResets ==
    /\ startup.pc = "configured" /\ startup.who = "reader" /\ startup.command.subcommand = "reset"
    /\ IF ~StoreOpens THEN ExitWith(1)
       ELSE LET tables == IF startup.command.scope = "all" THEN <<"cursor", "batches", "messages">> ELSE <<"cursor">>
            IN \/ startup' = [startup EXCEPT !.pc = "over", !.did = <<"reset">> \o tables]
               \/ ExitWith(1)

CreateReader ==
    /\ startup.pc = "configured" /\ startup.who = "reader" /\ startup.command.subcommand # "reset"
    /\ LET world == startup.world
       IN IF world.chain = 0 THEN ExitWith(1)
          ELSE IF world.chain # startup.config.chainId THEN ExitWith(3)
          ELSE IF ~StoreOpens THEN ExitWith(1)
          ELSE startup' = [startup EXCEPT !.pc = "created"]

SafeHead == Max({0, startup.world.head - startup.config.window})

DeployRange ==
    LET from == DeployBlock[startup.config.chainId]
        to == IF startup.command.to = Unset THEN SafeHead ELSE Finite[startup.command.to]
    IN  IF startup.config.chainId \in DOMAIN DeployBlock /\ from <= to THEN <<from, to>> ELSE <<>>

CatchupRange ==
    IF startup.world.cursor = -1 THEN <<>> ELSE <<startup.world.cursor + 1, SafeHead>>

\* The blocks to backfill, <<>> when there are none to name.
ResolveBackfillRange ==
    CASE startup.command.marker = "block" -> <<Finite[startup.command.from], Finite[startup.command.to]>>
      [] startup.command.marker = "deploy" -> DeployRange
      [] startup.command.marker = "catchup" -> CatchupRange

ReaderBackfills ==
    /\ startup.pc = "created" /\ startup.command.subcommand = "backfill"
    /\ IF ResolveBackfillRange = <<>> THEN ExitWith(4)
       ELSE Does("filling", <<"backfill">> \o ResolveBackfillRange)

\* The cursor's row, the head or the range itself may fail.
ReaderBackfilled ==
    \/ startup.pc = "created" /\ startup.command.subcommand = "backfill" /\ ExitWith(1)
    \/ startup.pc = "filling" /\ \E code \in {0, 1} : ExitWith(code)

ReaderServes ==
    /\ startup.pc = "created" /\ startup.command.subcommand = "serve"
    /\ IF startup.world.portTaken THEN ExitWith(1) ELSE Does("serving", <<"serve">>)

IndexerStarts ==
    /\ startup.pc = "begin" /\ startup.who = "indexer"
    /\ LET e == LoadDotenv("indexer")
           command == IndexerArgs(startup.argv)
       IN IF command = Refused THEN ExitWith(4)
          ELSE IF ~IndexerEnvAccepted(e) THEN ExitWith(2)
          ELSE Configured(IndexerConfig(e), command)

\* Migrates and listens, to reset as well as to serve.
CreateIndexer ==
    /\ startup.pc = "configured" /\ startup.who = "indexer"
    /\ IF ~StoreOpens \/ startup.world.portTaken THEN ExitWith(1)
       ELSE IF startup.command.subcommand = "serve" THEN Does("serving", <<"serve">>)
       ELSE IF startup.command.handler # "twitter" THEN ExitWith(4)
       ELSE \/ startup' = [startup EXCEPT !.pc = "over", !.did = <<"reset", startup.command.scope>>]
            \/ ExitWith(1)

\* A signal; or, for the Poster and the Reader, a step of the shutdown fails.
Shutdown ==
    /\ startup.pc = "serving"
    /\ \/ ExitWith(0)
       \/ startup.who # "indexer" /\ ExitWith(1)

StartupNext ==
    \/ PosterStarts
    \/ PosterReconciles
    \/ ReaderStarts
    \/ ReaderResets
    \/ CreateReader
    \/ ReaderBackfills
    \/ ReaderBackfilled
    \/ ReaderServes
    \/ IndexerStarts
    \/ CreateIndexer
    \/ Shutdown

StartupSpec == StartupInit /\ [][StartupNext]_startup

-----------------------------------------------------------------------------
(***************************************************************************)
(* Properties.                                                             *)
(***************************************************************************)
\* A process that works has the configuration the models of the services take for granted.  It is
\* on the chain its RPC is on, with a reorg window and a log chunk within their bounds.  Started
\* from one directory and environment, the Reader is on the Poster's chain, and on the Poster's
\* database unless READER_DB_URL says otherwise.  A range the Reader works out by itself begins at
\* the block after the cursor, or at the deploy block, and ends behind the reorg window: what
\* CarefulOperator asks of the operator in module Reader.  Rows are deleted by a command that
\* says --yes, and only in the tables it names; an exit code of 2, 3 or 4 is that of a process
\* that did nothing.
StartsAsMeant ==
    startup.pc # "none" =>
        LET config == startup.config
            did == startup.did
            works == did # <<>>
            poster == LoadDotenv("poster")
            sameFiles == startup.named.poster = startup.named.reader
        IN  /\ works /\ startup.who # "indexer" =>
                 config.window \in MinReorgWindow .. MaxReorgWindow
            /\ works /\ startup.who = "reader" => config.chunk \in MinLogChunk .. MaxLogChunk
            /\ works /\ startup.who # "indexer" /\ did[1] # "reset" =>
                 config.chainId = startup.world.chain
            /\ works /\ startup.who = "reader" /\ sameFiles /\ PosterEnvAccepted(poster) =>
                 /\ config.chainId = PosterConfig(poster).chainId
                 /\ ~Given(LoadDotenv("reader").READER_DB_URL) =>
                        LET urls == {config.dbUrl, PosterConfig(poster).dbUrl}
                        IN  urls \cap PostgresUrls # {} => Cardinality(urls) = 1
            /\ works /\ did[1] = "backfill" /\ "--to" \notin ToSet(startup.argv) =>
                 /\ did[3] <= Max({0, startup.world.head - config.window})
                 /\ did[2] \in {startup.world.cursor + 1, DeployBlock[config.chainId]}
            /\ works /\ did[1] = "reset" =>
                 /\ "--yes" \in ToSet(startup.argv)
                 /\ startup.who = "reader" =>
                        (Len(did) > 2 <=> "--all" \in ToSet(startup.argv)) /\ "cursor" \in ToSet(did)
            /\ startup.pc = "over" /\ startup.code \in {2, 3, 4} => ~works
            /\ startup.pc = "over" /\ startup.code = 0 =>
                 works \/ {"--help", "-h"} \cap ToSet(startup.argv) # {}
=============================================================================
