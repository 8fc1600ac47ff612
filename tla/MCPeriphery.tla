---------------------------- MODULE MCPeriphery ----------------------------
(***************************************************************************)
(* The parts around the store, for TLC: each initial state is a scene in   *)
(* which one of them is at work and the others stand still.                *)
(***************************************************************************)
EXTENDS Exposure, Coprocessor, Explorer, Retrieval, OnChainCode, Intake, Clients,
        Threads, Timeline, Startup

CONSTANTS a, b, k, m1, m2, c1, c2, x, y, b1, b2, b3, h1, h2, ra, rb, rc

VARIABLE scene

servicesVars == <<coprocessorVars, apiVars, retrievalVars>>
codeVars == <<codecVars, onChainVars>>
pageVars == <<visit, explorer>>
edgeVars == <<clientVars, thread, timeline, startup, pageVars>>
peripheryVars == <<scene, chainVars, servicesVars, codeVars, intakeVars, edgeVars>>

-----------------------------------------------------------------------------
(* Contracts: a delegate key, and an owner's own address, may consent.     *)
MCConsents == {<<k, a>>, <<b, a>>, <<a, b>>}
MCSchemeId == [r \in RegistryContracts |-> IF r = "r2" THEN 1 ELSE 2]
MCSender == [m \in Messages |-> IF m = m1 THEN a ELSE b]
MCContent == [m \in Messages |-> IF m = m1 THEN c1 ELSE c2]

(* Coprocessor: two batches carry the same message.                        *)
MCCarries == [d \in L1Batches |-> IF d = b2 THEN h2 ELSE h1]
MCBatchLimit == [j \in Jobs |-> IF j = "proof" THEN 2 ELSE 1]

(* Requests: any of a server's routes with up to two parameters that are   *)
(* not the ones that suit it.                                              *)
MCStored ==
    LET Message(tag, status, sender, seq, block) ==
            [tag |-> tag, status |-> status, sender |-> sender, seq |-> seq, block |-> block,
             tx |-> 0, index |-> seq, batchRef |-> 7]
        Batch(tag, tx, block, at) ==
            [tag |-> tag, status |-> "confirmed", txHash |-> tx, block |-> block, tx |-> 0,
             submittedAt |-> tx, includedAt |-> at]
        Post(version, hash, sender, parent, block) ==
            [version |-> version, hash |-> hash, sender |-> sender, parent |-> parent,
             timestamp |-> 10 - block, coord |-> <<block, 0, 0>>]
    IN  [maxMessageSize |-> 4,
         messages |-> {Message(1, "confirmed", 1, 2, 5), Message(1, "pending", 1, 1, Absent),
                       Message(1, "confirmed", 2, 4, 3), Message(2, "confirmed", 1, 3, 4)},
         batches |-> {Batch(1, 7, 3, 9), Batch(2, 7, 3, 9), Batch(1, 8, 5, Absent), Batch(1, 9, Absent, Absent)},
         blobs |-> {7}, head |-> 9, cursor |-> 5,
         generations |-> {[id |-> 1, current |-> FALSE], [id |-> 2, current |-> TRUE]},
         posts |-> {Post(1, 7, 1, Absent, 3), Post(2, 7, 1, Absent, 3), Post(2, 8, 2, 7, 4),
                    Post(2, 9, 1, 7, 5), Post(2, 6, 2, Absent, 6)},
         validations |-> {},
         proofs |-> {[at |-> 1, hash |-> 7, blob |-> 7], [at |-> 1, hash |-> 8, blob |-> 7]}]

MCPaths(server) ==
    CASE server = "poster" -> {r[2] : r \in PosterRoutes} \cup {"/x"}
      [] server = "reader" -> ReaderRoutes \cup {"/x"}
      [] server = "indexer" -> IndexerRoutes \cup {"/x"}
      [] server = "coprocessor" -> CoprocessorRoutes \cup {"/x"}
MCParameters ==
    [method |-> {"POST", "OPTIONS"}, token |-> {Absent, Bad}, tag |-> {Absent, Bad, 2}, limit |-> {Absent, Bad, Huge, 0, 1, 201},
     since |-> {Bad, Huge, 4}, status |-> {Bad, "confirmed"}, batchRef |-> {Bad, 7}, sender |-> {Bad, 2},
     param |-> {Absent, Bad, 5}, version |-> {Bad, 1}, cursor |-> {Bad, [at |-> 1, hash |-> 8]},
     events |-> {<<5>>, <<1, -2>>, <<2, -3>>}, result |-> {"rate_limited", "internal_error"}]
MCSuiting(server, path) ==
    [server |-> server, path |-> path,
     method |-> IF path \in {"/submit", "/flush"} THEN "POST" ELSE "GET",
     token |-> AuthToken, tag |-> 1, limit |-> 3, since |-> Absent, status |-> Absent, batchRef |-> Absent,
     sender |-> Absent, param |-> 7, version |-> Absent, cursor |-> Absent, events |-> <<3, -1>>,
     result |-> "accepted"]
MCVaried(path) ==
    LET read == ReadBy([path |-> path])
    IN  (IF path = "/submit" THEN {"events", "result"} ELSE IF path = "/flush" THEN {"tag"} ELSE read)
            \cup {"method", "token"}
MCRequestsTo(server, path) ==
    UNION {{[[MCSuiting(server, path) EXCEPT ![f] = v] EXCEPT ![g] = w] :
              v \in MCParameters[f], w \in MCParameters[g]} : f \in MCVaried(path), g \in MCVaried(path)}
MCRequests ==
    UNION {UNION {MCRequestsTo(server, path) : path \in MCPaths(server)} :
              server \in {"poster", "reader", "indexer", "coprocessor"}}

(* Scan: up to three calls in at most two transactions, each in a block.   *)
MCTxs(n) == {f \in [1 .. n -> 1 .. 2] : \A i \in 1 .. n - 1 : f[i] <= f[i + 1]}
MCBlocks == {<<1, 1>>, <<1, 4>>, <<2, 3>>, <<3, 4>>}
MCCallsOf(n) ==
    {[i \in 1 .. n |-> [kind |-> kind[i], tag |-> tag[i], range |-> i, tx |-> tx[i], block |-> block[tx[i]]]] :
        kind \in [1 .. n -> {"register", "declare"}], tag \in [1 .. n -> {"t1", "t2"}],
        tx \in MCTxs(n), block \in MCBlocks}
MCCalls == UNION {MCCallsOf(n) : n \in 1 .. 3}
MCWindows == <<1, 3, 6>>

(* Batches of one or two short messages.                                   *)
MCMessages ==
    {[sender |-> 1, nonce |-> n, contents |-> c, signature |-> 5] : n \in {0, 9}, c \in {<<>>, <<0, 1>>}}
MCBatches == UNION {[1 .. n -> MCMessages] : n \in 1 .. 2}

(* Texts of contents, one too long for its length field.                  *)
MCTexts == {<<>>, <<3>>, <<14, 3>>, <<3, 14, 14>>, [i \in 1 .. 16 |-> 3]}

(* Dictionaries: of nothing, of zeros, of a corpus that uses every byte.   *)
MCData == UNION {[1 .. n -> {0, 1}] : n \in 0 .. 4}
MCPaged(c) == [sender |-> 1, nonce |-> 2, contents |-> c]
MCPages == {<<MCPaged(c)>> : c \in MCData}
              \cup {<<MCPaged(c), MCPaged(<<1, 0>>)>> : c \in {<<>>, <<1, 1, 0>>}} \cup {<<>>}
MCCorpora ==
    {<<>>, <<0, 0, 0, 0>>, <<0, 1, 0, 1, 0>>, <<1, 0, 0, 0, 0, 1, 1, 1>>,
     <<0, 1, 2, 3, 4, 5, 6, 7, 8, 9, 10, 11, 12, 13, 14, 15, 0, 2, 4, 6, 8, 10, 0, 1>>}
MCExposable(c) == [sender |-> 1, timestamp |-> 3, nonce |-> 2, contents |-> c]
MCExposed ==
    {<<MCExposable(c)>> : c \in {<<>>, <<1>>, <<1, 2>>, <<1, 2, 3>>}}
        \cup {<<MCExposable(c), MCExposable(d)>> : c \in {<<>>, <<5>>, <<6, 7>>}, d \in {<<8>>, <<9, 9>>}}

MCIncoming == {<<1, 0>>, <<1, 5>>, <<2, 5>>, <<2, 20>>, <<3, 0>>}

(* Discussions: any parents, the missing one among them.                   *)
MCStages == {[i \in 1 .. 4 |-> "confirmed"], [i \in 1 .. 4 |-> IF i = 2 THEN "pending" ELSE "both"],
             [i \in 1 .. 4 |-> IF i = 1 THEN "pending" ELSE IF i = 3 THEN "unlinked" ELSE "confirmed"]}
MCCommentRows ==
    {{[id |-> i, kind |-> IF parent[i] = 5 /\ i = 4 THEN "garbage" ELSE "comment", parent |-> parent[i],
       time |-> IF i = 1 THEN 2 ELSE i \div 2, by |-> 1, stage |-> stage[i]] : i \in 1 .. 4} :
        parent \in [1 .. 4 -> 0 .. 5], stage \in MCStages}
MCForumRow(i) ==
    {[id |-> i, kind |-> what[1], parent |-> what[2], time |-> i \div 2, by |-> by, stage |-> stage] :
        what \in {<<"post", 0>>, <<"reply", 1>>, <<"reply", 2>>, <<"like", 1>>},
        by \in {1, 2}, stage \in {"pending", "confirmed", "both"}}
MCForumRows ==
    {{[id |-> 1, kind |-> "post", parent |-> 0, time |-> 1, by |-> 2, stage |-> stage], r, s} :
        stage \in {"pending", "unlinked"}, r \in MCForumRow(2), s \in MCForumRow(3)}
MCBadged ==
    LET progress == <<"proven", "validated", "confirmed">>
    IN {[progress |-> progress, windows |-> [validations |-> v, proofs |-> p]] :
            v \in {{}, {1, 2}}, p \in {{}, {1}}}

(* Tweets: a blob in two segments, one that holds a forged message, one    *)
(* that does not decode.                                                   *)
MCTweet(author, nonce, text, signed, tweet) ==
    [author |-> author, nonce |-> nonce, text |-> text, signed |-> signed, tweet |-> tweet]
MCSegments ==
    (<<1, 1>> :> <<MCTweet(1, 0, 1, TRUE, TRUE)>>) @@
    (<<1, 2>> :> <<MCTweet(2, 0, 1, TRUE, TRUE), MCTweet(1, 0, 2, TRUE, TRUE)>>) @@
    (<<2, 1>> :> <<MCTweet(2, 0, 3, FALSE, TRUE), MCTweet(1, 1, 1, TRUE, FALSE), MCTweet(3, 0, 1, TRUE, TRUE)>>) @@
    (<<2, 2>> :> Undecodable)
MCCall(tag, hash, range) == [tag |-> tag, hash |-> hash, range |-> range]
MCTransactions ==
    {<<MCCall("t1", 1, 1)>>, <<MCCall("t1", 1, 2)>>, <<MCCall("t1", 2, 1)>>, <<MCCall("t2", 1, 2), MCCall("t1", 2, 2)>>,
     <<MCCall("t1", 1, 1), MCCall("t1", 1, 2)>>, <<MCCall("t2", 1, 1), MCCall("t1", 1, 2)>>}

(* Starting: an environment that suits, with up to two variables that do   *)
(* not, some of them in a dotenv file; and command lines.                  *)
MCFinite ==
    ("" :> 0) @@ ("0" :> 0) @@ ("1" :> 1) @@ ("2" :> 2) @@ ("3" :> 3) @@ ("4.5" :> 4) @@ ("6" :> 6) @@ ("-1" :> -1) @@
    ("9" :> 9) @@ ("5" :> 5) @@ ("2000" :> 8) @@ ("5000" :> 5) @@ ("8787" :> 5) @@ ("8788" :> 5) @@ ("10000" :> 5)
MCWhole == DOMAIN MCFinite \ {"4.5"}
MCEnv ==
    [POSTER_ALLOWED_TAGS |-> "tags", POSTER_CHAIN_ID |-> "1", POSTER_BAM_CORE_ADDRESS |-> "address",
     POSTER_SIGNATURE_REGISTRY |-> Unset, POSTER_BATCH_ENCODING |-> Unset, POSTER_RPC_URL |-> "url",
     POSTER_SIGNER_PRIVATE_KEY |-> "bytes32", POSTER_REORG_WINDOW_BLOCKS |-> Unset, POSTER_PORT |-> Unset,
     POSTER_PACKING_LOSS_STREAK_WARN_THRESHOLD |-> Unset, POSTGRES_URL |-> Unset,
     READER_CHAIN_ID |-> "1", READER_RPC_URL |-> "url", READER_BAM_CORE |-> "address", READER_CONTENT_TAGS |-> Unset,
     READER_REORG_WINDOW_BLOCKS |-> Unset, READER_DB_URL |-> Unset, READER_HTTP_PORT |-> Unset,
     READER_ETH_CALL_GAS_CAP |-> Unset, READER_ETH_CALL_TIMEOUT_MS |-> Unset, READER_START_BLOCK |-> Unset,
     READER_LOG_SCAN_CHUNK_BLOCKS |-> Unset, READER_BACKFILL_PROGRESS_INTERVAL_MS |-> Unset,
     READER_BACKFILL_PROGRESS_EVERY_CHUNKS |-> Unset,
     INDEXER_CHAIN_ID |-> "1", INDEXER_DB_URL |-> "postgres", INDEXER_WRITE_DB_URL |-> Unset, INDEXER_POLL_MS |-> Unset,
     INDEXER_BATCH_SIZE |-> Unset, INDEXER_HTTP_PORT |-> Unset, INDEXER_TWITTER_TAG |-> "bytes32"]
MCDeployBlock == 1 :> 3
MCWorld == [chain |-> 1, deployed |-> TRUE, db |-> "up", portTaken |-> FALSE, head |-> 9, cursor |-> 4]
MCWorlds ==
    {MCWorld} \cup [chain : {0, 2}, deployed : BOOLEAN, db : {"up", "down", "other schema"}, portTaken : BOOLEAN,
                    head : {2}, cursor : {-1}]
MCStart(who, argv, env, file, world) ==
    [who |-> who, argv |-> argv, env |-> env, dirs |-> <<[local |-> {}, plain |-> {}], [local |-> file, plain |-> {}]>>,
     named |-> [w \in {"poster", "reader", "indexer"} |-> [given |-> FALSE, file |-> {}]], world |-> world]
MCArgs ==
    {<<"serve">>, <<"serve", "1">>, <<"backfill">>, <<"backfill", "--catchup">>, <<"backfill", "--from", "deploy">>,
     <<"backfill", "--from", "deploy", "--to", "9">>, <<"backfill", "--from", "deploy", "--to", "1">>,
     <<"backfill", "--from", "2", "--to", "6">>, <<"backfill", "--from", "6", "--to", "2">>, <<"backfill", "--to">>,
     <<"backfill", "--catchup", "--to", "6">>, <<"reset", "--all", "--yes">>, <<"reset", "--cursor", "--yes">>,
     <<"reset", "--all">>, <<"reset", "--all", "--cursor", "--yes">>, <<"reset", "--help">>, <<>>,
     <<"reset", "--handler", "twitter", "--yes">>, <<"reset", "--handler", "other", "--yes">>,
     <<"reset", "--handler", "twitter", "--version", "uuid", "--yes">>, <<"reset", "--handler", "--yes">>,
     <<"reset", "--handler", "twitter", "--current", "--version", "uuid", "--yes">>,
     <<"reset", "--handler", "twitter", "--current", "--yes">>}
MCTold(texts) == {[MCEnv EXCEPT ![key] = text] : key \in DOMAIN MCEnv, text \in texts}
MCSplit == {"POSTER_CHAIN_ID", "POSTGRES_URL", "READER_CHAIN_ID", "READER_DB_URL", "READER_REORG_WINDOW_BLOCKS"}
MCSplits ==
    {[MCEnv EXCEPT ![key] = v, ![other] = w] :
        key \in MCSplit, other \in MCSplit, v \in {Unset, "", "1", "2", "postgres"}, w \in {"", "2", "4.5", "memory:", "postgres"}}
MCFiles ==
    {{}, {[POSTER_CHAIN_ID |-> "2", POSTGRES_URL |-> "postgres"]},
     {[READER_CHAIN_ID |-> "1", READER_REORG_WINDOW_BLOCKS |-> "9", POSTGRES_URL |-> "postgres"]}}
MCStartups ==
    {MCStart(who, <<"serve">>, env, {}, MCWorld) :
        who \in {"poster", "reader", "indexer"}, env \in MCTold({Unset, "", "0", "1", "4.5", "9", "abi", "other"})}
    \cup {MCStart(who, <<"serve">>, env, file, MCWorld) : who \in {"poster", "reader"}, env \in MCSplits, file \in MCFiles}
    \cup {MCStart(who, argv, [MCEnv EXCEPT !.READER_CHAIN_ID = chain, !.POSTER_CHAIN_ID = chain], {}, world) :
              who \in {"reader", "indexer"}, argv \in MCArgs, chain \in {"1", "2"}, world \in MCWorlds}
    \cup {MCStart("poster", <<>>, MCEnv, file, world) : file \in MCFiles, world \in MCWorlds}
    \cup {[MCStart(who, <<"serve">>, [MCEnv EXCEPT !.POSTER_CHAIN_ID = Unset], file, MCWorld)
              EXCEPT !.named.reader = [given |-> TRUE, file |-> {}]] : who \in {"poster", "reader"}, file \in MCFiles}

(* Pages: any replies of the paths a route asks, and one service that is   *)
(* not configured; settings of two tabs, one of them stored before.        *)
MCRow(hash, author, parent, time, text) ==
    [hash |-> hash, author |-> author, parent |-> parent, time |-> time, content |-> text, index |-> 5 - hash,
     decodes |-> time # 2, batchRef |-> IF time = 3 THEN Absent ELSE 7, block |-> hash]
MCRows(path) ==
    CASE path \in {"/messages", "/posts"} ->
            <<MCRow(1, 1, Absent, 1, "a"), MCRow(2, 2, 1, 4, "b"), MCRow(3, 1, 1, 2, "c"), MCRow(4, 1, 1, 0, "e"), MCRow(5, 3, 1, 3, "d")>>
      [] path \in {"/batches", "/batches/"} -> <<MCRow(1, 1, Absent, 1, Absent), MCRow(2, 4, Absent, 1, Absent)>>
      [] OTHER -> <<MCRow(1, 1, Absent, 1, "a")>>
MCReplies(path) ==
    {Down, [status |-> 200, body |-> MCRows(path)], [status |-> 200, body |-> Bare], [status |-> 200, body |-> Garbled],
     [status |-> 404, body |-> Bare], [status |-> 503, body |-> Bare], [status |-> 500, body |-> Garbled]}
MCAppRoutes ==
    {<<"twitter", route>> : route \in {"/pending", "/messages", "/next-nonce", "/flush", "/confirmed-messages", "/thread/"}}
    \cup {<<"blobble", route>> : route \in {"/pending", "/messages", "/next-nonce", "/flush", "/health", "/status",
               "/submitted-batches", "/confirmed-messages", "/blobbles", "/blobbles/"}}
    \cup {<<"forum", route>> : route \in {"/messages", "/next-nonce", "/proof/", "/proof/download"}}
MCAppTag == [app \in {"twitter", "blobble", "forum"} |-> app]
MCSilence == [path \in {"/posts", "/posts/hash/", "/replies", "/messages"} |-> Down]
MCSays(paths) == {f @@ MCSilence : f \in {g \in [paths -> UNION {MCReplies(p) : p \in paths}] : \A p \in paths : g[p] \in MCReplies(p)}}
MCVisitOf(app, route) ==
    LET blank == [app |-> app, route |-> route, param |-> 1, body |-> Bare, unset |-> {}, says |-> MCSilence]
        paths == {q[2] : q \in AskedBy(blank)}
    IN {[blank EXCEPT !.param = param, !.body = body, !.unset = unset, !.says = says] :
            param \in IF route \in {"/next-nonce", "/thread/", "/proof/", "/proof/download"} THEN {1, 9, Bad} ELSE {1},
            body \in IF route = "/messages" THEN {Bad, Bare, [tag |-> Absent, message |-> m1], [tag |-> "other", message |-> m1]} ELSE {Bare},
            unset \in {{}, {"poster"}, {"indexer"}, {"reader"}, {"coprocessor"}},
            says \in MCSays(paths)}
MCVisits == UNION {MCVisitOf(r[1], r[2]) : r \in MCAppRoutes}

MCDefaults == [readerUrl |-> "", posterUrl |-> "u1", contentTags |-> {"g"}, limit |-> 50]
MCParsedAs ==
    [readerUrl |-> [text \in {"", "u1", "u2"} |-> text], posterUrl |-> [text \in {"", "u1", "u2"} |-> text],
     contentTags |-> ("" :> {}) @@ ("g" :> {"g"}) @@ ("g,h" :> {"g", "h"}) @@ ("x" :> {}),
     limit |-> ("" :> 50) @@ ("0" :> 50) @@ ("7" :> 7)]
MCForms ==
    {[readerUrl |-> r, posterUrl |-> p, contentTags |-> g] : r \in {"", "u1", "u2"}, p \in {"u1"}, g \in {"", "g,h"}}
MCForeign ==
    {Garbled, <<>>, [readerUrl |-> "", limit |-> "7", colour |-> "red"], [readerUrl |-> "u2", limit |-> Bad, contentTags |-> "x"]}
MCUrlSays ==
    LET ok == [status |-> 200] IN
    [url \in {"", "u1", "u2"} |->
        [any |-> ok, g |-> IF url = "u2" THEN [status |-> 500] ELSE ok, h |-> IF url = "u2" THEN Down ELSE [status |-> 200]]]

MCText == [r \in Runs |-> IF r = rc THEN 2 ELSE 1]

-----------------------------------------------------------------------------
NoFetch ==
    /\ archive = "none"
    /\ fetch = [say |-> <<"off", "off", "off">>, archived |-> FALSE,
                got |-> [result |-> "null", from |-> 3, allLied |-> FALSE]]

NoRetrieval == NoScan /\ NoFetch /\ NoSearch
NoCode == NoWire /\ NoCheck /\ NoPage /\ NoExposure
NoIntake == NoPlanner /\ NoLimiter
NoPages == NoVisit /\ NoExplorer
NoClients == NoWallet /\ NoFeed /\ NoWidget /\ NoThread /\ NoTimeline /\ NoStartup /\ NoPages

Init ==
    /\ RegistriesInit /\ ExposureInit /\ CoprocessorInit /\ ReadApiInit
    /\ \/ /\ scene \in {"registries", "exposures", "disputes", "stakes", "dictionaries", "coprocessor", "paging", "requests"}
          /\ NoRetrieval /\ NoCode /\ NoIntake /\ NoClients
       \/ /\ NoCode /\ NoIntake /\ NoClients
          /\ \/ scene = "scan" /\ ScanInit /\ NoFetch /\ NoSearch
             \/ scene = "fetch" /\ NoScan /\ FetchInit /\ NoSearch
             \/ scene = "search" /\ NoScan /\ NoFetch /\ SearchInit
       \/ /\ scene = "codec" /\ NoRetrieval /\ NoPage /\ NoExposure /\ NoIntake /\ NoClients
          /\ \/ (WireInit \/ FrameInit \/ ContentsInit) /\ NoCheck
             \/ NoWire /\ CheckInit
       \/ /\ scene = "on chain" /\ NoRetrieval /\ NoWire /\ NoCheck /\ NoIntake /\ NoClients
          /\ \/ PageInit /\ NoExposure
             \/ NoPage /\ ExposureBatchInit
       \/ /\ scene = "intake" /\ NoRetrieval /\ NoCode /\ NoClients
          /\ \/ PlannerInit /\ NoLimiter
             \/ NoPlanner /\ LimiterInit
       \/ /\ scene = "clients" /\ NoRetrieval /\ NoCode /\ NoIntake
          /\ \/ WalletInit /\ NoFeed /\ NoWidget
             \/ NoWallet /\ FeedInit /\ NoWidget
             \/ NoWallet /\ NoFeed /\ WidgetInit
          /\ NoThread /\ NoTimeline /\ NoStartup /\ NoPages
       \/ /\ scene \in {"threads", "timeline", "startup"} /\ NoRetrieval /\ NoCode /\ NoIntake
          /\ NoWallet /\ NoFeed /\ NoWidget /\ NoPages
          /\ \/ scene = "threads" /\ ThreadsInit /\ NoTimeline /\ NoStartup
             \/ scene = "timeline" /\ NoThread /\ TimelineInit /\ NoStartup
             \/ scene = "startup" /\ NoThread /\ NoTimeline /\ StartupInit
       \/ /\ scene \in {"pages", "explorer"} /\ NoRetrieval /\ NoCode /\ NoIntake
          /\ NoWallet /\ NoFeed /\ NoWidget /\ NoThread /\ NoTimeline /\ NoStartup /\ NoVisit
          /\ \/ scene = "pages" /\ NoExplorer
             \/ scene = "explorer" /\ ExplorerInit

ContractsNext ==
    /\ \/ scene = "registries" /\ RegistriesNext /\ UNCHANGED exposureVars
       \/ scene = "exposures" /\ ExposeNext
       \/ scene = "disputes" /\ DisputeNext
       \/ scene = "stakes" /\ StakeNext
       \/ scene = "dictionaries" /\ DictionaryNext
    /\ UNCHANGED <<servicesVars, codeVars, intakeVars, edgeVars>>

ServicesNext ==
    /\ \/ scene = "coprocessor" /\ CoprocessorNext /\ UNCHANGED <<apiVars, retrievalVars>>
       \/ scene = "paging" /\ PagingNext /\ UNCHANGED <<coprocessorVars, retrievalVars>>
       \/ scene = "requests" /\ AskNext /\ UNCHANGED <<coprocessorVars, retrievalVars>>
       \/ scene = "scan" /\ Scan /\ UNCHANGED <<coprocessorVars, apiVars>>
       \/ scene = "fetch" /\ Fetch /\ UNCHANGED <<coprocessorVars, apiVars>>
       \/ scene = "search" /\ FindSlotForExecBlock /\ UNCHANGED <<coprocessorVars, apiVars>>
    /\ UNCHANGED <<chainVars, codeVars, intakeVars, edgeVars>>

CodeNext ==
    /\ \/ scene = "codec" /\ CodecNext /\ UNCHANGED onChainVars
       \/ scene = "on chain" /\ OnChainNext
    /\ UNCHANGED <<chainVars, servicesVars, intakeVars, edgeVars>>

EdgesNext ==
    /\ \/ scene = "intake" /\ IntakeNext /\ UNCHANGED edgeVars
       \/ scene = "clients" /\ ClientsNext /\ UNCHANGED <<intakeVars, thread, timeline, startup, pageVars>>
       \/ scene = "threads" /\ ThreadsNext /\ UNCHANGED <<intakeVars, clientVars, timeline, startup, pageVars>>
       \/ scene = "timeline" /\ TimelineNext /\ UNCHANGED <<intakeVars, clientVars, thread, startup, pageVars>>
       \/ scene = "startup" /\ StartupNext /\ UNCHANGED <<intakeVars, clientVars, thread, timeline, pageVars>>
       \/ scene = "pages" /\ ProxiesNext /\ UNCHANGED <<intakeVars, clientVars, thread, timeline, startup, explorer>>
       \/ scene = "explorer" /\ ExplorerNext /\ UNCHANGED <<intakeVars, clientVars, thread, timeline, startup, visit>>
    /\ UNCHANGED <<chainVars, servicesVars, codeVars>>

Next == UNCHANGED scene /\ (ContractsNext \/ ServicesNext \/ CodeNext \/ EdgesNext)

Spec == Init /\ [][Next]_peripheryVars
=============================================================================
