------------------------------ MODULE ReadApi ------------------------------
(***************************************************************************)
(* The HTTP interfaces of the Poster, the Reader, the Indexer and the      *)
(* coprocessor: which requests they answer, with what status, and which    *)
(* rows.  A query parameter is Absent, Bad (it does not have the form the  *)
(* route asks for), Huge (digits beyond any column's range) or a value.    *)
(*                                                                         *)
(* One request at a time is answered from the rows of Stored; and a client *)
(* fetches the coprocessor's list of proofs page by page while the proof   *)
(* job inserts rows.                                                       *)
(***************************************************************************)
EXTENDS Naturals, Sequences, FiniteSets, SequencesExt

CONSTANTS
    Absent, Bad, Huge,  \* what a parameter may be, other than a value
    AuthToken,          \* the Poster's bearer token, or Absent when it has none
    Requests,           \* requests clients send
    Stored,             \* rows behind the routes: messages, batches, blobs, posts, generations, proofs, ...
    ProofHashes,        \* message hashes that may be proven, as numbers
    ProofPage,          \* ?limit= of the client (1 to 200)
    MaxAt               \* bound: timestamps of proofs

ASSUME ReadApiAssumption ==
    /\ ProofHashes \subseteq Nat /\ IsFiniteSet(ProofHashes)
    /\ ProofPage \in 1 .. 200 /\ MaxAt \in Nat
    /\ Absent \notin {Bad, Huge} /\ \A v \in {Absent, Bad, Huge} : v \notin Nat \cup [at : Nat, hash : ProofHashes]

\* Columns hold numbers, or null where a row is not on chain; a parameter that is Bad names nothing.
ASSUME StoredAssumption ==
    /\ \A table \in {"messages", "batches", "posts", "validations", "proofs"} : IsFiniteSet(Stored[table])
    /\ \A r \in Stored.messages : r.seq \in Nat /\ (r.block # Absent => {r.block, r.tx, r.index} \subseteq Nat)
    /\ \A r \in Stored.batches : r.submittedAt \in Nat /\ (r.block # Absent => {r.block, r.tx} \subseteq Nat)
    /\ \A r \in Stored.posts : r.timestamp \in Nat /\ r.coord \in [1 .. 3 -> Nat]
    /\ \A r \in Stored.validations \cup Stored.proofs : r.at \in Nat /\ r.hash \in Nat
    /\ \A g \in Stored.generations : g.id \notin {Absent, Bad}
ASSUME RequestsAssumption ==
    /\ \A req \in Requests : /\ req.server \in {"poster", "reader", "indexer", "coprocessor"}
                             /\ req.limit \in Nat \cup {Absent, Bad, Huge}
    /\ Bad \notin {"pending", "submitted", "pending_tx", "confirmed", "reorged"}

VARIABLES
    asked,      \* the request that was answered, or Absent
    answer,     \* its status and rows
    proofRows,  \* coprocessor.proofs: set of [at, hash]
    cursor,     \* next_cursor the client holds: a row, or Absent before its first page
    got,        \* rows the client was given, in order
    before,     \* history: rows that were there at its first page
    paging      \* "no", "on" or "done"

requestVars == <<asked, answer>>
apiVars == <<requestVars, proofRows, cursor, got, before, paging>>

Status(code) == [status |-> code, rows |-> <<>>]
Serve(rows) == [status |-> 200, rows |-> rows]

\* The status of the first check that fires.  A check is a condition and a status.
FirstOf(checks) ==
    checks[CHOOSE i \in DOMAIN checks :
             checks[i][1] /\ \A j \in 1 .. i - 1 : ~checks[j][1]][2]

\* ORDER BY: each member of s behind those that precede it; the others keep their order.
Arranged(s, precedes) ==
    LET ahead(i) == {j \in DOMAIN s : \/ <<s[j], s[i]>> \in precedes
                                      \/ j < i /\ <<s[i], s[j]>> \notin precedes}
    IN  [n \in DOMAIN s |-> s[CHOOSE i \in DOMAIN s : Cardinality(ahead(i)) = n - 1]]

\* SELECT ... WHERE ... ORDER BY ... LIMIT.
Query(rows, Where(_), Before(_, _), limit) ==
    LET found == {r \in rows : Where(r)}
        sorted == Arranged(SetToSeq(found), {p \in found \X found : Before(p[1], p[2])})
    IN  IF limit = Absent \/ Len(sorted) < limit THEN sorted ELSE SubSeq(sorted, 1, limit)

LexLess(s, t) == \E i \in DOMAIN s : s[i] < t[i] /\ \A j \in 1 .. i - 1 : s[j] = t[j]

Accepts(value, column) == value = Absent \/ column = value

-----------------------------------------------------------------------------
(***************************************************************************)
(* The Poster.  What its views list is in PosterViews.                     *)
(***************************************************************************)
PosterRoutes ==
    {<<"POST", "/submit">>, <<"GET", "/pending">>, <<"GET", "/submitted-batches">>,
     <<"GET", "/nonce/">>, <<"GET", "/status">>, <<"GET", "/health">>, <<"POST", "/flush">>}

\* readBodyBounded: the first event that settles the request decides.  An event is a chunk's length
\* or -1 (end), -2 (error) or -3 (aborted, or closed before the end).
BodyOutcome(events, cap) ==
    LET total(i) == FoldLeft(LAMBDA n, e : n + (IF e > 0 THEN e ELSE 0), 0, SubSeq(events, 1, i))
        settles(i) == events[i] < 0 \/ total(i) > cap
        first == CHOOSE i \in DOMAIN events : settles(i) /\ \A j \in 1 .. i - 1 : ~settles(j)
    IN  IF events[first] < 0 THEN <<"end", "error", "gone">>[-events[first]] ELSE "too_large"

RejectionToStatus(reason) ==
    CASE reason \in {"unknown_tag", "malformed", "bad_signature", "stale_nonce", "duplicate"} -> 400
      [] reason = "message_too_large" -> 413
      [] reason = "rate_limited" -> 429
      [] reason = "unhealthy" -> 503
      [] reason = "internal_error" -> 500

\* A submission: nothing is answered (0) to a client that is gone.
SubmitAnswer(req) ==
    CASE BodyOutcome(req.events, Stored.maxMessageSize) = "too_large" -> Status(413)
      [] BodyOutcome(req.events, Stored.maxMessageSize) = "gone" -> Status(0)
      [] BodyOutcome(req.events, Stored.maxMessageSize) = "error" -> Status(500)
      [] BodyOutcome(req.events, Stored.maxMessageSize) = "end" ->
            Status(IF req.result = "accepted" THEN 201 ELSE RejectionToStatus(req.result))

\* Without a limit the Poster's lists are whole; 0 is a limit.
PosterLimitOK(limit) == limit \notin {Bad, Huge} /\ (limit = Absent \/ limit <= 10000)

PendingAnswer(req) == Status(IF PosterLimitOK(req.limit) THEN 200 ELSE 400)

\* A block number too big for its column makes the database fail.
SubmittedAnswer(req) == Status(FirstOf(<<
    <<req.since = Bad \/ ~PosterLimitOK(req.limit), 400>>,
    <<req.since = Huge, 500>>,
    <<TRUE, 200>> >>))

NonceAnswer(req) == Status(IF req.param \in {Absent, Bad} THEN 400 ELSE 200)

FlushAnswer(req) == Status(IF req.tag = Absent THEN 400 ELSE 200)

\* dispatch: preflight, bearer token, route, then the handler.
PosterAnswer(req) ==
    LET refused == FirstOf(<<
            <<req.method = "OPTIONS", 204>>,
            <<AuthToken # Absent /\ req.token # AuthToken, 401>>,
            <<<<req.method, req.path>> \notin PosterRoutes, 404>>,
            <<TRUE, 0>> >>)
    IN  CASE refused # 0 -> Status(refused)
          [] refused = 0 /\ req.path = "/submit" -> SubmitAnswer(req)
          [] refused = 0 /\ req.path = "/pending" -> PendingAnswer(req)
          [] refused = 0 /\ req.path = "/submitted-batches" -> SubmittedAnswer(req)
          [] refused = 0 /\ req.path = "/nonce/" -> NonceAnswer(req)
          [] refused = 0 /\ req.path = "/flush" -> FlushAnswer(req)
          [] refused = 0 /\ req.path \in {"/status", "/health"} -> Status(200)

-----------------------------------------------------------------------------
(***************************************************************************)
(* The Reader.                                                             *)
(***************************************************************************)
ReaderRoutes == {"/health", "/messages", "/batches", "/batches/", "/blobs/"}

\* parseListQuery of the two list routes.
ListQueryOK(req, statuses) ==
    /\ req.tag \notin {Absent, Bad}
    /\ req.status \in statuses \cup {Absent}
    /\ req.limit \notin {Bad, Huge} /\ (req.limit = Absent \/ req.limit \in 1 .. 1000)
    /\ req.path = "/messages" => req.batchRef # Bad /\ req.sender # Bad
    /\ req.path = "/batches" => req.since \notin {Bad, Huge}

\* listMessages: chain order, rows that are not on chain last, in ingest order.
MessageBefore(m, n) ==
    LET place(r) == IF r.block = Absent THEN <<1, 0, 0, 0, r.seq>>
                                        ELSE <<0, r.block, r.tx, r.index, r.seq>>
    IN  LexLess(place(m), place(n))
ListedMessages(req) ==
    Query(Stored.messages,
          LAMBDA r : /\ r.tag = req.tag /\ Accepts(req.status, r.status)
                     /\ Accepts(req.batchRef, r.batchRef) /\ Accepts(req.sender, r.sender),
          MessageBefore, req.limit)

\* listBatches: newest first, rows without a block last; `since' drops rows without an inclusion time.
BatchBefore(b, c) ==
    LET place(r) == IF r.block = Absent THEN <<0, 0, r.submittedAt>> ELSE <<r.block + 1, r.tx, r.submittedAt>>
    IN  LexLess(place(c), place(b))
ListedBatches(req) ==
    Query(Stored.batches,
          LAMBDA r : /\ r.tag = req.tag /\ Accepts(req.status, r.status)
                     /\ req.since # Absent => r.includedAt # Absent /\ r.includedAt >= req.since,
          BatchBefore, req.limit)

\* getBatch: the first tag of the transaction, whatever its status.
BatchOfTx(tx) == Query(Stored.batches, LAMBDA r : r.txHash = tx, LAMBDA r, s : r.tag < s.tag, 1)

\* health: how far the cursor is behind the head, or null when either is unknown.
BlocksBehind(head, cursorBlock) ==
    IF Absent \in {head, cursorBlock} THEN Absent
    ELSE IF head < cursorBlock THEN 0 ELSE head - cursorBlock

ListAnswer(req) ==
    LET ok == ListQueryOK(req, IF req.path = "/messages"
                               THEN {"pending", "submitted", "confirmed", "reorged"}
                               ELSE {"pending_tx", "confirmed", "reorged"})
    IN  IF ~ok THEN Status(400)
        ELSE Serve(IF req.path = "/messages" THEN ListedMessages(req) ELSE ListedBatches(req))

ItemAnswer(req) ==
    LET found == IF req.path = "/batches/" THEN BatchOfTx(req.param) # <<>> ELSE req.param \in Stored.blobs
    IN  Status(IF req.param = Bad THEN 400 ELSE IF found THEN 200 ELSE 404)

\* A path parameter that does not decode, or hides a slash, matches no route.
ReaderAnswer(req) ==
    LET item == req.path \in {"/batches/", "/blobs/"}
        refused == FirstOf(<<
            <<req.method = "OPTIONS", 204>>,
            <<req.method # "GET" \/ req.path \notin ReaderRoutes \/ (item /\ req.param = Absent), 404>>,
            <<TRUE, 0>> >>)
    IN  CASE refused # 0 -> Status(refused)
          [] refused = 0 /\ req.path \in {"/messages", "/batches"} -> ListAnswer(req)
          [] refused = 0 /\ item -> ItemAnswer(req)
          [] refused = 0 /\ req.path = "/health" -> Serve(<<BlocksBehind(Stored.head, Stored.cursor)>>)

-----------------------------------------------------------------------------
(***************************************************************************)
(* The Indexer: a handler's routes read one generation of its posts.       *)
(***************************************************************************)
IndexerRoutes == {"/health", "/posts", "/posts/id/", "/posts/hash/", "/replies", "/profile/", "/versions"}
IndexerLimitOK(limit) == limit \notin {Bad, Huge} /\ (limit = Absent \/ limit \in 1 .. 200)
IndexerLimit(limit) == IF limit = Absent THEN 50 ELSE limit

\* resolveVersionId: the generation asked for, if the handler has it, or the current one.
ResolveVersion(version) ==
    LET fits == {g \in Stored.generations : IF version = Absent THEN g.current ELSE g.id = version}
    IN  IF fits = {} THEN Absent ELSE (CHOOSE g \in fits : TRUE).id

\* A handler of one generation: its own checks, the generation, then the rows.
OfVersion(req, ok, Result(_)) ==
    LET refused == FirstOf(<<
            <<~ok \/ (req.version # Absent /\ ResolveVersion(req.version) = Absent), 400>>,
            <<ResolveVersion(req.version) = Absent, 404>>,
            <<TRUE, 0>> >>)
    IN  IF refused # 0 THEN Status(refused) ELSE Result(ResolveVersion(req.version))

NewestPost(p, q) == LexLess(q.coord, p.coord)
OldestReply(p, q) == LexLess(<<p.timestamp>> \o p.coord, <<q.timestamp>> \o q.coord)

\* A block number too big for its column makes the database fail.
PostsAnswer(req) ==
    OfVersion(req, IndexerLimitOK(req.limit) /\ req.sender # Bad /\ req.since # Bad,
        LAMBDA v : IF req.since = Huge THEN Status(500) ELSE
            Serve(Query(Stored.posts, LAMBDA p : /\ p.version = v /\ p.parent = Absent
                                                 /\ Accepts(req.sender, p.sender)
                                                 /\ req.since # Absent => p.coord[1] >= req.since,
                        NewestPost, IndexerLimit(req.limit))))

PostAnswer(req) ==
    OfVersion(req, req.param # Bad,
        LAMBDA v : LET found == {p \in Stored.posts : p.version = v /\ p.hash = req.param}
                   IN  IF found = {} THEN Status(404) ELSE Serve(SetToSeq(found)))

RepliesAnswer(req) ==
    OfVersion(req, IndexerLimitOK(req.limit) /\ req.param \notin {Absent, Bad},
        LAMBDA v : Serve(Query(Stored.posts, LAMBDA p : p.version = v /\ p.parent = req.param,
                               OldestReply, IndexerLimit(req.limit))))

ProfileAnswer(req) ==
    OfVersion(req, req.param # Bad /\ IndexerLimitOK(req.limit),
        LAMBDA v : Serve(Query(Stored.posts, LAMBDA p : p.version = v /\ p.sender = req.param,
                               NewestPost, IndexerLimit(req.limit))))

IndexerAnswer(req) ==
    LET item == req.path \in {"/posts/id/", "/posts/hash/", "/profile/"}
        refused == FirstOf(<<
            <<req.method = "OPTIONS", 204>>,
            <<req.method # "GET" \/ req.path \notin IndexerRoutes \/ (item /\ req.param = Absent), 404>>,
            <<TRUE, 0>> >>)
    IN  CASE refused # 0 -> Status(refused)
          [] refused = 0 /\ req.path = "/posts" -> PostsAnswer(req)
          [] refused = 0 /\ req.path \in {"/posts/id/", "/posts/hash/"} -> PostAnswer(req)
          [] refused = 0 /\ req.path = "/replies" -> RepliesAnswer(req)
          [] refused = 0 /\ req.path = "/profile/" -> ProfileAnswer(req)
          [] refused = 0 /\ req.path \in {"/health", "/versions"} -> Status(200)

-----------------------------------------------------------------------------
(***************************************************************************)
(* The coprocessor.                                                        *)
(***************************************************************************)
CoprocessorLimitOK(limit) == limit \notin {Bad, Huge} /\ (limit = Absent \/ limit \in 1 .. 200)
PageSize(limit) == IF limit = Absent THEN 50 ELSE limit

\* list_proofs_page: newest first, strictly past the cursor.
Newest(r, s) == LexLess(<<s.at, s.hash>>, <<r.at, r.hash>>)
ProofPageOfTime(rows, after, limit) ==    \* mutant: the cursor is only a time
    Query(rows, LAMBDA r : after = Absent \/ r.at < after.at, Newest, limit)
ProofPageOf(rows, after, limit) ==
    Query(rows, LAMBDA r : after = Absent \/ Newest(after, r), Newest, limit)

ListProofs(req, rows) ==
    IF ~CoprocessorLimitOK(req.limit) \/ req.cursor = Bad THEN Status(400)
    ELSE Serve(ProofPageOf(rows, req.cursor, PageSize(req.limit)))

\* An empty first page of validations is "not yet"; a page past the end is an empty list.
ListValidations(req, rows) ==
    IF CoprocessorLimitOK(req.limit) /\ req.cursor = Absent /\ rows = {} THEN Status(503)
    ELSE ListProofs(req, rows)

ProofByHash(req, rows) ==
    LET found == {r \in rows : r.hash = req.param}
    IN  Status(IF req.param = Bad THEN 400 ELSE IF found = {} THEN 404 ELSE 200)

ProofsByBlob(req, rows) ==
    IF req.param = Bad THEN Status(400) ELSE Serve(SetToSeq({r \in rows : r.blob = req.param}))

VerifyingKey(rows) == Status(IF rows = {} THEN 503 ELSE 200)

CoprocessorRoutes ==
    {"/health", "/validation/latest", "/proof", "/proof/vk", "/proof/by-blob/", "/proof/"}

CoprocessorAnswer(req) ==
    LET refused == FirstOf(<<
            <<req.path \notin CoprocessorRoutes, 404>>,
            <<req.method # "GET", 405>>,
            <<TRUE, 0>> >>)
    IN  CASE refused # 0 -> Status(refused)
          [] refused = 0 /\ req.path = "/validation/latest" -> ListValidations(req, Stored.validations)
          [] refused = 0 /\ req.path = "/proof" -> ListProofs(req, Stored.proofs)
          [] refused = 0 /\ req.path = "/proof/" -> ProofByHash(req, Stored.proofs)
          [] refused = 0 /\ req.path = "/proof/by-blob/" -> ProofsByBlob(req, Stored.proofs)
          [] refused = 0 /\ req.path = "/proof/vk" -> VerifyingKey(Stored.proofs)
          [] refused = 0 /\ req.path = "/health" -> Status(200)

-----------------------------------------------------------------------------
ReadApiInit ==
    /\ asked = Absent /\ answer = Absent
    /\ proofRows = {} /\ cursor = Absent /\ got = <<>> /\ before = {} /\ paging = "no"

AnswerOf(req) ==
    CASE req.server = "poster" -> PosterAnswer(req)
      [] req.server = "reader" -> ReaderAnswer(req)
      [] req.server = "indexer" -> IndexerAnswer(req)
      [] req.server = "coprocessor" -> CoprocessorAnswer(req)

Ask(req) ==
    /\ asked = Absent
    /\ asked' = req /\ answer' = AnswerOf(req)
    /\ UNCHANGED <<proofRows, cursor, got, before, paging>>

\* The proof job's insert; two rows may carry the same time.
InsertProof(hash, at) ==
    /\ \A r \in proofRows : r.hash # hash /\ r.at <= at
    /\ proofRows' = proofRows \cup {[at |-> at, hash |-> hash]}
    /\ UNCHANGED <<requestVars, cursor, got, before, paging>>

\* A full page comes with a cursor, its last row; a shorter one ends the list.
FetchPage ==
    LET page == ListProofs([limit |-> ProofPage, cursor |-> cursor], proofRows).rows
    IN  /\ paging # "done"
        /\ before' = IF paging = "no" THEN proofRows ELSE before
        /\ got' = got \o page
        /\ IF Len(page) = ProofPage
           THEN cursor' = page[ProofPage] /\ paging' = "on"
           ELSE paging' = "done" /\ UNCHANGED cursor
        /\ UNCHANGED <<requestVars, proofRows>>

PagingNext ==
    \/ \E h \in ProofHashes, at \in 0 .. MaxAt : InsertProof(h, at)
    \/ FetchPage

AskNext == asked = Absent /\ \E req \in Requests : Ask(req)

ReadApiSpec == ReadApiInit /\ [][AskNext \/ PagingNext]_apiVars

-----------------------------------------------------------------------------
\* A client that follows next_cursor to the end is given every proof that was there when it began,
\* and none twice, whatever is inserted meanwhile and however many rows share a timestamp
\* (list_proofs_page, proof_list.rs).
PagesComplete ==
    /\ paging = "done" => before \subseteq Range(got)
    /\ \A i, j \in DOMAIN got : i # j => got[i] # got[j]

\* The parameters a route reads.
ReadBy(req) ==
    CASE req.path = "/messages" -> {"tag", "status", "limit", "batchRef", "sender"}
      [] req.path = "/batches" -> {"tag", "status", "limit", "since"}
      [] req.path = "/pending" -> {"limit"}
      [] req.path = "/submitted-batches" -> {"since", "limit"}
      [] req.path = "/posts" -> {"limit", "sender", "since", "version"}
      [] req.path = "/replies" -> {"limit", "param", "version"}
      [] req.path = "/profile/" -> {"limit", "param", "version"}
      [] req.path \in {"/posts/id/", "/posts/hash/"} -> {"param", "version"}
      [] req.path \in {"/proof", "/validation/latest"} -> {"limit", "cursor"}
      [] req.path \in {"/nonce/", "/batches/", "/blobs/", "/proof/", "/proof/by-blob/"} -> {"param"}
      [] OTHER -> {}

\* The client is told whose fault it is: a request with a malformed parameter is never answered with
\* rows nor as a failure of the server, and a row the request does not fit, of another
\* tag, status, sender or generation, is never among the rows, which are no more than it asked for
\* (the handlers of the four servers).
AnsweredAsAsked ==
    asked # Absent =>
        LET bad == \E p \in ReadBy(asked) : asked[p] = Bad
            fits(r) == /\ asked.server = "reader" => /\ r.tag = asked.tag /\ Accepts(asked.status, r.status)
                                                     /\ asked.path = "/messages" => Accepts(asked.sender, r.sender)
                       /\ asked.server = "indexer" =>
                            IF asked.version # Absent THEN r.version = asked.version
                            ELSE \E g \in Stored.generations : g.current /\ g.id = r.version
        IN  /\ bad => answer.status \in {204, 400, 401, 404, 405}
            /\ asked.path # "/health" => \A i \in DOMAIN answer.rows : fits(answer.rows[i])
            /\ asked.limit \in Nat /\ asked.path \in {"/messages", "/batches", "/posts", "/replies", "/profile/", "/proof"}
                  => Len(answer.rows) <= asked.limit
=============================================================================
