------------------------------ MODULE Proxies ------------------------------
(***************************************************************************)
(* The API routes of the demo applications (message-in-a-blobble, twitter, *)
(* forum) and the clients they call the services through: what a page is   *)
(* answered when a service is not configured, does not reply in time,      *)
(* replies with an error, or replies with a body that is not its own.      *)
(*                                                                         *)
(* A reply is Down (refused, or no answer before the timeout) or a status  *)
(* and a body; a body is Garbled (announced as JSON and not JSON: null),   *)
(* Bare (JSON or text without the field the route reads) or a list of      *)
(* rows.  One page is asked for at a time.                                 *)
(***************************************************************************)
EXTENDS ReadApi

CONSTANTS
    Down, Garbled, Bare,
    AppTag,     \* the content tag of each application
    Visits      \* [app, route, param, body, unset, says]: a request, the services that are not
                \* configured, and what each path of the others replies

PageRoutes ==
    {"/pending", "/status", "/health", "/submitted-batches", "/flush", "/next-nonce", "/messages", "/confirmed-messages",
     "/thread/", "/blobbles", "/blobbles/", "/proof/", "/proof/download"}

\* The paths a route asks, each with its service.
AskedBy(v) ==
    CASE v.route = "/next-nonce" -> {<<"poster", "/nonce/">>}
      [] v.route = "/messages" -> {<<"poster", "/submit">>}
      [] v.route = "/confirmed-messages" /\ v.app = "twitter" -> {<<"indexer", "/posts">>, <<"reader", "/messages">>}
      [] v.route = "/confirmed-messages" /\ v.app # "twitter" -> {<<"reader", "/messages">>}
      [] v.route = "/thread/" ->
            {<<"indexer", "/posts/hash/">>, <<"indexer", "/replies">>, <<"reader", "/messages">>}
      [] v.route = "/blobbles" -> {<<"reader", "/batches">>}
      [] v.route = "/blobbles/" -> {<<"reader", "/batches/">>, <<"reader", "/messages">>}
      [] v.route = "/proof/" -> {<<"coprocessor", "/proof/">>}
      [] v.route = "/proof/download" -> {<<"coprocessor", "/proof/">>, <<"coprocessor", "/proof/vk">>}
      [] OTHER -> {<<"poster", v.route>>}

\* A reply is a status and a body; rows have an author and their numbers.
ASSUME VisitsAssumption ==
    \A v \in Visits :
        /\ v.route \in PageRoutes
        /\ \A asks \in AskedBy(v) : v.says[asks[2]] # Down =>
            LET reply == v.says[asks[2]] IN
            /\ reply.status \in Nat
            /\ reply.body \notin {Bare, Garbled} =>
                /\ reply.body \in Seq(Range(reply.body))
                /\ \A r \in Range(reply.body) :
                    "author" \in DOMAIN r /\ {r.block, r.index, r.time} \subseteq Nat

VARIABLE visit  \* [asked, answer]: the page asked for, or Absent, and what it was answered

-----------------------------------------------------------------------------
(***************************************************************************)
(* The clients: one exception per way to fail, which the routes turn into  *)
(* an answer.                                                              *)
(***************************************************************************)
RouteError(status, error) == [status |-> status, error |-> error, rows |-> <<>>, sent |-> Absent]
Page(rows) == [status |-> 200, error |-> "none", rows |-> rows, sent |-> Absent]

\* An exception no route maps: a field read from null.
Crash == RouteError(500, "exception")

Unreachable(v, service, path) == service \notin v.unset /\ v.says[path] = Down

\* rawFetch, then the route's own handling of the reply.
Through(v, service, path, Handle(_)) ==
    CASE service \in v.unset -> RouteError(500, "url_not_configured")
      [] Unreachable(v, service, path) -> RouteError(502, "unreachable")
      [] OTHER -> Handle(v.says[path])

\* rows.filter and rows.sort, which keep the order of what they do not move.
Filtered(rows, Keep(_)) ==
    LET kept == {i \in DOMAIN rows : Keep(rows[i])}
    IN  [n \in 1 .. Cardinality(kept) |-> rows[CHOOSE i \in kept : Cardinality({j \in kept : j < i}) = n - 1]]
SortedRows(rows, Before(_, _)) ==
    Arranged(rows, {p \in Range(rows) \X Range(rows) : Before(p[1], p[2])})

RowsOf(body) == IF body = Bare THEN <<>> ELSE body

Forward(reply) ==
    [Page(IF reply.body \in {Bare, Garbled} THEN <<>> ELSE reply.body) EXCEPT !.status = reply.status]

\* The shape most routes have: another status is passed on, the rows of a 200 are shown.
Rendered(reply, Show(_)) ==
    CASE reply.status # 200 -> Forward(reply)
      [] reply.status = 200 /\ reply.body = Garbled -> Crash
      [] OTHER -> Page(Show(RowsOf(reply.body)))

-----------------------------------------------------------------------------
(***************************************************************************)
(* Routes to the Poster.                                                   *)
(***************************************************************************)
PosterProxy(v, path) == [Through(v, "poster", path, Forward) EXCEPT !.sent = [tag |-> AppTag[v.app]]]

NonceRoute(v) ==
    LET Nonce(reply) ==
            CASE reply.status # 200 -> RouteError(502, "nonce_lookup_failed")
              [] reply.status = 200 /\ reply.body = Garbled -> Crash
              [] reply.status = 200 /\ reply.body = Bare -> RouteError(502, "nonce_lookup_failed")
              [] OTHER -> Page(reply.body)
    IN  IF v.param = Bad THEN RouteError(400, "invalid_sender") ELSE Through(v, "poster", "/nonce/", Nonce)

\* What the Poster is sent: the forum and twitter pin their tag, message-in-a-blobble fills in one that
\* is missing, and takes a body without a message for the message.
Envelope(v) ==
    CASE v.app # "blobble" -> [tag |-> AppTag[v.app], message |-> v.body.message]
      [] v.app = "blobble" /\ v.body = Bare -> [tag |-> AppTag[v.app], message |-> Bare]
      [] OTHER -> [tag |-> IF v.body.tag = Absent THEN AppTag[v.app] ELSE v.body.tag, message |-> v.body.message]

PostMessage(v) ==
    IF v.body = Bad \/ (v.body = Bare /\ v.app # "blobble") THEN RouteError(400, "malformed")
    ELSE [Through(v, "poster", "/submit", Forward) EXCEPT !.sent = Envelope(v)]

-----------------------------------------------------------------------------
(***************************************************************************)
(* Routes to the Reader and the Indexer.                                   *)
(***************************************************************************)
Batched(rows) == Filtered(rows, LAMBDA r : r.batchRef # Absent)

ConfirmedFromReader(v) ==
    Through(v, "reader", "/messages", LAMBDA reply : Rendered(reply, Batched))

\* The Indexer is optional: without a URL it is not asked.
IndexerSilent(v, paths) == "indexer" \in v.unset \/ \E path \in paths : v.says[path] = Down

\* Twitter asks the Indexer first.  One that is not there or does not say 200 is passed over; an
\* exception of the route's own is not.
TwitterConfirmed(v) ==
    IF IndexerSilent(v, {"/posts"}) THEN ConfirmedFromReader(v)
    ELSE IF v.says["/posts"].status # 200 THEN ConfirmedFromReader(v)
    ELSE Rendered(v.says["/posts"], LAMBDA rows : rows)

\* A thread of the Indexer, or Absent: then the Reader is asked.  Here any exception passes it over.
IndexedThread(v) ==
    LET post == v.says["/posts/hash/"]
        replies == v.says["/replies"]
    IN  CASE IndexerSilent(v, {"/posts/hash/", "/replies"}) -> Absent
          [] OTHER -> IF post.status # 200 \/ post.body \in {Bare, Garbled} THEN Absent
                      ELSE IF replies.status # 200 THEN post.body
                      ELSE IF replies.body = Garbled THEN Absent
                      ELSE post.body \o RowsOf(replies.body)

\* The thread among the Reader's rows: the post, then its replies by time.
ThreadAmong(rows, hash) ==
    LET decoded == Filtered(rows, LAMBDA r : r.batchRef # Absent /\ r.decodes)
        post == Filtered(decoded, LAMBDA r : r.hash = hash)
        replies == Filtered(decoded, LAMBDA r : r.hash # hash /\ r.parent = hash)
    IN  IF post = <<>> THEN Absent
        ELSE <<Last(post)>> \o SortedRows(replies, LAMBDA r, s : r.time < s.time)

TwitterThread(v) ==
    LET Found(thread) == IF thread = Absent THEN RouteError(404, "not_found") ELSE Page(thread)
        Reply(reply) ==
            CASE reply.status # 200 -> RouteError(502, "reader_error")
              [] reply.status = 200 /\ reply.body = Garbled -> Crash
              [] OTHER -> Found(ThreadAmong(RowsOf(reply.body), v.param))
    IN  CASE v.param = Bad -> RouteError(400, "bad_request")
          [] v.param # Bad /\ IndexedThread(v) # Absent -> Page(IndexedThread(v))
          [] OTHER -> Through(v, "reader", "/messages", Reply)

Blobbles(v) ==
    Through(v, "reader", "/batches",
            LAMBDA reply : Rendered(reply, LAMBDA rows : SortedRows(rows, LAMBDA r, s : r.block > s.block)))

\* A batch and its messages are two requests: an entry of the snapshot whose message, looked up by
\* author and nonce, is not among the second's rows has no content.
Entry(entry, rows) ==
    LET match == Filtered(rows, LAMBDA r : r.author = entry.author)
    IN  [entry EXCEPT !.content = IF match = <<>> \/ ~Last(match).decodes THEN Absent ELSE Last(match).content]

BlobbleOf(v) ==
    LET batch == v.says["/batches/"]
        messages == v.says["/messages"]
        snapshot == SortedRows(batch.body, LAMBDA d, e : d.index < e.index)
    IN  CASE "reader" \in v.unset -> RouteError(500, "url_not_configured")
          [] "reader" \notin v.unset /\ Down \in {batch, messages} -> RouteError(502, "unreachable")
          [] OTHER -> IF batch.status # 200 THEN Forward(batch)
                      ELSE IF messages.status # 200 THEN Forward(messages)
                      ELSE IF batch.body = Garbled THEN Crash
                      ELSE IF batch.body = Bare THEN RouteError(404, "not_found")
                      ELSE IF messages.body = Garbled THEN Crash
                      ELSE Page([i \in DOMAIN snapshot |-> Entry(snapshot[i], RowsOf(messages.body))])

-----------------------------------------------------------------------------
(***************************************************************************)
(* Routes to the coprocessor.                                              *)
(***************************************************************************)
Failing(reply, absence) == reply.status >= 500 /\ reply.status # absence

\* getProofByMessageHash and getVk: nothing yet (also when the body is no object), or an item.
ItemOf(reply) == IF reply.status # 200 \/ reply.body \in {Bare, Garbled} THEN Absent ELSE reply.body

Proof(v) ==
    LET Bundle(reply) ==
            CASE Failing(reply, 404) -> RouteError(502, "unreachable")
              [] ~Failing(reply, 404) /\ ItemOf(reply) = Absent -> RouteError(404, "not_found")
              [] OTHER -> Page(ItemOf(reply))
    IN  IF v.param = Bad THEN RouteError(400, "invalid_message_hash")
        ELSE Through(v, "coprocessor", "/proof/", Bundle)

\* The file holds the key too, once there is one.
ProofDownload(v) ==
    LET key == v.says["/proof/vk"]
    IN  CASE v.param = Bad \/ "coprocessor" \in v.unset -> Proof(v)
          [] OTHER -> IF key = Down THEN RouteError(502, "unreachable")
                      ELSE IF Failing(key, 503) THEN RouteError(502, "unreachable")
                      ELSE IF Proof(v).status # 200 \/ ItemOf(key) = Absent THEN Proof(v)
                      ELSE Page(Proof(v).rows \o ItemOf(key))

-----------------------------------------------------------------------------
RouteAnswer(v) ==
    CASE v.route \in {"/pending", "/status", "/health", "/submitted-batches", "/flush"} -> PosterProxy(v, v.route)
      [] v.route = "/next-nonce" -> NonceRoute(v)
      [] v.route = "/messages" -> PostMessage(v)
      [] v.route = "/confirmed-messages" ->
            IF v.app = "twitter" THEN TwitterConfirmed(v) ELSE ConfirmedFromReader(v)
      [] v.route = "/thread/" -> TwitterThread(v)
      [] v.route = "/blobbles" -> Blobbles(v)
      [] v.route = "/blobbles/" -> BlobbleOf(v)
      [] v.route = "/proof/" -> Proof(v)
      [] v.route = "/proof/download" -> ProofDownload(v)

NoVisit == visit = [asked |-> Absent, answer |-> Absent]

Visit(v) == visit' = [asked |-> v, answer |-> RouteAnswer(v)]

ProxiesNext == visit.asked = Absent /\ \E v \in Visits : Visit(v)

ProxiesSpec == NoVisit /\ [][ProxiesNext]_visit

-----------------------------------------------------------------------------
\* A page does not make things up (the routes under src/app/api).  It is answered 200 only if a
\* service said so, with rows of that service alone; it blames a service only if one of those it asks
\* failed, and says "not found" only if one was asked and had nothing.  A twitter page is answered as
\* long as the Reader is well, unless the Indexer's 200 has a body that is not JSON.  And whatever a
\* caller puts in its body, the forum and twitter submit under their own tag.
PagesAreHonest ==
    visit.asked # Absent =>
        LET v == visit.asked
            given == visit.answer
            replies == {v.says[p[2]] : p \in {q \in AskedBy(v) : q[1] \notin v.unset}}
            well == {r \in replies \ {Down} : r.status = 200}
            rows == UNION {Range(r.body) : r \in {s \in replies \ {Down} : s.body \notin {Bare, Garbled}}}
            fromReader == "reader" \notin v.unset /\ v.says["/messages"] # Down
                            /\ v.says["/messages"].status = 200 /\ v.says["/messages"].body # Garbled
        IN  /\ given.status = 200 => well # {}
            /\ given.error # "none" => given.rows = <<>>
            /\ \A i \in DOMAIN given.rows :
                  IF v.route = "/blobbles/" THEN \E r \in rows : r.author = given.rows[i].author
                  ELSE given.rows[i] \in rows
            /\ given.status = 502 /\ given.error # "none" =>
                  Down \in replies \/ \E r \in replies \ {Down} : r.status # 200 \/ r.body = Bare
            /\ given.status = 404 => replies \ {Down} # {}
            /\ v.app = "twitter" /\ v.route \in {"/thread/", "/confirmed-messages"} /\ v.param # Bad /\ fromReader =>
                  \/ given.status \in {200} \cup (IF v.route = "/thread/" THEN {404} ELSE {})
                  \/ "indexer" \notin v.unset /\ v.says["/posts"] # Down /\ v.says["/posts"].body = Garbled
            /\ v.route = "/messages" /\ v.app # "blobble" /\ given.sent # Absent => given.sent.tag = AppTag[v.app]
=============================================================================
