------------------------------ MODULE Threads ------------------------------
(***************************************************************************)
(* What the readers of a discussion see: the comment tree of bam-comments, *)
(* and the forum's posts with their replies, likes and badges, each built  *)
(* from the rows the Poster and the Reader answer with.                    *)
(*                                                                         *)
(* A row is a message at a stage: "pending" at the Poster, "confirmed" at  *)
(* the Reader, "both" while the two answers overlap, "unlinked" in the     *)
(* Reader before its batch is.  "garbage" are contents that do not decode. *)
(***************************************************************************)
EXTENDS Integers, Sequences, FiniteSets, SequencesExt

CONSTANTS
    CommentRows, ForumRows,   \* the sets of rows there may be: [id, kind, parent, time, by, stage]
    Badged,                   \* how far the coprocessor is, and what its windows list
    HardCap                   \* HARD_CAP: messages walked up to a root

VARIABLE thread     \* a page: its rows, what its services answer, and what it shows

Unbuilt == <<[id |-> -1]>>
NoParent == 0

\* compareNodes: by time, then by hash.
Before(m, n) ==
    \/ m.time < n.time
    \/ m.time = n.time /\ m.id < n.id
Sorted(rows) == SetToSortSeq(rows, Before)
At(rows, stages) == {r \in rows : r.stage \in stages /\ r.kind # "garbage"}

-----------------------------------------------------------------------------
(***************************************************************************)
(* bam-comments.                                                           *)
(***************************************************************************)
\* Confirmed rows that are linked, and the pending ones that no confirmed row stands for.
ListForPost(rows, posterAnswers) ==
    LET listed(r, pending) == [id |-> r.id, parent |-> r.parent, time |-> r.time, pending |-> pending]
        confirmed == {listed(r, FALSE) : r \in At(rows, {"confirmed", "both"})}
        mirrors == {listed(r, TRUE) : r \in At(rows, {"pending"})}
    IN confirmed \cup (IF posterAnswers THEN mirrors ELSE {})

ReachesTheEnd(messages, start) ==   \* mutant: a missing parent ends the walk well
    LET ids == {m.id : m \in messages}
        parent == [i \in ids |-> (CHOOSE m \in messages : m.id = i).parent]
        walk[i \in 1 .. HardCap + 1, cursor \in ids \cup {NoParent}] ==
            i <= HardCap /\ (parent[cursor] \notin ids \/ walk[i + 1, parent[cursor]])
    IN walk[1, start.id]

\* The walk up the parents ends at a root, within HARD_CAP messages.  (The code also stops at a
\* message it has seen; such a walk never ends at a root.)
IsReachableRoot(messages, start) ==
    LET ids == {m.id : m \in messages}
        parent == [i \in ids |-> (CHOOSE m \in messages : m.id = i).parent]
        walk[i \in 1 .. HardCap + 1, cursor \in ids \cup {NoParent}] ==
            /\ i <= HardCap
            /\ \/ parent[cursor] = NoParent
               \/ parent[cursor] \in ids /\ walk[i + 1, parent[cursor]]
    IN walk[1, start.id]

ClampDepth(d) == IF d >= 2 THEN 2 ELSE d

\* The tree, in the order it is rendered: a message, then its replies.
BuildThread(messages) ==
    LET survivors == {m \in messages : IsReachableRoot(messages, m)}
        ids == {m.id : m \in survivors}
        roots == {m \in survivors : m.parent \notin ids}
        subtree[d \in 0 .. HardCap, m \in survivors] ==
            LET kids == Sorted({k \in survivors : k.parent = m.id})
            IN <<[id |-> m.id, depth |-> ClampDepth(d), pending |-> m.pending]>>
                  \o FlattenSeq([i \in DOMAIN kids |-> subtree[d + 1, kids[i]]])
        top == Sorted(roots)
    IN FlattenSeq([i \in DOMAIN top |-> subtree[0, top[i]]])

ShowComments ==
    /\ thread.app = "comments" /\ thread.shown = Unbuilt
    /\ thread' = [thread EXCEPT !.shown = BuildThread(ListForPost(thread.rows, thread.poster))]

-----------------------------------------------------------------------------
(***************************************************************************)
(* The forum.                                                              *)
(***************************************************************************)
\* resolveBadges and badgeForConfirmed: the highest window that lists the message.
BadgeForConfirmed(windows, id) ==
    CASE id \in windows.proofs -> "proven"
      [] id \in windows.validations \ windows.proofs -> "validated"
      [] id \notin windows.proofs \cup windows.validations -> "confirmed"

Shown(r, badge) ==
    [id |-> r.id, kind |-> r.kind, parent |-> r.parent, time |-> r.time, by |-> r.by, badge |-> badge]

\* GET /api/confirmed: the Reader's rows with their badges.  A coprocessor that has validated
\* nothing counts as empty windows; one that fails takes the page's confirmed rows with it.
ConfirmedRoute(rows, coprocessor) ==
    IF coprocessor = "down" THEN {}
    ELSE {Shown(r, BadgeForConfirmed(thread.windows, r.id)) :
            r \in At(rows, {"confirmed", "both", "unlinked"})}

\* GET /api/pending: the viewer's own.
PendingRoute(rows, viewer) ==
    {Shown(r, "pending") : r \in {q \in At(rows, {"pending", "both"}) : q.by = viewer}}

\* The page: a confirmed row stands for its pending mirror.
Deduped(confirmed, pending) ==
    confirmed \cup {r \in pending : \A c \in confirmed : c.id # r.id}

IndexLikesBySender(rows) ==
    [target \in {r.parent : r \in {q \in rows : q.kind = "like"}} |->
        {r.by : r \in {q \in rows : q.kind = "like" /\ q.parent = target}}]

\* A post, its direct replies, and who likes it.
BuildForumThread(post, rows) ==
    LET likes == IndexLikesBySender(rows)
    IN [post |-> post,
        replies |-> Sorted({r \in rows : r.kind = "reply" /\ r.parent = post.id}),
        likers |-> IF post.id \in DOMAIN likes THEN likes[post.id] ELSE {}]

\* The home page lists the newest post first; equal times keep the order of the rows.
BuildThreads(rows) ==
    LET posts == SetToSortSeq({r \in rows : r.kind = "post"},
                              LAMBDA p, q : p.time > q.time \/ (p.time = q.time /\ p.id < q.id))
    IN [i \in DOMAIN posts |-> BuildForumThread(posts[i], rows)]

\* The page of one post; <<>> when the rows do not hold it.
GetThread(rows, id) ==
    LET posts == {r \in rows : r.kind = "post" /\ r.id = id}
    IN IF posts = {} THEN <<>> ELSE <<BuildForumThread(CHOOSE p \in posts : TRUE, rows)>>

ShowForum ==
    /\ thread.app = "forum" /\ thread.shown = Unbuilt
    /\ thread' = [thread EXCEPT !.shown =
            BuildThreads(Deduped(ConfirmedRoute(thread.rows, thread.coprocessor),
                                 PendingRoute(thread.rows, thread.viewer)))]

-----------------------------------------------------------------------------
ThreadsInit ==
    \/ \E rows \in CommentRows, answers \in BOOLEAN :
        thread = [app |-> "comments", rows |-> rows, poster |-> answers, shown |-> Unbuilt]
    \/ \E rows \in ForumRows, badged \in Badged, coprocessor \in {"up", "none yet", "down"} :
        thread = [app |-> "forum", rows |-> rows, viewer |-> 1, coprocessor |-> coprocessor,
                  progress |-> badged.progress,
                  windows |-> IF coprocessor = "none yet" THEN [validations |-> {}, proofs |-> {}]
                              ELSE badged.windows,
                  shown |-> Unbuilt]
NoThread == thread = [app |-> "none", shown |-> Unbuilt]

ThreadsNext ==
    \/ ShowComments
    \/ ShowForum

-----------------------------------------------------------------------------
(***************************************************************************)
(* Properties.                                                             *)
(***************************************************************************)
\* The messages all of whose ancestors are there: the least set of roots and replies to members.
Grounded(messages) ==
    LET closed(S) == \A m \in messages : m.parent \in S \cup {NoParent} => m.id \in S
    IN {m.id : m \in {n \in messages :
            \A S \in SUBSET {k.id : k \in messages} : closed(S) => n.id \in S}}

\* A message and its ancestors: those without which it would not be grounded.
Lineage(messages, id) ==
    {i \in Grounded(messages) : id \notin Grounded({m \in messages : m.id # i})}

CommentsAreWhole ==
    LET messages == ListForPost(thread.rows, thread.poster)
        parent(i) == (CHOOSE m \in messages : m.id = i).parent
        shown == thread.shown
        ids == {shown[n].id : n \in DOMAIN shown}
        message(n) == CHOOSE m \in messages : m.id = shown[n].id
    IN /\ Cardinality(ids) = Len(shown)
       /\ ids = {i \in Grounded(messages) : Cardinality(Lineage(messages, i)) <= HardCap}
       /\ \A n \in DOMAIN shown :
            /\ shown[n].pending <=> message(n).pending
            /\ parent(shown[n].id) = NoParent <=> shown[n].depth = 0
            \* a reply follows its parent, with only the parent's other replies between them
            /\ shown[n].depth > 0 =>
                 \E p \in 1 .. n - 1 :
                    /\ shown[p].id = parent(shown[n].id)
                    /\ shown[n].depth = ClampDepth(shown[p].depth + 1)
                    /\ \A q \in p + 1 .. n - 1 : shown[q].depth > shown[p].depth \/ shown[p].depth = 2
       /\ \A n, l \in DOMAIN shown :
            n < l /\ parent(shown[n].id) = parent(shown[l].id) => Before(message(n), message(l))

\* What the coprocessor has really done with a message.
Rung(badge) ==
    CASE badge = "pending" -> 0 [] badge = "confirmed" -> 1 [] badge = "validated" -> 2 [] badge = "proven" -> 3

ForumIsWhole ==
    LET visible == {r \in thread.rows :
                        /\ r.kind # "garbage"
                        /\ \/ r.stage # "pending" /\ thread.coprocessor # "down"
                           \/ r.stage \in {"pending", "both"} /\ r.by = thread.viewer}
        page == thread.shown
        rows == UNION {{page[n].post} \cup ToSet(page[n].replies) : n \in DOMAIN page}
        all == Deduped(ConfirmedRoute(thread.rows, thread.coprocessor),
                       PendingRoute(thread.rows, thread.viewer))
        on(r, n) == r.parent = page[n].post.id
    IN /\ {page[n].post.id : n \in DOMAIN page} = {r.id : r \in {q \in visible : q.kind = "post"}}
       /\ Cardinality(rows) = Len(page) + FoldLeft(LAMBDA sum, t : sum + Len(t.replies), 0, page)
       /\ \A n \in DOMAIN page :
            /\ {page[n].replies[i].id : i \in DOMAIN page[n].replies}
                  = {r.id : r \in {q \in visible : q.kind = "reply" /\ on(q, n)}}
            \* a wallet that likes twice, or whose like is on both lists, counts once
            /\ page[n].likers = {r.by : r \in {q \in visible : q.kind = "like" /\ on(q, n)}}
            \* the page of the post shows the same thread
            /\ GetThread(all, page[n].post.id) = <<page[n]>>
       \* a badge never promises more than was done
       /\ \A r \in rows : /\ Rung(r.badge) <= Rung(thread.progress[r.id])
                          /\ r.badge = "pending" => r.by = thread.viewer

\* A discussion is shown whole.  The comment tree holds every message whose ancestors are all
\* there, once, below its parent, the older reply first, and nothing else; the forum shows every
\* readable post with all its replies and distinct likers on both of its pages; a message on the
\* way from the Poster to the Reader shows once; and a badge never claims what the coprocessor
\* has not done (buildThread, buildThreads, getThread, resolveBadges).
ThreadsAreWhole ==
    thread.shown # Unbuilt =>
        /\ thread.app = "comments" => CommentsAreWhole
        /\ thread.app = "forum" => ForumIsWhole
=============================================================================
