------------------------------ MODULE Clients ------------------------------
(***************************************************************************)
(* The clients of the services, in the browser: the composers of the       *)
(* demos and of bam-comments, which sign with the next nonce the Poster    *)
(* names and try again when it has gone stale; the feeds, which put the    *)
(* Poster's pending rows and the confirmed rows of Reader or indexer into  *)
(* one list; and the state of the comments widget.                         *)
(*                                                                         *)
(* Poster, Reader and indexer answer here as ReadApi, Intake and Poster    *)
(* describe them, the store's rows being the stage a message has reached.  *)
(***************************************************************************)
EXTENDS Integers, Sequences, FiniteSets, SequencesExt

CONSTANTS
    Runs,              \* submissions of one wallet, from any number of pages
    TextOf,            \* what each posts; two may post the same in the same second
    MaxStaleRetries,
    Apps, FeedIds,     \* the application whose feed is read; the messages in it
    MaxStageMoves, MaxWidgetSteps      \* bounds

ASSUME ClientsAssumption ==
    IsFiniteSet(FeedIds) /\ MaxStaleRetries \in Nat /\ MaxWidgetSteps \in Nat

VARIABLES
    wallet,   \* the Poster's nonce tracker of the wallet, and its submissions
    feed,     \* the stage of each message, and a refresh of a feed
    widget    \* the comments widget of a page

clientVars == <<wallet, feed, widget>>

-----------------------------------------------------------------------------
(***************************************************************************)
(* Submitting.  A run reads the next nonce, signs and posts; the proxy may *)
(* give up on a request that reaches the Poster all the same.              *)
(***************************************************************************)
WalletInit ==
    wallet = [accepted |-> <<>>,      \* accepted[n + 1]: the run whose message has nonce n
              late |-> {},            \* <<run, nonce>> of requests given up but under way
              run |-> [r \in Runs |->
                        [phase |-> "nonce", nonce |-> -1, first |-> -1, attempt |-> 0, told |-> "nothing"]]]
NoWallet == wallet = [accepted |-> <<>>, late |-> {}, run |-> [r \in {} |-> 0]]

Told(r, what) == [wallet EXCEPT !.run[r].phase = "over", !.run[r].told = what]

NextNonce == Len(wallet.accepted)

NextNonceForSender ==
    /\ \E r \in DOMAIN wallet.run :
        /\ wallet.run[r].phase = "nonce"
        /\ \/ wallet' = [wallet EXCEPT
                !.run[r].phase = "posting",
                !.run[r].nonce = NextNonce,
                !.run[r].first = IF wallet.run[r].attempt = 0 THEN NextNonce ELSE @]
           \/ wallet' = Told(r, "error")
    /\ UNCHANGED <<feed, widget>>

\* The Poster's verdict: newer than the tracker, the same as its last message, or stale.  The
\* tracker of a fresh wallet starts at the first nonce.
Answer(r, nonce) ==
    IF nonce >= NextNonce THEN "accepted"
    ELSE IF nonce = NextNonce - 1 /\ TextOf[wallet.accepted[NextNonce]] = TextOf[r] THEN "repeated"
    ELSE "stale_nonce"

PosterTakes(r, nonce) ==
    IF Answer(r, nonce) = "accepted" THEN Append(wallet.accepted, r) ELSE wallet.accepted

Deliver ==
    /\ \E r \in DOMAIN wallet.run :
        /\ wallet.run[r].phase = "posting"
        /\ \/ LET nonce == wallet.run[r].nonce
              IN wallet' = [wallet EXCEPT
                    !.accepted = PosterTakes(r, nonce),
                    !.run[r].phase = IF Answer(r, nonce) = "stale_nonce" THEN "stale" ELSE "ok"]
           \/ wallet' = [wallet EXCEPT !.run[r].phase = "refused"]     \* rate limit, unhealthy, ...
    /\ UNCHANGED <<feed, widget>>

\* The wallet's user declines to sign.
Decline ==
    /\ \E r \in DOMAIN wallet.run : wallet.run[r].phase = "posting" /\ wallet' = Told(r, "error")
    /\ UNCHANGED <<feed, widget>>

\* No answer, or none in time: for the page that is an error, whatever became of the request.
RawFetchTimeout ==
    /\ \E r \in DOMAIN wallet.run :
        /\ wallet.run[r].phase \in {"posting", "ok", "stale", "refused"}
        /\ wallet' = [Told(r, "error") EXCEPT
                        !.late = IF wallet.run[r].phase = "posting" THEN @ \cup {<<r, wallet.run[r].nonce>>}
                                 ELSE @]
    /\ UNCHANGED <<feed, widget>>

DeliverLate ==
    /\ \E request \in wallet.late :
        wallet' = [wallet EXCEPT !.late = @ \ {request},
                                 !.accepted = PosterTakes(request[1], request[2])]
    /\ UNCHANGED <<feed, widget>>

TryAgainAtOnce(r) ==   \* mutant: the retry signs with the nonce it had
    [wallet EXCEPT !.run[r].phase = "posting", !.run[r].attempt = @ + 1]

TryAgain(r) == [wallet EXCEPT !.run[r].phase = "nonce", !.run[r].attempt = @ + 1]

\* The page reads the reply; only a stale nonce is tried again.
React ==
    /\ \E r \in DOMAIN wallet.run :
        \/ wallet.run[r].phase = "ok" /\ wallet' = Told(r, "sent")
        \/ wallet.run[r].phase = "refused" /\ wallet' = Told(r, "refused")
        \/ /\ wallet.run[r].phase = "stale" /\ wallet.run[r].attempt = MaxStaleRetries
           /\ wallet' = Told(r, "stale_nonce")
        \/ /\ wallet.run[r].phase = "stale" /\ wallet.run[r].attempt < MaxStaleRetries
           /\ wallet' = TryAgain(r)
    /\ UNCHANGED <<feed, widget>>

-----------------------------------------------------------------------------
(***************************************************************************)
(* Reading.  A refresh asks for the pending and the confirmed rows at      *)
(* once; the answers come in any order, while messages change stage.       *)
(***************************************************************************)
NoRows == [ok |-> FALSE, rows |-> {}, late |-> {}]
Unasked == [ok |-> FALSE, rows |-> {-1}, late |-> {}]

FeedInit ==
    \E app \in Apps, indexed \in BOOLEAN :
        /\ indexed => app = "twitter"
        /\ feed = [app |-> app, indexer |-> indexed, stage |-> [i \in FeedIds |-> "unsent"],
                   indexed |-> {}, moves |-> 0, moved |-> {}, loading |-> FALSE,
                   pending |-> Unasked, confirmed |-> Unasked, shown |-> <<>>, failed |-> FALSE]
NoFeed == feed = [app |-> "none"]

\* Accepted, included, included and linked to its batch, taken out by a fork, queued again.
StageMoves == {<<"unsent", "pending">>, <<"pending", "confirmed">>, <<"pending", "no batch">>,
               <<"no batch", "confirmed">>, <<"confirmed", "reorged">>, <<"reorged", "pending">>}

Move ==
    /\ feed.app # "none" /\ feed.moves < MaxStageMoves
    /\ \E i \in FeedIds, move \in StageMoves :
        /\ feed.stage[i] = move[1]
        /\ feed' = [feed EXCEPT !.moves = @ + 1, !.stage[i] = move[2], !.moved = @ \cup {i},
                                !.indexed = @ \ {i}]
    /\ UNCHANGED <<wallet, widget>>

\* The indexer projects a confirmed message some time after the Reader has it.
Project ==
    /\ feed.app # "none" /\ feed.indexer
    /\ \E i \in FeedIds \ feed.indexed :
        /\ feed.stage[i] = "confirmed"
        /\ feed' = [feed EXCEPT !.indexed = @ \cup {i}, !.moved = @ \cup {i}]
    /\ UNCHANGED <<wallet, widget>>

Refresh ==
    /\ feed.app # "none" /\ ~feed.loading
    /\ feed' = [feed EXCEPT !.loading = TRUE, !.pending = Unasked, !.confirmed = Unasked, !.moved = {},
                            !.shown = <<>>, !.failed = FALSE]
    /\ UNCHANGED <<wallet, widget>>

Staged(stage) == {i \in FeedIds : feed.stage[i] = stage}

FetchPending ==
    /\ feed.app # "none" /\ feed.loading /\ feed.pending = Unasked
    /\ \/ feed' = [feed EXCEPT !.pending = [ok |-> TRUE, rows |-> Staged("pending"), late |-> {}]]
       \/ feed' = [feed EXCEPT !.pending = NoRows]
    /\ UNCHANGED <<wallet, widget>>

\* Of the indexer when there is one and it answers, else of the Reader.  "late" is what the
\* Reader has and the indexer has not.
FetchConfirmed ==
    /\ feed.app # "none" /\ feed.loading /\ feed.confirmed = Unasked
    /\ \/ /\ feed.indexer
          /\ feed' = [feed EXCEPT !.confirmed = [ok |-> TRUE, rows |-> feed.indexed,
                                                 late |-> Staged("confirmed") \ feed.indexed]]
       \/ feed' = [feed EXCEPT !.confirmed = [ok |-> TRUE, rows |-> Staged("confirmed"), late |-> {}]]
       \/ feed' = [feed EXCEPT !.confirmed = NoRows]
    /\ UNCHANGED <<wallet, widget>>

Rows(ids, status) == SetToSeq({[id |-> i, status |-> status] : i \in ids})

\* message-in-a-blobble lists what it got.
FetchMessages(pending, confirmed) == Rows(pending, "pending") \o Rows(confirmed, "posted")

\* bam-twitter, the forum and bam-comments: a confirmed row stands for its pending mirror.
FetchTweets(pending, confirmed) == Rows(confirmed, "posted") \o Rows(pending \ confirmed, "pending")

Show ==
    /\ feed.app # "none" /\ feed.loading /\ feed.pending # Unasked /\ feed.confirmed # Unasked
    /\ LET merge(p, c) == IF feed.app = "blobble" THEN FetchMessages(p, c) ELSE FetchTweets(p, c)
       IN \/ /\ feed.app = "comments" /\ ~feed.confirmed.ok     \* Promise.all rejects
             /\ feed' = [feed EXCEPT !.loading = FALSE, !.failed = TRUE]
          \/ /\ feed.app # "comments" \/ feed.confirmed.ok
             /\ feed' = [feed EXCEPT !.loading = FALSE,
                            !.shown = merge(feed.pending.rows, feed.confirmed.rows)]
    /\ UNCHANGED <<wallet, widget>>

-----------------------------------------------------------------------------
(***************************************************************************)
(* The comments widget.  Its buttons are what the state lets it show.  A   *)
(* draft is a number, 0 an empty one; a submission under way has the epoch *)
(* and the draft it began with.                                            *)
(***************************************************************************)
NoDraft == -1

WidgetInit ==
    widget = [account |-> FALSE, manual |-> FALSE, connects |-> 0, epoch |-> 0, composing |-> NoDraft,
              drafts |-> 0, submitting |-> FALSE, error |-> FALSE, under |-> {}, steps |-> 0,
              clobbered |-> FALSE]
NoWidget == widget = [steps |-> MaxWidgetSteps + 1]

WidgetStep(w) ==
    /\ widget.steps < MaxWidgetSteps
    /\ widget' = [w EXCEPT !.steps = @ + 1]
    /\ UNCHANGED <<wallet, feed>>

\* The button Connect: the wallet is asked for an account and for Sepolia.  Nothing takes back a
\* request under way: answered after a Disconnect it brings the account back.
OnConnect ==
    /\ widget.steps < MaxWidgetSteps /\ ~widget.account
    /\ WidgetStep([widget EXCEPT !.manual = FALSE, !.error = FALSE, !.connects = @ + 1])

Connected ==
    /\ widget.steps < MaxWidgetSteps
    /\ widget.connects > 0
    /\ \/ WidgetStep([widget EXCEPT !.connects = @ - 1, !.account = TRUE])
       \/ WidgetStep([widget EXCEPT !.connects = @ - 1, !.error = TRUE])

OnDisconnect ==
    /\ widget.steps < MaxWidgetSteps /\ widget.account
    /\ WidgetStep([widget EXCEPT !.epoch = @ + 1, !.manual = TRUE, !.account = FALSE,
                    !.composing = NoDraft, !.error = FALSE, !.submitting = FALSE])

\* accountsChanged, and readExistingAccount at the start, with an account or with none.
AccountsChanged ==
    /\ widget.steps < MaxWidgetSteps
    /\ \/ ~widget.manual /\ WidgetStep([widget EXCEPT !.account = TRUE])
       \/ WidgetStep([widget EXCEPT !.account = FALSE, !.composing = NoDraft])

\* "Leave a comment" and "Reply" keep the text of an open draft.
OnStartCompose ==
    /\ widget.steps < MaxWidgetSteps /\ widget.account
    /\ WidgetStep([widget EXCEPT !.error = FALSE, !.composing = IF @ = NoDraft THEN 0 ELSE @])

OnCancelCompose ==
    /\ widget.steps < MaxWidgetSteps
    /\ widget.account /\ widget.composing # NoDraft /\ ~widget.submitting
    /\ WidgetStep([widget EXCEPT !.composing = NoDraft])

OnDraftChange ==
    /\ widget.steps < MaxWidgetSteps
    /\ widget.account /\ widget.composing # NoDraft /\ ~widget.submitting
    /\ WidgetStep([widget EXCEPT !.drafts = @ + 1, !.composing = widget.drafts + 1])

OnSubmit ==
    /\ widget.steps < MaxWidgetSteps
    /\ widget.account /\ widget.composing > 0 /\ ~widget.submitting
    /\ WidgetStep([widget EXCEPT !.submitting = TRUE, !.error = FALSE,
                    !.under = @ \cup {[epoch |-> widget.epoch, draft |-> widget.composing]}])

Superseded(run) == run.epoch # widget.epoch

\* The submission ends, well or not; after a Disconnect it leaves the page alone.
SubmitEnds ==
    /\ widget.steps < MaxWidgetSteps
    /\ \E run \in widget.under :
        LET over == [widget EXCEPT !.under = @ \ {run}]
        IN \/ Superseded(run) /\ WidgetStep(over)
           \/ /\ ~Superseded(run)
              /\ WidgetStep([over EXCEPT !.composing = NoDraft, !.submitting = FALSE,
                                !.clobbered = @ \/ widget.composing \notin {NoDraft, 0, run.draft}])
           \/ ~Superseded(run) /\ WidgetStep([over EXCEPT !.submitting = FALSE, !.error = TRUE])

ClientsNext ==
    \/ NextNonceForSender
    \/ Deliver
    \/ Decline
    \/ RawFetchTimeout
    \/ DeliverLate
    \/ React
    \/ Move
    \/ Project
    \/ Refresh
    \/ FetchPending
    \/ FetchConfirmed
    \/ Show
    \/ OnConnect
    \/ Connected
    \/ OnDisconnect
    \/ AccountsChanged
    \/ OnStartCompose
    \/ OnCancelCompose
    \/ OnDraftChange
    \/ OnSubmit
    \/ SubmitEnds

\* A wallet, a feed and a widget, any of them absent.
ClientsInit == (WalletInit \/ NoWallet) /\ (FeedInit \/ NoFeed) /\ (WidgetInit \/ NoWidget)
ClientsSpec == ClientsInit /\ [][ClientsNext]_clientVars

-----------------------------------------------------------------------------
(***************************************************************************)
(* Properties.                                                             *)
(***************************************************************************)
\* A feed lists a message once; in message-in-a-blobble one that changed its stage during the
\* refresh may show twice.  And none is missing that kept its stage while the feed was read: a
\* pending one, if the Poster answered, and a confirmed one, if the Reader did or the indexer with
\* it already projected.
FeedIsWhole ==
    feed.app # "none" /\ ~feed.loading /\ feed.pending # Unasked /\ ~feed.failed =>
        LET at(i) == {n \in DOMAIN feed.shown : feed.shown[n].id = i}
            calm == FeedIds \ feed.moved
        IN /\ \A i \in FeedIds :
                Cardinality(at(i)) > 1 => feed.app = "blobble" /\ i \in feed.moved
           /\ feed.pending.ok => \A i \in calm \cap Staged("pending") : at(i) # {}
           /\ feed.confirmed.ok =>
                \A i \in (calm \cap Staged("confirmed")) \ feed.confirmed.late : at(i) # {}

\* What a composer tells its user is so, whatever the other pages of the wallet post and whatever
\* replies are lost.  A run has at most one message accepted; "sent" means its text is on the
\* Poster under a nonce the run asked for; "stale_nonce" that nothing of it was accepted, and that
\* in each of its MaxStaleRetries + 1 attempts another message took the nonce.  In the comments
\* widget the form is busy exactly while a submission of this session is under way, and the end of
\* a submission never clears another text.  And the feed the user reads is whole.
UserIsToldTheTruth ==
    /\ FeedIsWhole
    /\ \A r \in DOMAIN wallet.run :
        LET run == wallet.run[r]
            own == {n \in DOMAIN wallet.accepted : wallet.accepted[n] = r}
            same == {n \in DOMAIN wallet.accepted : TextOf[wallet.accepted[n]] = TextOf[r]}
            passed == {n \in DOMAIN wallet.accepted : n > run.first}
        IN /\ Cardinality(own) <= 1
           /\ run.told = "sent" => \E n \in same : n > run.first
           /\ run.told \in {"stale_nonce", "refused"} => own = {}
           /\ run.told = "stale_nonce" => Cardinality(passed) > MaxStaleRetries
    /\ widget.steps <= MaxWidgetSteps =>
        /\ widget.submitting <=> \E run \in widget.under : run.epoch = widget.epoch
        /\ ~widget.clobbered
=============================================================================
