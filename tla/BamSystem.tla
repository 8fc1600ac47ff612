----------------------------- MODULE BamSystem -----------------------------
(***************************************************************************)
(* The Poster and the Reader on one store, as the README of the repository *)
(* deploys them, with another Poster on the same contract.  Both write     *)
(* both tables: the Poster records what it sent itself as soon as it is    *)
(* mined, the Reader whatever is below its safe head; both mark what a     *)
(* fork removed, and only the Poster queues it again.                      *)
(*                                                                         *)
(* The actions are those of the modules Poster and Reader.  The Reader's   *)
(* stand-in for the Poster (PosterRecords) is not used, and the operator's *)
(* commands are left to the Reader's own run.                              *)
(***************************************************************************)
EXTENDS Poster, Reader

systemVars == <<storeVars, l1Vars, posterProcVars, readerProcVars>>

SystemInit == StoreInit /\ L1Init /\ PosterProcInit /\ ReaderProcInit

PosterStep == PosterNext /\ UNCHANGED readerProcVars

Serve == (LiveTail \/ TailThrows \/ ReaderCrash) /\ UNCHANGED posterProcVars

OtherPoster ==
    /\ \E t \in Tx, pack \in AnnouncedPacks : Announce(t, pack)
    /\ UNCHANGED posterProcVars

ChainStep == L1Next /\ UNCHANGED <<storeVars, posterProcVars, readerProcVars>>

SystemNext ==
    \/ PosterStep
    \/ Serve
    \/ OtherPoster
    \/ ChainStep

SystemSpec == SystemInit /\ [][SystemNext]_systemVars

-----------------------------------------------------------------------------
(* Properties *)

RpcFault == faults > 0 /\ "rpc" \in FaultKinds

\* The two writers of messages and batches tell one story.  An accepted message keeps its row,
\* with its own body; a confirmed message names a confirmed batch of its tag that holds it; and
\* unless a fork or a failed receipt lookup undid it, a message of a transaction below the Reader's
\* cursor is confirmed, if its key is not taken by another one: the Poster does not hold it in its
\* queue to post it again, even if it never learnt of the receipt.
OneStory ==
    /\ AckedDurable
    /\ ~Happened({"verify"}) => ConfirmedBacked
    /\ forks = 0 /\ ~RpcFault /\ ~Happened({"decode", "verify", "lookup"}) =>
        \A ev \in Logs(StartBlock, cursor) : \A m \in PackOf(ev.id) :
            messages[m.key].body = m.body => messages[m.key].status = "confirmed"

\* The nonce GET /nonce names is free, so that the next message of a wallet can be accepted
\* (surfaces/nonce.ts: the endpoint is authoritative, callers need not walk pending and confirmed).
NextNonceIsFree ==
    \A s \in Senders :
        nonces[s] # NoNonce /\ nonces[s].lastNonce < MaxNonce =>
            ~Occupied(messages, <<s, nonces[s].lastNonce + 1>>)
=============================================================================
