------------------------------ MODULE Exposure ------------------------------
(***************************************************************************)
(* The application layer of bam-contracts: SocialBlobsCore announces       *)
(* content to SimpleBoolVerifier, BLSExposer exposes a message of          *)
(* announced content under its sender's BLS key and records it in          *)
(* ExposureRecord, DisputeManager takes challenges of recorded exposures,  *)
(* StakeManager holds stakes for them and DictionaryRegistry lists         *)
(* compression dictionaries.  A call that reverts changes nothing, so      *)
(* every require is a guard; an ether transfer that the payee refuses      *)
(* reverts the call it is part of.                                         *)
(***************************************************************************)
EXTENDS Registries

CONSTANTS
    Messages,        \* messageIds: keccak(sender, contentTag, nonce, contentHash)
    SenderOf,        \* the sender a message names
    ContentOf,       \* the content hash of the batch that carries it
    BlobContents,    \* content hashes that are versioned hashes of blobs
    RecordsExposures, \* whether the exposer was deployed with an ExposureRecord
    Core, Exposer,   \* addresses of SocialBlobsCore and BLSExposer
    OtherCore,       \* another address the deployer may configure
    ContractOwner,   \* owner of the Ownable contracts
    Accounts,        \* accounts that stake, challenge and resolve
    Refusing,        \* accounts that accept no ether
    Amounts,         \* msg.value and the required stakes
    ChallengeWindows,         \* challenge windows the owner may set
    DefaultStake, DefaultWindow, WithdrawalDelay, ResolutionPeriod,
    MaxTime          \* bound: block.timestamp

Contents == {ContentOf[m] : m \in Messages}

ASSUME ExposureAssumption ==
    /\ SenderOf \in [Messages -> Owners]
    /\ RecordsExposures \in BOOLEAN
    /\ Refusing \subseteq Accounts /\ ContractOwner \in Accounts
    /\ Exposer \notin Accounts \cup {NoKey}   \* nobody holds the key of a contract's address
    /\ Amounts \subseteq Nat \ {0} /\ DefaultStake \in Amounts
    /\ ChallengeWindows \subseteq Nat /\ DefaultWindow \in ChallengeWindows
    /\ WithdrawalDelay \in Nat /\ ResolutionPeriod \in Nat /\ MaxTime \in Nat \ {0}

VARIABLES
    now,             \* block.timestamp
    verifierCore,    \* SimpleBoolVerifier.core
    registered,      \* SimpleBoolVerifier._registered
    announced,       \* contents of the core's BlobRegistered and CalldataRegistered events
    exposed,         \* BLSExposer._exposed
    exposures,       \* ExposureRecord._exposures
    exposedHashes,   \* ExposureRecord._exposedHashes
    disputes,        \* DisputeManager._disputes
    disputeStakes,   \* DisputeManager._stakes
    disputeBalance,  \* ether held by DisputeManager
    window,          \* DisputeManager._challengeWindow
    challengeStake,  \* DisputeManager._challengeStake
    resolvers,       \* DisputeManager.authorizedResolvers
    stakes,          \* StakeManager._stakes
    stakeBalance,    \* ether held by StakeManager
    exposureStake,   \* StakeManager._exposureStake
    disputeManager,  \* StakeManager.disputeManager
    dictionaries,    \* DictionaryRegistry._dictionaries
    dictionaryList   \* DictionaryRegistry._registeredHashes

verifierVars == <<verifierCore, registered, announced>>
recordVars == <<exposures, exposedHashes>>
disputeVars == <<disputes, disputeStakes, disputeBalance, window, challengeStake, resolvers>>
stakeVars == <<stakes, stakeBalance, exposureStake, disputeManager>>
dictionaryVars == <<dictionaries, dictionaryList>>
exposureVars == <<now, verifierVars, exposed, recordVars, disputeVars, stakeVars, dictionaryVars>>
chainVars == <<registryVars, exposureVars>>

NotRecorded == [sender |-> NoKey, at |-> 0, by |-> NoKey]
NoDispute == [challenger |-> NoKey, deadline |-> 0, status |-> "none"]
NoStake == [staker |-> NoKey, amount |-> 0, at |-> 0, active |-> FALSE]
NoDictionary == [at |-> 0, active |-> FALSE]

ExposureInit ==
    /\ now = 1
    /\ verifierCore = NoKey /\ registered = {} /\ announced = {}
    /\ exposed = {}
    /\ exposures = [m \in Messages |-> NotRecorded] /\ exposedHashes = <<>>
    /\ disputes = [m \in Messages |-> NoDispute]
    /\ disputeStakes = [m \in Messages |-> 0] /\ disputeBalance = 0
    /\ window = DefaultWindow /\ challengeStake = DefaultStake /\ resolvers = {ContractOwner}
    /\ stakes = [m \in Messages |-> NoStake] /\ stakeBalance = 0
    /\ exposureStake = DefaultStake /\ disputeManager = NoKey
    /\ dictionaries = [c \in Contents |-> NoDictionary] /\ dictionaryList = <<>>

Pays(payee) == payee \notin Refusing

PassTime == /\ now < MaxTime
        /\ now' = now + 1
        /\ UNCHANGED <<registryVars, verifierVars, exposed, recordVars, disputeVars, stakeVars, dictionaryVars>>

-----------------------------------------------------------------------------
(***************************************************************************)
(* SocialBlobsCore and SimpleBoolVerifier: the core calls the verifier's   *)
(* hook in the same transaction, and the verifier takes it from the one    *)
(* core its deployer set.                                                  *)
(***************************************************************************)
SetCore(core) ==
    /\ verifierCore = NoKey
    /\ verifierCore' = core
    /\ UNCHANGED <<registryVars, now, registered, announced, exposed, recordVars, disputeVars, stakeVars, dictionaryVars>>

OnRegistered(caller, content) ==
    /\ caller = verifierCore
    /\ registered' = registered \cup {content}

\* registerBlob and registerCalldata: the event and the hook, or neither.
RegisterContent(content) ==
    /\ OnRegistered(Core, content)
    /\ announced' = announced \cup {content}
    /\ UNCHANGED <<registryVars, now, verifierCore, exposed, recordVars, disputeVars, stakeVars, dictionaryVars>>

\* The hook called by a core the verifier was configured with by mistake.
RegisterElsewhere(content) ==
    /\ OnRegistered(OtherCore, content)
    /\ UNCHANGED <<registryVars, now, verifierCore, announced, exposed, recordVars, disputeVars, stakeVars, dictionaryVars>>

-----------------------------------------------------------------------------
(***************************************************************************)
(* ExposureRecord.record, open to any caller; the first record stands.     *)
(***************************************************************************)
IsExposed(m) == exposures[m].at > 0

Store(m, sender, caller) ==
    /\ exposures' = [exposures EXCEPT ![m] = [sender |-> sender, at |-> now, by |-> caller]]
    /\ exposedHashes' = Append(exposedHashes, m)

Record(m, sender, caller) ==
    /\ ~IsExposed(m)
    /\ Store(m, sender, caller)
    /\ UNCHANGED <<registryVars, now, verifierVars, exposed, disputeVars, stakeVars, dictionaryVars>>

-----------------------------------------------------------------------------
(***************************************************************************)
(* BLSExposer.  The signature check calls BLSVerifier.verify through       *)
(* try/catch: a verification that reverts, because the precompiles are     *)
(* absent or the point does not decode, counts as valid.                   *)
(***************************************************************************)
SignatureVerdict(m, sig) ==
    IF ~Precompiles \/ sig = NoSignature THEN "reverts"
    ELSE IF BLSVerify(BLSGetKey(SenderOf[m]), m, sig) THEN "valid" ELSE "invalid"

VerifySignature(m, sig) ==
    /\ BLSGetKey(SenderOf[m]) # NoKey
    /\ SignatureVerdict(m, sig) \in {"valid", "reverts"}

RecordExposureAlways(m) ==    \* mutant: the record is not first come
    IF RecordsExposures THEN Store(m, SenderOf[m], Exposer) ELSE UNCHANGED recordVars

\* The record may revert because the message is recorded already: swallowed.
RecordExposure(m) ==
    IF RecordsExposures /\ ~IsExposed(m) THEN Store(m, SenderOf[m], Exposer) ELSE UNCHANGED recordVars

MarkExposed(m, sig) ==
    /\ ContentOf[m] \in registered
    /\ m \notin exposed
    /\ VerifySignature(m, sig)
    /\ exposed' = exposed \cup {m}
    /\ RecordExposure(m)
    /\ UNCHANGED <<registryVars, now, verifierVars, disputeVars, stakeVars, dictionaryVars>>

\* The field elements opened by the KZG proofs hold the message bytes.
Expose(m, sig) == ContentOf[m] \in BlobContents /\ MarkExposed(m, sig)

\* The batch whose hash is registered holds the message bytes at the offset.
ExposeFromCalldata(m, sig) == ContentOf[m] \notin BlobContents /\ MarkExposed(m, sig)

-----------------------------------------------------------------------------
(***************************************************************************)
(* DisputeManager                                                          *)
(***************************************************************************)
Challenged(m) == disputes[m].status = "challenged"

Challenge(m, challenger, value) ==
    /\ IsExposed(m)
    /\ ~Challenged(m)
    /\ now <= exposures[m].at + window
    /\ value >= challengeStake
    /\ disputes' = [disputes EXCEPT ![m] =
          [challenger |-> challenger, deadline |-> now + ResolutionPeriod, status |-> "challenged"]]
    /\ disputeStakes' = [disputeStakes EXCEPT ![m] = value]
    /\ disputeBalance' = disputeBalance + value
    /\ UNCHANGED <<registryVars, now, verifierVars, exposed, recordVars, window, challengeStake, resolvers,
                   stakeVars, dictionaryVars>>

\* The stake leaves the contract with the verdict.
Settle(m, status, payee) ==
    /\ Challenged(m)
    /\ Pays(payee)
    /\ disputes' = [disputes EXCEPT ![m].status = status]
    /\ disputeStakes' = [disputeStakes EXCEPT ![m] = 0]
    /\ disputeBalance' = disputeBalance - disputeStakes[m]
    /\ UNCHANGED <<registryVars, now, verifierVars, exposed, recordVars, window, challengeStake, resolvers,
                   stakeVars, dictionaryVars>>

Resolve(m, resolver, valid) ==
    /\ resolver \in resolvers
    /\ IF valid THEN Settle(m, "resolved", ContractOwner)
                ELSE Settle(m, "rejected", disputes[m].challenger)

ClaimExpiredDispute(m) ==
    /\ now >= disputes[m].deadline
    /\ Settle(m, "rejected", disputes[m].challenger)

\* The owner's setters: setChallengeWindow, setChallengeStake, addResolver, removeResolver.
AdministerDisputes ==
    /\ \/ window' \in ChallengeWindows /\ UNCHANGED <<challengeStake, resolvers>>
       \/ challengeStake' \in Amounts /\ UNCHANGED <<window, resolvers>>
       \/ \E account \in Accounts : /\ resolvers' \in {resolvers \cup {account}, resolvers \ {account}}
                                    /\ UNCHANGED <<window, challengeStake>>
    /\ UNCHANGED <<registryVars, now, verifierVars, exposed, recordVars, disputes, disputeStakes, disputeBalance,
                   stakeVars, dictionaryVars>>

-----------------------------------------------------------------------------
(***************************************************************************)
(* StakeManager                                                            *)
(***************************************************************************)
Deposit(m, staker, value) ==
    /\ value >= exposureStake
    /\ ~stakes[m].active
    /\ stakes' = [stakes EXCEPT ![m] = [staker |-> staker, amount |-> value, at |-> now, active |-> TRUE]]
    /\ stakeBalance' = stakeBalance + value
    /\ UNCHANGED <<registryVars, now, verifierVars, exposed, recordVars, disputeVars, exposureStake, disputeManager,
                   dictionaryVars>>

ReleaseStillActive(m, payee) ==    \* mutant: the record stays active
    /\ stakes[m].active
    /\ Pays(payee)
    /\ UNCHANGED stakes
    /\ stakeBalance' = stakeBalance - stakes[m].amount
    /\ UNCHANGED <<registryVars, now, verifierVars, exposed, recordVars, disputeVars, exposureStake, disputeManager,
                   dictionaryVars>>

\* withdraw and slash: the record keeps its staker and its date, and the whole amount is paid.
Release(m, payee) ==
    /\ stakes[m].active
    /\ Pays(payee)
    /\ stakes' = [stakes EXCEPT ![m].active = FALSE, ![m].amount = 0]
    /\ stakeBalance' = stakeBalance - stakes[m].amount
    /\ UNCHANGED <<registryVars, now, verifierVars, exposed, recordVars, disputeVars, exposureStake, disputeManager,
                   dictionaryVars>>

Withdraw(m, staker) ==
    /\ stakes[m].staker = staker
    /\ now >= stakes[m].at + WithdrawalDelay
    /\ Release(m, staker)

Slash(m, caller, challenger) ==
    /\ caller = disputeManager
    /\ Release(m, challenger)

AdministerStakes ==
    /\ \/ exposureStake' \in Amounts /\ UNCHANGED disputeManager
       \/ disputeManager' \in Accounts /\ UNCHANGED exposureStake
    /\ UNCHANGED <<registryVars, now, verifierVars, exposed, recordVars, disputeVars, stakes, stakeBalance,
                   dictionaryVars>>

-----------------------------------------------------------------------------
(***************************************************************************)
(* DictionaryRegistry                                                      *)
(***************************************************************************)
RegisterDictionary(c) ==
    /\ dictionaries[c].at = 0
    /\ dictionaries' = [dictionaries EXCEPT ![c] = [at |-> now, active |-> TRUE]]
    /\ dictionaryList' = Append(dictionaryList, c)
    /\ UNCHANGED <<registryVars, now, verifierVars, exposed, recordVars, disputeVars, stakeVars>>

DeactivateDictionary(c) ==
    /\ dictionaries[c].active
    /\ dictionaries' = [dictionaries EXCEPT ![c].active = FALSE]
    /\ UNCHANGED <<registryVars, now, verifierVars, exposed, recordVars, disputeVars, stakeVars, dictionaryList>>

ActiveDictionaryCount == Cardinality({i \in DOMAIN dictionaryList : dictionaries[dictionaryList[i]].active})

-----------------------------------------------------------------------------
(***************************************************************************)
(* What the callers do, by the contracts they call.                        *)
(***************************************************************************)
ExposeNext ==
    \/ \E o \in Owners, k \in Keys, pop \in BLSProofs : BLSRegister(o, k, pop) /\ UNCHANGED exposureVars
    \/ \E o \in Owners : BLSRevoke(o) /\ UNCHANGED exposureVars
    \/ \E core \in {Core, OtherCore} : SetCore(core)
    \/ \E c \in Contents : RegisterContent(c) \/ RegisterElsewhere(c)
    \/ \E m \in Messages, o \in Owners, a \in Accounts : Record(m, o, a)
    \/ \E m \in Messages : \E sig \in {NoSignature} \cup {Signature(k, m) : k \in Keys} :
         Expose(m, sig) \/ ExposeFromCalldata(m, sig)

DisputeNext ==
    \/ PassTime
    \/ \E m \in Messages, a \in Accounts : Record(m, SenderOf[m], a)
    \/ \E m \in Messages, a \in Accounts, v \in Amounts : Challenge(m, a, v)
    \/ \E m \in Messages, a \in Accounts, valid \in BOOLEAN : Resolve(m, a, valid)
    \/ \E m \in Messages : ClaimExpiredDispute(m)
    \/ AdministerDisputes

StakeNext ==
    \/ PassTime
    \/ \E m \in Messages, a \in Accounts, v \in Amounts : Deposit(m, a, v)
    \/ \E m \in Messages, a \in Accounts : Withdraw(m, a)
    \/ \E m \in Messages, a, c \in Accounts : Slash(m, a, c)
    \/ AdministerStakes

DictionaryNext ==
    \/ PassTime
    \/ \E c \in Contents : RegisterDictionary(c) \/ DeactivateDictionary(c)

\* All of the contracts at once.
ExposureNext ==
    \/ RegistriesNext /\ UNCHANGED exposureVars
    \/ ExposeNext \/ DisputeNext \/ StakeNext \/ DictionaryNext

ExposureSpec == RegistriesInit /\ ExposureInit /\ [][ExposureNext]_chainVars

-----------------------------------------------------------------------------
(***************************************************************************)
(* What the contracts promise.                                             *)
(***************************************************************************)
\* Each wei that is held for an open case, named by the case.
Wei(amount, open) == UNION {{m} \X (1 .. amount[m]) : m \in open}
StakedWei == Wei([m \in Messages |-> stakes[m].amount], {m \in Messages : stakes[m].active})
DisputedWei == Wei(disputeStakes, {m \in Messages : Challenged(m)})

\* The contracts hold exactly the ether of the stakes and disputes that are open, whatever was
\* deposited, withdrawn, slashed, challenged, resolved or claimed, and whichever payee refused
\* (StakeManager.withdraw and slash, DisputeManager.resolve and claimExpiredDispute).
EscrowConserved ==
    /\ stakeBalance = Cardinality(StakedWei)
    /\ disputeBalance = Cardinality(DisputedWei)
    /\ \A m \in Messages : ~Challenged(m) => disputeStakes[m] = 0

\* Each step of an exposure rests on the one before.  What the core announced the verifier knows,
\* also before the deployer has connected the two; an exposed message is of registered content and
\* has a record, its own or an earlier one that made the exposer's revert; a record in the exposer's
\* name is of a message it exposed; the lists of records and of dictionaries name each once
\* (SocialBlobsCore.registerBlob, BLSExposer._recordExposure, ExposureRecord.record).
ExposuresRecorded ==
    /\ announced \subseteq registered
    /\ \A m \in exposed : ContentOf[m] \in registered
    /\ RecordsExposures => \A m \in exposed : IsExposed(m)
    /\ \A m \in Messages : exposures[m].by = Exposer => m \in exposed /\ exposures[m].sender = SenderOf[m]
    /\ \A m \in Messages : Cardinality({i \in DOMAIN exposedHashes : exposedHashes[i] = m})
                              = IF IsExposed(m) THEN 1 ELSE 0
    /\ ActiveDictionaryCount = Cardinality({c \in Contents : dictionaries[c].active})
=============================================================================
