----------------------------- MODULE Registries -----------------------------
(***************************************************************************)
(* The signature registries of bam-contracts and the dispatcher that       *)
(* routes to them.  A transaction that reverts changes nothing, so each    *)
(* action is a call that succeeds and the require's are its guards.        *)
(*                                                                         *)
(* An address is a model value and stands for the key pair behind it; a    *)
(* signature is the pair of the key that made it and what it signs, so     *)
(* that recovering a signature over another message never yields the       *)
(* signer.                                                                 *)
(***************************************************************************)
EXTENDS Naturals, Sequences, FiniteSets

CONSTANTS
    Owners,             \* accounts that call the registries
    Keys,               \* public keys: delegate addresses and BLS points
    NoKey,              \* address(0), or the empty bytes of an absent key
    Consents,           \* pairs of a key and an owner whose holder signs the proof of possession
    Schemes,            \* scheme identifiers
    RegistryContracts,  \* contracts that may be registered for a scheme
    SchemeIdOf,         \* what each of them answers to schemeId()
    NoRegistry,         \* an entry of registries that was never written
    Precompiles,        \* whether the chain has the EIP-2537 precompiles
    MaxIndex            \* bound: registrations and rotations of each registry

ASSUME RegistriesAssumption ==
    /\ NoKey \notin Keys \cup Owners
    /\ Consents \subseteq Keys \X Owners
    /\ SchemeIdOf \in [RegistryContracts -> Schemes]
    /\ NoRegistry \notin RegistryContracts
    /\ Precompiles \in BOOLEAN
    /\ MaxIndex \in Nat

VARIABLES
    delegate,        \* ECDSARegistry._delegate
    index,           \* ECDSARegistry._index
    indexToOwner,    \* ECDSARegistry._indexToOwner
    nextIndex,       \* ECDSARegistry._nextIndex
    blsKeys,         \* BLSRegistry._keys
    blsIndexToOwner, \* BLSRegistry._indexToOwner
    blsNextIndex,    \* BLSRegistry._nextIndex
    registries,      \* SignatureRegistryDispatcher.registries
    registeredSchemes \* SignatureRegistryDispatcher.registeredSchemes

ecdsaVars == <<delegate, index, indexToOwner, nextIndex>>
blsVars == <<blsKeys, blsIndexToOwner, blsNextIndex>>
dispatcherVars == <<registries, registeredSchemes>>
registryVars == <<ecdsaVars, blsVars, dispatcherVars>>

Signature(by, of) == [by |-> by, of |-> of]
NoSignature == Signature(NoKey, NoKey)   \* wrong length, high s, or not a point

Indexes == 1 .. MaxIndex
BLSRecord == [pubKey : Keys \cup {NoKey}, index : 0 .. MaxIndex, revoked : BOOLEAN]

RegistriesInit ==
    /\ delegate = [o \in Owners |-> NoKey]
    /\ index = [o \in Owners |-> 0]
    /\ indexToOwner = [i \in Indexes |-> NoKey]
    /\ nextIndex = 1
    /\ blsKeys = [o \in Owners |-> [pubKey |-> NoKey, index |-> 0, revoked |-> FALSE]]
    /\ blsIndexToOwner = [i \in Indexes |-> NoKey]
    /\ blsNextIndex = 1
    /\ registries = [s \in Schemes |-> NoRegistry]
    /\ registeredSchemes = <<>>

-----------------------------------------------------------------------------
(***************************************************************************)
(* ECDSARegistry                                                           *)
(***************************************************************************)

\* ECDSA.tryRecover succeeds and yields `expected`, which is never address(0).
RecoverMatches(sig, message, expected) ==
    /\ sig.by # NoKey
    /\ sig.by = expected /\ sig.of = message

\* The proof of possession binds a delegate to the scheme, this registry and one owner.
VerifyPopOfAnyOwner(candidate, owner, pop) == pop.by = candidate   \* mutant: owner not bound
VerifyPop(candidate, owner, pop) == RecoverMatches(pop, <<"ecdsa-pop", owner>>, candidate)

\* What register and rotate store: a fresh index, in both directions.
BindDelegate(owner, candidate) ==
    /\ nextIndex \in Indexes
    /\ delegate' = [delegate EXCEPT ![owner] = candidate]
    /\ index' = [index EXCEPT ![owner] = nextIndex]
    /\ nextIndex' = nextIndex + 1
    /\ UNCHANGED <<blsVars, dispatcherVars>>

Register(owner, candidate, pop) ==
    /\ delegate[owner] = NoKey
    /\ VerifyPop(candidate, owner, pop)
    /\ BindDelegate(owner, candidate)
    /\ indexToOwner' = [indexToOwner EXCEPT ![nextIndex] = owner]

RotateLeavingIndex(owner, candidate, pop) ==    \* mutant: the old index still resolves
    /\ delegate[owner] # NoKey
    /\ VerifyPop(candidate, owner, pop)
    /\ BindDelegate(owner, candidate)
    /\ indexToOwner' = [indexToOwner EXCEPT ![nextIndex] = owner]

\* The index bound so far is cleared before the new one is written.
Rotate(owner, candidate, pop) ==
    /\ delegate[owner] # NoKey
    /\ VerifyPop(candidate, owner, pop)
    /\ BindDelegate(owner, candidate)
    /\ indexToOwner' = [indexToOwner EXCEPT ![index[owner]] = NoKey, ![nextIndex] = owner]

\* A keyless owner verifies as itself.
VerifyWithRegisteredKey(owner, message, sig) ==
    RecoverMatches(sig, message, IF delegate[owner] # NoKey THEN delegate[owner] ELSE owner)

-----------------------------------------------------------------------------
(***************************************************************************)
(* BLSRegistry                                                             *)
(***************************************************************************)

\* BLSVerifier.verify returns true; without the precompiles it reverts.
BLSVerify(key, message, sig) == Precompiles /\ sig = Signature(key, message)

BLSPop(owner, key) == <<"bls-pop", owner, key>>

BLSGetKey(owner) == IF blsKeys[owner].revoked THEN NoKey ELSE blsKeys[owner].pubKey

BLSRegister(owner, key, pop) ==
    /\ blsKeys[owner].pubKey = NoKey
    /\ BLSVerify(key, BLSPop(owner, key), pop)
    /\ blsNextIndex \in Indexes
    /\ blsKeys' = [blsKeys EXCEPT ![owner] =
                     [pubKey |-> key, index |-> blsNextIndex, revoked |-> FALSE]]
    /\ blsIndexToOwner' = [blsIndexToOwner EXCEPT ![blsNextIndex] = owner]
    /\ blsNextIndex' = blsNextIndex + 1
    /\ UNCHANGED <<ecdsaVars, dispatcherVars>>

BLSRotate(owner, key, pop) ==
    /\ blsKeys[owner].pubKey # NoKey
    /\ ~blsKeys[owner].revoked
    /\ BLSVerify(key, BLSPop(owner, key), pop)
    /\ blsKeys' = [blsKeys EXCEPT ![owner].pubKey = key]
    /\ UNCHANGED <<ecdsaVars, blsIndexToOwner, blsNextIndex, dispatcherVars>>

BLSRevoke(owner) ==
    /\ blsKeys[owner].pubKey # NoKey
    /\ ~blsKeys[owner].revoked
    /\ blsKeys' = [blsKeys EXCEPT ![owner].revoked = TRUE]
    /\ UNCHANGED <<ecdsaVars, blsIndexToOwner, blsNextIndex, dispatcherVars>>

\* A call that does not revert NotRegistered and returns true.
BLSVerifyWithRegisteredKey(owner, message, sig) ==
    BLSGetKey(owner) # NoKey /\ BLSVerify(blsKeys[owner].pubKey, message, sig)

-----------------------------------------------------------------------------
(***************************************************************************)
(* SignatureRegistryDispatcher: whoever comes first registers a scheme,    *)
(* with a contract that answers its identifier.                            *)
(***************************************************************************)
IsSchemeRegistered(scheme) == registries[scheme] # NoRegistry

RegisterScheme(scheme, registry) ==
    /\ ~IsSchemeRegistered(scheme)
    /\ SchemeIdOf[registry] = scheme
    /\ registries' = [registries EXCEPT ![scheme] = registry]
    /\ registeredSchemes' = Append(registeredSchemes, scheme)
    /\ UNCHANGED <<ecdsaVars, blsVars>>

-----------------------------------------------------------------------------
(* The holder of a key signs a proof for the owners it consents to; anyone *)
(* may present any proof, or none that recovers.                           *)
ECDSAProofs == {Signature(c[1], <<"ecdsa-pop", c[2]>>) : c \in Consents}
BLSProofs == {Signature(c[1], BLSPop(c[2], c[1])) : c \in Consents}

RegistriesNext ==
    \/ \E o \in Owners, k \in Keys, pop \in ECDSAProofs \cup {NoSignature} :
         Register(o, k, pop) \/ Rotate(o, k, pop)
    \/ \E o \in Owners, k \in Keys, pop \in BLSProofs \cup {NoSignature} :
         BLSRegister(o, k, pop) \/ BLSRotate(o, k, pop)
    \/ \E o \in Owners : BLSRevoke(o)
    \/ \E s \in Schemes, r \in RegistryContracts : RegisterScheme(s, r)

RegistriesSpec == RegistriesInit /\ [][RegistriesNext]_registryVars

-----------------------------------------------------------------------------
RegistriesTypeOK ==
    /\ delegate \in [Owners -> Keys \cup {NoKey}]
    /\ index \in [Owners -> 0 .. MaxIndex]
    /\ indexToOwner \in [Indexes -> Owners \cup {NoKey}]
    /\ nextIndex \in 1 .. MaxIndex + 1
    /\ blsKeys \in [Owners -> BLSRecord]
    /\ blsIndexToOwner \in [Indexes -> Owners \cup {NoKey}]
    /\ blsNextIndex \in 1 .. MaxIndex + 1
    /\ registries \in [Schemes -> RegistryContracts \cup {NoRegistry}]
    /\ registeredSchemes \in Seq(Schemes)

ECDSATablesAgree ==
    /\ \A o \in Owners : delegate[o] = NoKey <=> index[o] = 0
    /\ \A o \in Owners : index[o] # 0 => indexToOwner[index[o]] = o
    /\ \A i \in Indexes : indexToOwner[i] # NoKey => index[indexToOwner[i]] = i

BLSTablesAgree ==
    /\ \A o \in Owners : blsKeys[o].pubKey = NoKey <=> blsKeys[o].index = 0
    /\ \A o \in Owners : blsKeys[o].index # 0 => blsIndexToOwner[blsKeys[o].index] = o
    /\ \A i \in Indexes : i < blsNextIndex <=> blsIndexToOwner[i] # NoKey
    /\ \A i \in Indexes : blsIndexToOwner[i] # NoKey => blsKeys[blsIndexToOwner[i]].index = i

DispatcherTablesAgree ==
    /\ {registeredSchemes[i] : i \in DOMAIN registeredSchemes} = {s \in Schemes : IsSchemeRegistered(s)}
    /\ \A i, j \in DOMAIN registeredSchemes : registeredSchemes[i] = registeredSchemes[j] => i = j
    /\ \A s \in Schemes : IsSchemeRegistered(s) => SchemeIdOf[registries[s]] = s

\* Each table is the exact inverse of the one it mirrors, through any sequence of registrations,
\* rotations and revocations: an index rotated away resolves to nobody, a BLS index keeps its
\* owner for good (ECDSARegistry.rotate, BLSRegistry.register, registerScheme).
TablesAgree == ECDSATablesAgree /\ BLSTablesAgree /\ DispatcherTablesAgree

\* A key verifies for an owner only if it is the owner's own address or its holder signed a proof
\* of possession for that very owner: a proof for one owner, or for one scheme, is of no use to
\* another (_verifyPop and verifyWithRegisteredKey of both registries).
OnlyProvenKeys ==
    \A o \in Owners, k \in Keys :
        LET sig == Signature(k, "message")
        IN  /\ VerifyWithRegisteredKey(o, "message", sig) => k = o \/ <<k, o>> \in Consents
            /\ BLSVerifyWithRegisteredKey(o, "message", sig) => <<k, o>> \in Consents

=============================================================================
