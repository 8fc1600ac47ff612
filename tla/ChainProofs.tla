---------------------------- MODULE ChainProofs ----------------------------
(***************************************************************************)
(* Theorems about what is on the chain, and about what is done with the    *)
(* blobs it carries.  The contracts: the tables of the signature           *)
(* registries are inverses of each other, only a proven key verifies, and  *)
(* each step of an exposure rests on the one before.  The coprocessor: any *)
(* number of batches, candidates per tick and rows per page, any faults    *)
(* and reorgs.  The fetch of a blob: any chain, windows and depth of the   *)
(* probe.  The scan of the logs: any calls, chunks and provider.  The      *)
(* checks of a signature, whoever makes them.                              *)
(***************************************************************************)
EXTENDS Exposure, Coprocessor, Retrieval, Codec, FiniteSetTheorems, FunctionTheorems,
        SequenceTheorems, NaturalsInduction, WellFoundedInduction, TLAPS

-----------------------------------------------------------------------------
(***************************************************************************)
(* The registries.                                                         *)
(***************************************************************************)
\* An index that was not given out yet resolves to nobody.
IndexesAreFresh ==
    /\ \A o \in Owners : index[o] < nextIndex
    /\ \A i \in Indexes : i >= nextIndex => indexToOwner[i] = NoKey

\* Every key a table holds came with a proof of its holder for the owner that holds it.
KeysConsented ==
    /\ \A o \in Owners : delegate[o] # NoKey => <<delegate[o], o>> \in Consents
    /\ \A o \in Owners : blsKeys[o].pubKey # NoKey => <<blsKeys[o].pubKey, o>> \in Consents

RegistriesInv == RegistriesTypeOK /\ TablesAgree /\ IndexesAreFresh /\ KeysConsented

\* A proof of possession that is accepted is one its holder made for this owner.
LEMMA ECDSAProofConsents ==
  ASSUME NEW o \in Owners, NEW k \in Keys,
         NEW pop \in ECDSAProofs \cup {NoSignature}, VerifyPop(k, o, pop)
  PROVE  <<k, o>> \in Consents
  <1>1. pop.by = k /\ pop.of = <<"ecdsa-pop", o>> /\ pop.by # NoKey
    BY DEF VerifyPop, RecoverMatches
  <1>2. PICK c \in Consents : pop = Signature(c[1], <<"ecdsa-pop", c[2]>>)
    BY <1>1 DEF ECDSAProofs, NoSignature, Signature
  <1>3. c[1] = k /\ c[2] = o
    BY <1>1, <1>2 DEF Signature
  <1>4. c = <<c[1], c[2]>>
    BY RegistriesAssumption
  <1>5. QED
    BY <1>3, <1>4

LEMMA BLSProofConsents ==
  ASSUME NEW o \in Owners, NEW k \in Keys,
         NEW pop \in BLSProofs \cup {NoSignature}, BLSVerify(k, BLSPop(o, k), pop)
  PROVE  <<k, o>> \in Consents
  <1>1. pop = Signature(k, BLSPop(o, k))
    BY DEF BLSVerify
  <1>2. pop.by = k /\ pop.of = <<"bls-pop", o, k>> /\ k # NoKey
    BY <1>1, RegistriesAssumption DEF Signature, BLSPop
  <1>3. PICK c \in Consents : pop = Signature(c[1], BLSPop(c[2], c[1]))
    BY <1>2 DEF BLSProofs, NoSignature, Signature
  <1>4. c[1] = k /\ c[2] = o
    BY <1>2, <1>3 DEF Signature, BLSPop
  <1>5. c = <<c[1], c[2]>>
    BY RegistriesAssumption
  <1>6. QED
    BY <1>4, <1>5

LEMMA RegistriesInitially == RegistriesInit => RegistriesInv
  <1>. SUFFICES ASSUME RegistriesInit PROVE RegistriesInv
    OBVIOUS
  <1>. USE RegistriesAssumption DEF RegistriesInit
  <1>1. RegistriesTypeOK
    BY DEF RegistriesTypeOK, BLSRecord, Indexes
  <1>2. ECDSATablesAgree /\ BLSTablesAgree
    BY DEF ECDSATablesAgree, BLSTablesAgree, Indexes
  <1>3. DispatcherTablesAgree
    BY DEF DispatcherTablesAgree, IsSchemeRegistered
  <1>4. IndexesAreFresh /\ KeysConsented
    BY DEF IndexesAreFresh, KeysConsented, Indexes
  <1>5. QED
    BY <1>1, <1>2, <1>3, <1>4 DEF RegistriesInv, TablesAgree

\* The two halves of the registries' invariant, as the two registries see it.
ECDSAInv ==
    /\ delegate \in [Owners -> Keys \cup {NoKey}]
    /\ index \in [Owners -> 0 .. MaxIndex]
    /\ indexToOwner \in [Indexes -> Owners \cup {NoKey}]
    /\ nextIndex \in 1 .. MaxIndex + 1
    /\ ECDSATablesAgree /\ IndexesAreFresh
    /\ \A o \in Owners : delegate[o] # NoKey => <<delegate[o], o>> \in Consents

BLSInv ==
    /\ blsKeys \in [Owners -> BLSRecord]
    /\ blsIndexToOwner \in [Indexes -> Owners \cup {NoKey}]
    /\ blsNextIndex \in 1 .. MaxIndex + 1
    /\ BLSTablesAgree
    /\ \A o \in Owners : blsKeys[o].pubKey # NoKey => <<blsKeys[o].pubKey, o>> \in Consents

DispatcherInv ==
    /\ registries \in [Schemes -> RegistryContracts \cup {NoRegistry}]
    /\ registeredSchemes \in Seq(Schemes)
    /\ DispatcherTablesAgree

LEMMA RegistriesInvParts == RegistriesInv <=> ECDSAInv /\ BLSInv /\ DispatcherInv
  BY DEF RegistriesInv, ECDSAInv, BLSInv, DispatcherInv, RegistriesTypeOK, TablesAgree, KeysConsented

\* Binding a proven delegate under a fresh index keeps the tables inverse, whether the old index
\* was none (register) or is cleared (rotate).
LEMMA RegisterKeeps ==
  ASSUME ECDSAInv, NEW o \in Owners, NEW k \in Keys, NEW pop \in ECDSAProofs \cup {NoSignature},
         Register(o, k, pop)
  PROVE  ECDSAInv'
  <1>1. <<k, o>> \in Consents /\ k # NoKey /\ o # NoKey
    BY ECDSAProofConsents, RegistriesAssumption DEF Register
  <1>2. /\ nextIndex \in Indexes /\ delegate' = [delegate EXCEPT ![o] = k]
        /\ index' = [index EXCEPT ![o] = nextIndex] /\ nextIndex' = nextIndex + 1
        /\ indexToOwner' = [indexToOwner EXCEPT ![nextIndex] = o]
        /\ index[o] = 0
    BY DEF Register, BindDelegate, ECDSAInv, ECDSATablesAgree
  <1>. USE <1>1, <1>2, RegistriesAssumption DEF ECDSAInv, Indexes
  <1>3. /\ delegate' \in [Owners -> Keys \cup {NoKey}]
        /\ index' \in [Owners -> 0 .. MaxIndex]
        /\ indexToOwner' \in [Indexes -> Owners \cup {NoKey}]
        /\ nextIndex' \in 1 .. MaxIndex + 1
    OBVIOUS
  <1>4. ECDSATablesAgree'
    BY <1>3 DEF ECDSATablesAgree, IndexesAreFresh
  <1>5. IndexesAreFresh'
    BY <1>3 DEF IndexesAreFresh
  <1>6. \A p \in Owners : delegate'[p] # NoKey => <<delegate'[p], p>> \in Consents
    OBVIOUS
  <1>7. QED
    BY <1>3, <1>4, <1>5, <1>6

LEMMA RotateKeeps ==
  ASSUME ECDSAInv, NEW o \in Owners, NEW k \in Keys, NEW pop \in ECDSAProofs \cup {NoSignature},
         Rotate(o, k, pop)
  PROVE  ECDSAInv'
  <1>1. <<k, o>> \in Consents /\ k # NoKey /\ o # NoKey
    BY ECDSAProofConsents, RegistriesAssumption DEF Rotate
  <1>2. /\ nextIndex \in Indexes /\ delegate' = [delegate EXCEPT ![o] = k]
        /\ index' = [index EXCEPT ![o] = nextIndex] /\ nextIndex' = nextIndex + 1
        /\ indexToOwner' = [indexToOwner EXCEPT ![index[o]] = NoKey, ![nextIndex] = o]
        /\ index[o] # 0 /\ index[o] < nextIndex
    BY DEF Rotate, BindDelegate, ECDSAInv, ECDSATablesAgree, IndexesAreFresh
  <1>. USE <1>1, <1>2, RegistriesAssumption DEF ECDSAInv, Indexes
  <1>3. /\ delegate' \in [Owners -> Keys \cup {NoKey}]
        /\ index' \in [Owners -> 0 .. MaxIndex]
        /\ indexToOwner' \in [Indexes -> Owners \cup {NoKey}]
        /\ nextIndex' \in 1 .. MaxIndex + 1
    <2>1. delegate' \in [Owners -> Keys \cup {NoKey}]
      OBVIOUS
    <2>2. index' \in [Owners -> 0 .. MaxIndex]
      OBVIOUS
    <2>3. nextIndex' \in 1 .. MaxIndex + 1
      OBVIOUS
    <2>4. index[o] \in 1 .. MaxIndex
      OBVIOUS
    <2>5. indexToOwner' \in [Indexes -> Owners \cup {NoKey}]
      BY <2>4
    <2>6. QED
      BY <2>1, <2>2, <2>3, <2>5
  <1>4. ECDSATablesAgree'
    BY <1>3 DEF ECDSATablesAgree, IndexesAreFresh
  <1>5. IndexesAreFresh'
    BY <1>3 DEF IndexesAreFresh
  <1>6. \A p \in Owners : delegate'[p] # NoKey => <<delegate'[p], p>> \in Consents
    OBVIOUS
  <1>7. QED
    BY <1>3, <1>4, <1>5, <1>6

\* The BLS tables: a key is registered once, rotated under the same index, and never taken back.
LEMMA BLSRegisterKeeps ==
  ASSUME BLSInv, NEW o \in Owners, NEW k \in Keys, NEW pop \in BLSProofs \cup {NoSignature},
         BLSRegister(o, k, pop)
  PROVE  BLSInv'
  <1>1. <<k, o>> \in Consents /\ k # NoKey /\ o # NoKey
    BY BLSProofConsents, RegistriesAssumption DEF BLSRegister
  <1>2. /\ blsNextIndex \in Indexes /\ blsNextIndex' = blsNextIndex + 1
        /\ blsKeys' = [blsKeys EXCEPT ![o] = [pubKey |-> k, index |-> blsNextIndex, revoked |-> FALSE]]
        /\ blsIndexToOwner' = [blsIndexToOwner EXCEPT ![blsNextIndex] = o]
        /\ blsKeys[o].index = 0
    BY DEF BLSRegister, BLSInv, BLSTablesAgree
  <1>. USE <1>1, <1>2, RegistriesAssumption DEF BLSInv, Indexes
  <1>3. /\ blsKeys' \in [Owners -> BLSRecord]
        /\ blsIndexToOwner' \in [Indexes -> Owners \cup {NoKey}]
        /\ blsNextIndex' \in 1 .. MaxIndex + 1
    BY DEF BLSRecord
  <1>4. BLSTablesAgree'
    BY <1>3 DEF BLSTablesAgree, BLSRecord
  <1>5. \A p \in Owners : blsKeys'[p].pubKey # NoKey => <<blsKeys'[p].pubKey, p>> \in Consents
    BY DEF BLSRecord
  <1>6. QED
    BY <1>3, <1>4, <1>5

LEMMA BLSRotateKeeps ==
  ASSUME BLSInv, NEW o \in Owners, NEW k \in Keys, NEW pop \in BLSProofs \cup {NoSignature},
         BLSRotate(o, k, pop)
  PROVE  BLSInv'
  <1>1. <<k, o>> \in Consents /\ k # NoKey
    BY BLSProofConsents, RegistriesAssumption DEF BLSRotate
  <1>2. /\ blsKeys' = [blsKeys EXCEPT ![o].pubKey = k]
        /\ UNCHANGED <<blsIndexToOwner, blsNextIndex>> /\ blsKeys[o].pubKey # NoKey
    BY DEF BLSRotate
  <1>. USE <1>1, <1>2 DEF BLSInv, BLSRecord
  <1>3. blsKeys' \in [Owners -> BLSRecord]
    OBVIOUS
  <1>4. BLSTablesAgree'
    BY <1>3 DEF BLSTablesAgree, Indexes
  <1>5. \A p \in Owners : blsKeys'[p].pubKey # NoKey => <<blsKeys'[p].pubKey, p>> \in Consents
    OBVIOUS
  <1>6. QED
    BY <1>3, <1>4, <1>5

LEMMA BLSRevokeKeeps ==
  ASSUME BLSInv, NEW o \in Owners, BLSRevoke(o)
  PROVE  BLSInv'
  <1>1. /\ blsKeys' = [blsKeys EXCEPT ![o].revoked = TRUE]
        /\ UNCHANGED <<blsIndexToOwner, blsNextIndex>>
    BY DEF BLSRevoke
  <1>. USE <1>1 DEF BLSInv, BLSRecord
  <1>2. blsKeys' \in [Owners -> BLSRecord]
    OBVIOUS
  <1>3. BLSTablesAgree'
    BY <1>2 DEF BLSTablesAgree, Indexes
  <1>4. \A p \in Owners : blsKeys'[p].pubKey # NoKey => <<blsKeys'[p].pubKey, p>> \in Consents
    OBVIOUS
  <1>5. QED
    BY <1>2, <1>3, <1>4

\* A scheme is listed once, when its entry is first written.
LEMMA RegisterSchemeKeeps ==
  ASSUME DispatcherInv, NEW s \in Schemes, NEW r \in RegistryContracts, RegisterScheme(s, r)
  PROVE  DispatcherInv'
  <1>1. /\ registries' = [registries EXCEPT ![s] = r] /\ SchemeIdOf[r] = s
        /\ registeredSchemes' = Append(registeredSchemes, s)
        /\ registries[s] = NoRegistry /\ r # NoRegistry
    BY RegistriesAssumption DEF RegisterScheme, IsSchemeRegistered
  <1>. USE <1>1 DEF DispatcherInv
  <1>2. registries' \in [Schemes -> RegistryContracts \cup {NoRegistry}] /\ registeredSchemes' \in Seq(Schemes)
    OBVIOUS
  <1>3. /\ Len(registeredSchemes') = Len(registeredSchemes) + 1
        /\ \A i \in DOMAIN registeredSchemes : registeredSchemes'[i] = registeredSchemes[i]
        /\ registeredSchemes'[Len(registeredSchemes) + 1] = s
        /\ DOMAIN registeredSchemes' = DOMAIN registeredSchemes \cup {Len(registeredSchemes) + 1}
    BY <1>2
  <1>4. \A i \in DOMAIN registeredSchemes : registeredSchemes[i] \in Schemes /\ registeredSchemes[i] # s
    BY DEF DispatcherTablesAgree, IsSchemeRegistered
  <1>5. {registeredSchemes'[i] : i \in DOMAIN registeredSchemes'} = {t \in Schemes : registries'[t] # NoRegistry}
    <2>1. {registeredSchemes'[i] : i \in DOMAIN registeredSchemes'}
             = {registeredSchemes[i] : i \in DOMAIN registeredSchemes} \cup {s}
      BY <1>3
    <2>2. {t \in Schemes : registries'[t] # NoRegistry} = {t \in Schemes : registries[t] # NoRegistry} \cup {s}
      OBVIOUS
    <2>3. QED
      BY <2>1, <2>2 DEF DispatcherTablesAgree, IsSchemeRegistered
  <1>6. \A i, j \in DOMAIN registeredSchemes' : registeredSchemes'[i] = registeredSchemes'[j] => i = j
    BY <1>3, <1>4 DEF DispatcherTablesAgree
  <1>7. \A t \in Schemes : registries'[t] # NoRegistry => SchemeIdOf[registries'[t]] = t
    BY DEF DispatcherTablesAgree, IsSchemeRegistered
  <1>8. QED
    BY <1>2, <1>5, <1>6, <1>7 DEF DispatcherTablesAgree, IsSchemeRegistered

LEMMA RegistriesStep == RegistriesInv /\ [RegistriesNext]_registryVars => RegistriesInv'
  <1>. SUFFICES ASSUME RegistriesInv, [RegistriesNext]_registryVars PROVE RegistriesInv'
    OBVIOUS
  <1>1. ECDSAInv /\ BLSInv /\ DispatcherInv
    BY RegistriesInvParts
  <1>a. UNCHANGED ecdsaVars => ECDSAInv'
    BY <1>1 DEF ecdsaVars, ECDSAInv, ECDSATablesAgree, IndexesAreFresh
  <1>b. UNCHANGED blsVars => BLSInv'
    BY <1>1 DEF blsVars, BLSInv, BLSTablesAgree
  <1>d. UNCHANGED dispatcherVars => DispatcherInv'
    BY <1>1 DEF dispatcherVars, DispatcherInv, DispatcherTablesAgree, IsSchemeRegistered
  <1>2. ECDSAInv' /\ BLSInv' /\ DispatcherInv'
    <2>1. ASSUME NEW o \in Owners, NEW k \in Keys, NEW pop \in ECDSAProofs \cup {NoSignature},
                 Register(o, k, pop)
          PROVE  ECDSAInv' /\ BLSInv' /\ DispatcherInv'
      BY <1>1, <1>b, <1>d, <2>1, RegisterKeeps DEF Register, BindDelegate
    <2>2. ASSUME NEW o \in Owners, NEW k \in Keys, NEW pop \in ECDSAProofs \cup {NoSignature},
                 Rotate(o, k, pop)
          PROVE  ECDSAInv' /\ BLSInv' /\ DispatcherInv'
      BY <1>1, <1>b, <1>d, <2>2, RotateKeeps DEF Rotate, BindDelegate
    <2>3. ASSUME NEW o \in Owners, NEW k \in Keys, NEW pop \in BLSProofs \cup {NoSignature},
                 BLSRegister(o, k, pop)
          PROVE  ECDSAInv' /\ BLSInv' /\ DispatcherInv'
      BY <1>1, <1>a, <1>d, <2>3, BLSRegisterKeeps DEF BLSRegister
    <2>4. ASSUME NEW o \in Owners, NEW k \in Keys, NEW pop \in BLSProofs \cup {NoSignature},
                 BLSRotate(o, k, pop)
          PROVE  ECDSAInv' /\ BLSInv' /\ DispatcherInv'
      BY <1>1, <1>a, <1>d, <2>4, BLSRotateKeeps DEF BLSRotate
    <2>5. ASSUME NEW o \in Owners, BLSRevoke(o)
          PROVE  ECDSAInv' /\ BLSInv' /\ DispatcherInv'
      BY <1>1, <1>a, <1>d, <2>5, BLSRevokeKeeps DEF BLSRevoke
    <2>6. ASSUME NEW s \in Schemes, NEW r \in RegistryContracts, RegisterScheme(s, r)
          PROVE  ECDSAInv' /\ BLSInv' /\ DispatcherInv'
      BY <1>1, <1>a, <1>b, <2>6, RegisterSchemeKeeps DEF RegisterScheme
    <2>7. CASE UNCHANGED registryVars
      BY <1>a, <1>b, <1>d, <2>7 DEF registryVars
    <2>8. QED
      BY <2>1, <2>2, <2>3, <2>4, <2>5, <2>6, <2>7 DEF RegistriesNext
  <1>3. (ECDSAInv /\ BLSInv /\ DispatcherInv)' => RegistriesInv'
    BY DEF RegistriesInv, ECDSAInv, BLSInv, DispatcherInv, RegistriesTypeOK, TablesAgree, KeysConsented
  <1>4. QED
    BY <1>2, <1>3

\* Only a proven key verifies, for the tables hold no other.
LEMMA ConsentsAreProven == RegistriesInv => OnlyProvenKeys
  BY DEF RegistriesInv, KeysConsented, RegistriesTypeOK, OnlyProvenKeys, VerifyWithRegisteredKey,
         RecoverMatches, BLSVerifyWithRegisteredKey, BLSGetKey, BLSVerify, Signature

\* The invariant behind the three theorems below.
LEMMA RegistriesInvariant == RegistriesSpec => []RegistriesInv
  BY RegistriesInitially, RegistriesStep, PTL DEF RegistriesSpec

\* Every table of the registries keeps its type (ECDSARegistry, BLSRegistry and
\* SignatureRegistryDispatcher).
THEOREM RegistriesTypeCorrect == RegistriesSpec => []RegistriesTypeOK
  <1>1. RegistriesInv => RegistriesTypeOK
    BY DEF RegistriesInv
  <1>2. QED
    BY <1>1, RegistriesInvariant, PTL

\* The tables of keys and of indexes are inverses of each other through any sequence of
\* registrations, rotations and revocations (ECDSARegistry.rotate, BLSRegistry.register,
\* SignatureRegistryDispatcher.registerScheme).
THEOREM TablesAlwaysAgree == RegistriesSpec => []TablesAgree
  <1>1. RegistriesInv => TablesAgree
    BY DEF RegistriesInv
  <1>2. QED
    BY <1>1, RegistriesInvariant, PTL

\* A key verifies for an owner only with a proof of possession for that owner
\* (_verifyPop and verifyWithRegisteredKey of both registries).
THEOREM OnlyProvenKeysVerify == RegistriesSpec => []OnlyProvenKeys
  BY ConsentsAreProven, RegistriesInvariant, PTL

-----------------------------------------------------------------------------
(***************************************************************************)
(* The exposures and their records.                                        *)
(***************************************************************************)
\* A list that names each member of a set, and each once.
ListsOnce(list, S) ==
    /\ {list[i] : i \in DOMAIN list} = S
    /\ \A i, j \in DOMAIN list : list[i] = list[j] => i = j

ExposureTypeOK ==
    /\ now \in Nat \ {0}
    /\ exposures \in [Messages -> [sender : Owners \cup {NoKey}, at : Nat,
                                   by : Accounts \cup {NoKey, Exposer}]]
    /\ exposedHashes \in Seq(Messages)
    /\ exposed \subseteq Messages
    /\ dictionaries \in [Contents -> [at : Nat, active : BOOLEAN]]
    /\ dictionaryList \in Seq(Contents)

\* What the verifier heard of, and what rests on it.
ExposedContentRegistered ==
    /\ announced \subseteq registered
    /\ \A m \in exposed : ContentOf[m] \in registered

\* Where a record comes from, and what each exposed message has.
ExposedHaveRecords ==
    /\ RecordsExposures => \A m \in exposed : IsExposed(m)
    /\ \A m \in Messages : exposures[m].by = Exposer => m \in exposed /\ exposures[m].sender = SenderOf[m]

RecordsInv ==
    /\ ExposureTypeOK /\ ExposedContentRegistered /\ ExposedHaveRecords
    /\ ListsOnce(exposedHashes, {m \in Messages : IsExposed(m)})
    /\ ListsOnce(dictionaryList, {c \in Contents : dictionaries[c].at > 0})
    /\ \A c \in Contents : dictionaries[c].active => dictionaries[c].at > 0

EscrowTypeOK ==
    /\ stakes \in [Messages -> [staker : Accounts \cup {NoKey}, amount : Nat, at : Nat, active : BOOLEAN]]
    /\ disputes \in [Messages -> [challenger : Accounts \cup {NoKey}, deadline : Nat,
                                  status : {"none", "challenged", "resolved", "rejected"}]]
    /\ disputeStakes \in [Messages -> Nat]
    /\ now \in Nat

EscrowInv == EscrowTypeOK /\ EscrowConserved /\ IsFiniteSet(StakedWei) /\ IsFiniteSet(DisputedWei)

\* The variables the records depend on, and those the escrow depends on.
recordedVars == <<now, registered, announced, exposed, recordVars, dictionaryVars>>
escrowVars == <<now, disputes, disputeStakes, disputeBalance, stakes, stakeBalance>>

LEMMA AppendListsOnce ==
  ASSUME NEW A, NEW S, NEW list \in Seq(A), NEW x \in A, ListsOnce(list, S), x \notin S
  PROVE  ListsOnce(Append(list, x), S \cup {x})
  <1>. DEFINE longer == Append(list, x)
  <1>1. /\ Len(longer) = Len(list) + 1 /\ longer \in Seq(A)
        /\ \A i \in DOMAIN list : longer[i] = list[i]
        /\ longer[Len(list) + 1] = x
        /\ DOMAIN longer = DOMAIN list \cup {Len(list) + 1}
    OBVIOUS
  <1>2. \A i \in DOMAIN list : list[i] \in S
    BY DEF ListsOnce
  <1>. HIDE DEF longer
  <1>3. {longer[i] : i \in DOMAIN longer} = {list[i] : i \in DOMAIN list} \cup {x}
    BY <1>1
  <1>4. \A i, j \in DOMAIN longer : longer[i] = longer[j] => i = j
    BY <1>1, <1>2 DEF ListsOnce
  <1>5. QED
    BY <1>3, <1>4 DEF ListsOnce, longer

\* The first record of a message, whoever writes it.
LEMMA StoreKeeps ==
  ASSUME ExposureTypeOK, ListsOnce(exposedHashes, {m \in Messages : IsExposed(m)}),
         NEW m \in Messages, ~IsExposed(m), NEW o \in Owners, NEW by \in Accounts \cup {Exposer},
         Store(m, o, by)
  PROVE  /\ exposures' \in [Messages -> [sender : Owners \cup {NoKey}, at : Nat,
                                         by : Accounts \cup {NoKey, Exposer}]]
         /\ exposedHashes' \in Seq(Messages)
         /\ IsExposed(m)'
         /\ \A n \in Messages : n # m => exposures'[n] = exposures[n]
         /\ exposures'[m].by = by /\ exposures'[m].sender = o
         /\ ListsOnce(exposedHashes, {n \in Messages : IsExposed(n)})'
  <1>1. /\ exposures' = [exposures EXCEPT ![m] = [sender |-> o, at |-> now, by |-> by]]
        /\ exposedHashes' = Append(exposedHashes, m)
    BY DEF Store
  <1>. USE DEF ExposureTypeOK, IsExposed
  <1>2. /\ exposures' \in [Messages -> [sender : Owners \cup {NoKey}, at : Nat,
                                        by : Accounts \cup {NoKey, Exposer}]]
        /\ exposures'[m] = [sender |-> o, at |-> now, by |-> by]
        /\ \A n \in Messages : n # m => exposures'[n] = exposures[n]
    BY <1>1
  <1>3. exposedHashes' \in Seq(Messages)
    BY <1>1
  <1>4. IsExposed(m)'
    BY <1>2
  <1>5. {n \in Messages : IsExposed(n)}' = {n \in Messages : IsExposed(n)} \cup {m}
    BY <1>2
  <1>6. ListsOnce(Append(exposedHashes, m), {n \in Messages : IsExposed(n)} \cup {m})
    BY AppendListsOnce
  <1>7. ListsOnce(exposedHashes', {n \in Messages : IsExposed(n)}')
    BY <1>1, <1>5, <1>6
  <1>8. QED
    BY <1>2, <1>3, <1>4, <1>7 DEF ListsOnce

LEMMA RecordKeeps ==
  ASSUME RecordsInv, NEW m \in Messages, NEW o \in Owners, NEW a \in Accounts, Record(m, o, a)
  PROVE  RecordsInv'
  <1>1. /\ ~IsExposed(m) /\ Store(m, o, a)
        /\ UNCHANGED <<now, registered, announced, exposed, dictionaryVars>>
    BY DEF Record, verifierVars
  <1>2. a # Exposer
    BY ExposureAssumption
  <1>. DEFINE Facts == /\ exposures' \in [Messages -> [sender : Owners \cup {NoKey}, at : Nat,
                                                       by : Accounts \cup {NoKey, Exposer}]]
                       /\ exposedHashes' \in Seq(Messages)
                       /\ IsExposed(m)'
                       /\ \A n \in Messages : n # m => exposures'[n] = exposures[n]
                       /\ exposures'[m].by = a /\ exposures'[m].sender = o
                       /\ ListsOnce(exposedHashes, {n \in Messages : IsExposed(n)})'
  <1>3. Facts
    BY <1>1, StoreKeeps DEF RecordsInv
  <1>4. ExposureTypeOK'
    BY <1>1, <1>3 DEF RecordsInv, ExposureTypeOK, dictionaryVars
  <1>5. ExposedContentRegistered'
    BY <1>1 DEF RecordsInv, ExposedContentRegistered
  <1>6. ExposedHaveRecords'
    BY <1>1, <1>2, <1>3 DEF RecordsInv, ExposedHaveRecords, IsExposed, ExposureTypeOK
  <1>7. /\ ListsOnce(dictionaryList, {c \in Contents : dictionaries[c].at > 0})'
        /\ (\A c \in Contents : dictionaries[c].active => dictionaries[c].at > 0)'
    BY <1>1 DEF RecordsInv, ListsOnce, dictionaryVars, Contents
  <1>8. QED
    BY <1>3, <1>4, <1>5, <1>6, <1>7 DEF RecordsInv

LEMMA MarkExposedKeeps ==
  ASSUME RecordsInv, NEW m \in Messages, NEW sig, MarkExposed(m, sig)
  PROVE  RecordsInv'
  <1>1. /\ ContentOf[m] \in registered /\ exposed' = exposed \cup {m} /\ RecordExposure(m)
        /\ UNCHANGED <<now, registered, announced, dictionaryVars>>
    BY DEF MarkExposed, verifierVars
  <1>2. SenderOf[m] \in Owners
    BY ExposureAssumption
  <1>3. ExposedContentRegistered'
    BY <1>1 DEF RecordsInv, ExposedContentRegistered
  <1>4. /\ ListsOnce(dictionaryList, {c \in Contents : dictionaries[c].at > 0})'
        /\ (\A c \in Contents : dictionaries[c].active => dictionaries[c].at > 0)'
    BY <1>1 DEF RecordsInv, ListsOnce, dictionaryVars, Contents
  <1>5. CASE RecordsExposures /\ ~IsExposed(m)
    <2>1. Store(m, SenderOf[m], Exposer)
      BY <1>1, <1>5 DEF RecordExposure
    <2>2. /\ exposures' \in [Messages -> [sender : Owners \cup {NoKey}, at : Nat,
                                          by : Accounts \cup {NoKey, Exposer}]]
          /\ exposedHashes' \in Seq(Messages)
          /\ IsExposed(m)'
          /\ \A n \in Messages : n # m => exposures'[n] = exposures[n]
          /\ exposures'[m].by = Exposer /\ exposures'[m].sender = SenderOf[m]
          /\ ListsOnce(exposedHashes, {n \in Messages : IsExposed(n)})'
      BY <1>2, <1>5, <2>1, StoreKeeps DEF RecordsInv
    <2>3. ExposureTypeOK'
      BY <1>1, <2>2 DEF RecordsInv, ExposureTypeOK, dictionaryVars
    <2>4. ExposedHaveRecords'
      BY <1>1, <2>2 DEF RecordsInv, ExposedHaveRecords, IsExposed, ExposureTypeOK
    <2>5. QED
      BY <1>3, <1>4, <2>2, <2>3, <2>4 DEF RecordsInv
  <1>6. CASE ~(RecordsExposures /\ ~IsExposed(m))
    <2>1. UNCHANGED <<exposures, exposedHashes>>
      BY <1>1, <1>6 DEF RecordExposure, recordVars
    <2>2. ExposureTypeOK'
      BY <1>1, <2>1 DEF RecordsInv, ExposureTypeOK, dictionaryVars
    <2>3. ExposedHaveRecords'
      BY <1>1, <1>6, <2>1 DEF RecordsInv, ExposedHaveRecords, IsExposed, ExposureTypeOK
    <2>4. ListsOnce(exposedHashes, {n \in Messages : IsExposed(n)})'
      BY <2>1 DEF RecordsInv, ListsOnce, IsExposed
    <2>5. QED
      BY <1>3, <1>4, <2>2, <2>3, <2>4 DEF RecordsInv
  <1>7. QED
    BY <1>5, <1>6

\* What is left alone when only the time, the registered contents or nothing changes.
LEMMA RecordsFramed ==
  ASSUME RecordsInv, UNCHANGED <<exposed, exposures, exposedHashes, dictionaries, dictionaryList>>,
         now' \in Nat \ {0}, registered \subseteq registered', announced' \subseteq registered'
  PROVE  RecordsInv'
  <1>. USE DEF RecordsInv
  <1>1. ExposureTypeOK'
    BY DEF ExposureTypeOK
  <1>2. ExposedContentRegistered' /\ ExposedHaveRecords'
    BY DEF ExposedContentRegistered, ExposedHaveRecords, IsExposed
  <1>3. ListsOnce(exposedHashes, {n \in Messages : IsExposed(n)})'
    BY DEF ListsOnce, IsExposed
  <1>4. /\ ListsOnce(dictionaryList, {c \in Contents : dictionaries[c].at > 0})'
        /\ (\A c \in Contents : dictionaries[c].active => dictionaries[c].at > 0)'
    BY DEF ListsOnce
  <1>5. QED
    BY <1>1, <1>2, <1>3, <1>4

LEMMA RegisterDictionaryKeeps ==
  ASSUME RecordsInv, NEW c \in Contents, RegisterDictionary(c)
  PROVE  RecordsInv'
  <1>1. /\ dictionaries[c].at = 0
        /\ dictionaries' = [dictionaries EXCEPT ![c] = [at |-> now, active |-> TRUE]]
        /\ dictionaryList' = Append(dictionaryList, c)
        /\ UNCHANGED <<now, registered, announced, exposed, exposures, exposedHashes>>
    BY DEF RegisterDictionary, verifierVars, recordVars
  <1>2. ExposedContentRegistered' /\ ExposedHaveRecords'
    BY <1>1 DEF RecordsInv, ExposedContentRegistered, ExposedHaveRecords, IsExposed
  <1>3. ExposureTypeOK'
    BY <1>1 DEF RecordsInv, ExposureTypeOK
  <1>4. ListsOnce(exposedHashes, {n \in Messages : IsExposed(n)})'
    BY <1>1 DEF RecordsInv, ListsOnce, IsExposed
  <1>5. {d \in Contents : dictionaries'[d].at > 0} = {d \in Contents : dictionaries[d].at > 0} \cup {c}
    BY <1>1 DEF RecordsInv, ExposureTypeOK
  <1>6. ListsOnce(dictionaryList', {d \in Contents : dictionaries[d].at > 0} \cup {c})
    <2>1. /\ dictionaryList \in Seq(Contents)
          /\ ListsOnce(dictionaryList, {d \in Contents : dictionaries[d].at > 0})
      BY DEF RecordsInv, ExposureTypeOK
    <2>2. c \notin {d \in Contents : dictionaries[d].at > 0}
      BY <1>1
    <2>3. QED
      BY <1>1, <2>1, <2>2, AppendListsOnce
  <1>7. \A d \in Contents : dictionaries'[d].active => dictionaries'[d].at > 0
    BY <1>1 DEF RecordsInv, ExposureTypeOK
  <1>8. ListsOnce(dictionaryList, {d \in Contents : dictionaries[d].at > 0})'
    BY <1>5, <1>6
  <1>9. QED
    BY <1>2, <1>3, <1>4, <1>7, <1>8 DEF RecordsInv

LEMMA DeactivateDictionaryKeeps ==
  ASSUME RecordsInv, NEW c \in Contents, DeactivateDictionary(c)
  PROVE  RecordsInv'
  <1>1. /\ dictionaries' = [dictionaries EXCEPT ![c].active = FALSE]
        /\ UNCHANGED <<now, registered, announced, exposed, exposures, exposedHashes, dictionaryList>>
    BY DEF DeactivateDictionary, verifierVars, recordVars
  <1>2. ExposedContentRegistered' /\ ExposedHaveRecords'
    BY <1>1 DEF RecordsInv, ExposedContentRegistered, ExposedHaveRecords, IsExposed
  <1>3. ExposureTypeOK'
    BY <1>1 DEF RecordsInv, ExposureTypeOK
  <1>4. ListsOnce(exposedHashes, {n \in Messages : IsExposed(n)})'
    BY <1>1 DEF RecordsInv, ListsOnce, IsExposed
  <1>5. \A d \in Contents : /\ dictionaries'[d].at = dictionaries[d].at
                            /\ dictionaries'[d].active => dictionaries[d].active
    BY <1>1 DEF RecordsInv, ExposureTypeOK
  <1>6. {d \in Contents : dictionaries'[d].at > 0} = {d \in Contents : dictionaries[d].at > 0}
    BY <1>5
  <1>7. ListsOnce(dictionaryList, {d \in Contents : dictionaries[d].at > 0})'
    BY <1>1, <1>6 DEF RecordsInv
  <1>8. QED
    BY <1>2, <1>3, <1>4, <1>5, <1>7 DEF RecordsInv

LEMMA RecordsInitially == ExposureInit => RecordsInv
  <1>. SUFFICES ASSUME ExposureInit PROVE RecordsInv
    OBVIOUS
  <1>. USE ExposureAssumption DEF ExposureInit, NotRecorded, NoDictionary
  <1>1. ExposureTypeOK
    BY DEF ExposureTypeOK
  <1>2. ExposedContentRegistered /\ ExposedHaveRecords
    BY DEF ExposedContentRegistered, ExposedHaveRecords
  <1>3. /\ ListsOnce(exposedHashes, {n \in Messages : IsExposed(n)})
        /\ ListsOnce(dictionaryList, {d \in Contents : dictionaries[d].at > 0})
    BY DEF ListsOnce, IsExposed
  <1>4. QED
    BY <1>1, <1>2, <1>3 DEF RecordsInv

LEMMA RecordsStep == RecordsInv /\ [ExposureNext]_chainVars => RecordsInv'
  <1>. SUFFICES ASSUME RecordsInv, [ExposureNext]_chainVars PROVE RecordsInv'
    OBVIOUS
  <1>f. UNCHANGED recordedVars => RecordsInv'
    BY RecordsFramed DEF recordedVars, recordVars, dictionaryVars, RecordsInv, ExposureTypeOK,
                         ExposedContentRegistered
  <1>t. PassTime => RecordsInv'
    BY RecordsFramed DEF PassTime, recordVars, dictionaryVars, verifierVars, RecordsInv, ExposureTypeOK,
                         ExposedContentRegistered
  <1>1. CASE ExposeNext
    <2>1. ASSUME UNCHANGED exposureVars PROVE RecordsInv'
      BY <1>f, <2>1 DEF exposureVars, recordedVars, verifierVars
    <2>2. ASSUME NEW core, SetCore(core) PROVE RecordsInv'
      BY <1>f, <2>2 DEF SetCore, recordedVars
    <2>3. ASSUME NEW c, RegisterContent(c) \/ RegisterElsewhere(c) PROVE RecordsInv'
      BY <2>3, RecordsFramed DEF RegisterContent, RegisterElsewhere, OnRegistered, recordVars, dictionaryVars,
                                 RecordsInv, ExposureTypeOK, ExposedContentRegistered
    <2>4. ASSUME NEW m \in Messages, NEW sig, Expose(m, sig) \/ ExposeFromCalldata(m, sig) PROVE RecordsInv'
      BY <2>4, MarkExposedKeeps DEF Expose, ExposeFromCalldata
    <2>5. QED
      BY <1>1, <2>1, <2>2, <2>3, <2>4, RecordKeeps DEF ExposeNext
  <1>2. CASE DisputeNext
    <2>1. ASSUME NEW m \in Messages, NEW a \in Accounts, Record(m, SenderOf[m], a) PROVE RecordsInv'
      BY <2>1, RecordKeeps, ExposureAssumption
    <2>2. ASSUME NEW m, NEW a, NEW v, Challenge(m, a, v) PROVE RecordsInv'
      BY <1>f, <2>2 DEF Challenge, recordedVars, verifierVars
    <2>3. ASSUME NEW m, NEW a, NEW valid, Resolve(m, a, valid) \/ ClaimExpiredDispute(m) PROVE RecordsInv'
      BY <1>f, <2>3 DEF Resolve, ClaimExpiredDispute, Settle, recordedVars, verifierVars
    <2>4. ASSUME AdministerDisputes PROVE RecordsInv'
      BY <1>f, <2>4 DEF AdministerDisputes, recordedVars, verifierVars
    <2>5. QED
      BY <1>2, <1>t, <2>1, <2>2, <2>3, <2>4 DEF DisputeNext
  <1>3. CASE StakeNext
    <2>1. ASSUME NEW m, NEW a, NEW v, Deposit(m, a, v) PROVE RecordsInv'
      BY <1>f, <2>1 DEF Deposit, recordedVars, verifierVars
    <2>2. ASSUME NEW m, NEW a, NEW b, Withdraw(m, a) \/ Slash(m, a, b) PROVE RecordsInv'
      BY <1>f, <2>2 DEF Withdraw, Slash, Release, recordedVars, verifierVars
    <2>3. ASSUME AdministerStakes PROVE RecordsInv'
      BY <1>f, <2>3 DEF AdministerStakes, recordedVars, verifierVars
    <2>4. QED
      BY <1>3, <1>t, <2>1, <2>2, <2>3 DEF StakeNext
  <1>4. CASE DictionaryNext
    BY <1>4, <1>t, RegisterDictionaryKeeps, DeactivateDictionaryKeeps DEF DictionaryNext
  <1>5. CASE UNCHANGED exposureVars
    BY <1>f, <1>5 DEF exposureVars, recordedVars, verifierVars
  <1>6. QED
    BY <1>1, <1>2, <1>3, <1>4, <1>5 DEF ExposureNext, chainVars

\* The places of a list that names each member of a set once are as many as the members.
LEMMA PlacesAreMembers ==
  ASSUME NEW A, NEW S, NEW list \in Seq(A), ListsOnce(list, S), NEW T \in SUBSET S
  PROVE  Cardinality({i \in DOMAIN list : list[i] \in T}) = Cardinality(T)
  <1>. DEFINE places == {i \in DOMAIN list : list[i] \in T}
              named == [i \in places |-> list[i]]
  <1>1. IsFiniteSet(places)
    <2>1. DOMAIN list = 1 .. Len(list) /\ Len(list) \in Nat
      OBVIOUS
    <2>2. IsFiniteSet(DOMAIN list)
      BY <2>1, FS_Interval
    <2>3. QED
      BY <2>2, FS_Subset
  <1>2. named \in Injection(places, T)
    BY Zenon DEF Injection, IsInjective, ListsOnce
  <1>3. named \in Surjection(places, T)
    <2>1. named \in [places -> T]
      OBVIOUS
    <2>2. \A x \in T : \E i \in places : named[i] = x
      BY DEF ListsOnce
    <2>3. QED
      BY <2>1, <2>2 DEF Surjection
  <1>4. ExistsBijection(places, T)
    BY <1>2, <1>3 DEF ExistsBijection, Bijection
  <1>5. QED
    BY <1>1, <1>4, FS_Bijection

LEMMA RecordsAreCounted == RecordsInv => ExposuresRecorded
  <1>. SUFFICES ASSUME RecordsInv PROVE ExposuresRecorded
    OBVIOUS
  <1>1. ASSUME NEW m \in Messages
        PROVE  Cardinality({i \in DOMAIN exposedHashes : exposedHashes[i] = m}) = IF IsExposed(m) THEN 1 ELSE 0
    <2>1. /\ exposedHashes \in Seq(Messages)
          /\ ListsOnce(exposedHashes, {n \in Messages : IsExposed(n)})
      BY DEF RecordsInv, ExposureTypeOK
    <2>2. CASE IsExposed(m)
      <3>1. Cardinality({i \in DOMAIN exposedHashes : exposedHashes[i] \in {m}}) = Cardinality({m})
        BY <2>1, <2>2, PlacesAreMembers
      <3>2. {i \in DOMAIN exposedHashes : exposedHashes[i] \in {m}}
              = {i \in DOMAIN exposedHashes : exposedHashes[i] = m}
        OBVIOUS
      <3>3. QED
        BY <2>2, <3>1, <3>2, FS_Singleton
    <2>3. CASE ~IsExposed(m)
      <3>1. {i \in DOMAIN exposedHashes : exposedHashes[i] = m} = {}
        BY <2>1, <2>3 DEF ListsOnce
      <3>2. QED
        BY <2>3, <3>1, FS_EmptySet
    <2>4. QED
      BY <2>2, <2>3
  <1>2. ActiveDictionaryCount = Cardinality({c \in Contents : dictionaries[c].active})
    <2>. DEFINE active == {c \in Contents : dictionaries[c].active}
    <2>1. /\ dictionaryList \in Seq(Contents)
          /\ ListsOnce(dictionaryList, {c \in Contents : dictionaries[c].at > 0})
          /\ active \in SUBSET {c \in Contents : dictionaries[c].at > 0}
      BY DEF RecordsInv, ExposureTypeOK
    <2>2. {i \in DOMAIN dictionaryList : dictionaryList[i] \in active}
            = {i \in DOMAIN dictionaryList : dictionaries[dictionaryList[i]].active}
      BY <2>1
    <2>. HIDE DEF active
    <2>3. Cardinality({i \in DOMAIN dictionaryList : dictionaryList[i] \in active}) = Cardinality(active)
      BY <2>1, PlacesAreMembers
    <2>4. QED
      BY <2>2, <2>3 DEF ActiveDictionaryCount, active
  <1>3. QED
    BY <1>1, <1>2 DEF RecordsInv, ExposedContentRegistered, ExposedHaveRecords, ExposuresRecorded

\* Each step of an exposure rests on the one before (SocialBlobsCore.registerBlob,
\* BLSExposer._recordExposure, ExposureRecord.record, DictionaryRegistry.getActiveCount).
THEOREM ExposuresAlwaysRecorded == ExposureSpec => []ExposuresRecorded
  <1>1. ExposureSpec => []RecordsInv
    BY RecordsInitially, RecordsStep, PTL DEF ExposureSpec
  <1>2. QED
    BY <1>1, RecordsAreCounted, PTL

-----------------------------------------------------------------------------
(***************************************************************************)
(* The ether of the escrow.                                                *)
(***************************************************************************)
LEMMA WeiOfOne ==
  ASSUME NEW m, NEW n \in Nat
  PROVE  IsFiniteSet({m} \X (1 .. n)) /\ Cardinality({m} \X (1 .. n)) = n
  <1>. DEFINE named == [i \in 1 .. n |-> <<m, i>>]
  <1>1. named \in Bijection(1 .. n, {m} \X (1 .. n))
    <2>1. named \in [1 .. n -> {m} \X (1 .. n)]
      OBVIOUS
    <2>2. \A i, j \in DOMAIN named : named[i] = named[j] => i = j
      OBVIOUS
    <2>3. \A w \in {m} \X (1 .. n) : \E i \in 1 .. n : named[i] = w
      OBVIOUS
    <2>. HIDE DEF named
    <2>4. QED
      BY <2>1, <2>2, <2>3 DEF Bijection, Injection, IsInjective, Surjection
  <1>2. IsFiniteSet(1 .. n) /\ Cardinality(1 .. n) = n
    BY FS_Interval
  <1>3. QED
    BY <1>1, <1>2, FS_Bijection DEF ExistsBijection

SameOn(S, f, g) == \A n \in S : f[n] = g[n]

\* The wei once m is open beside the others, and once it is not.
Brings(amount, amount2, open, m) ==
    /\ IsFiniteSet(Wei(amount2, open \cup {m}))
    /\ Cardinality(Wei(amount2, open \cup {m})) = Cardinality(Wei(amount, open)) + amount2[m]

Takes(amount, amount2, open, m) ==
    /\ IsFiniteSet(Wei(amount2, open \ {m}))
    /\ Cardinality(Wei(amount2, open \ {m})) = Cardinality(Wei(amount, open)) - amount[m]

\* A case that opens brings its amount, and leaves the others theirs.
LEMMA WeiOpened ==
  ASSUME NEW amount, NEW amount2, NEW open, NEW m, m \notin open,
         IsFiniteSet(Wei(amount, open)), amount2[m] \in Nat, SameOn(open, amount2, amount)
  PROVE  Brings(amount, amount2, open, m)
  <1>. DEFINE old == Wei(amount, open)
              new == {m} \X (1 .. amount2[m])
  <1>1. Wei(amount2, open \cup {m}) = old \cup new
    <2>1. \A n \in open : {n} \X (1 .. amount2[n]) = {n} \X (1 .. amount[n])
      BY DEF SameOn
    <2>2. \A w : w \in Wei(amount2, open \cup {m}) <=> \E n \in open \cup {m} : w \in {n} \X (1 .. amount2[n])
      BY DEF Wei
    <2>3. \A w : w \in old <=> \E n \in open : w \in {n} \X (1 .. amount[n])
      BY DEF Wei
    <2>. HIDE DEF old
    <2>4. QED
      BY <2>1, <2>2, <2>3
  <1>2. old \cap new = {}
    <2>1. \A w \in old : \E n \in open : w \in {n} \X (1 .. amount[n])
      BY DEF Wei
    <2>. HIDE DEF old
    <2>2. QED
      BY <2>1
  <1>3. IsFiniteSet(new) /\ Cardinality(new) = amount2[m]
    BY WeiOfOne
  <1>4. Cardinality(old) \in Nat
    BY FS_CardinalityType
  <1>. HIDE DEF old, new
  <1>5. IsFiniteSet(old)
    BY DEF old
  <1>6. /\ IsFiniteSet(old \cup new)
        /\ Cardinality(old \cup new) = Cardinality(old) + Cardinality(new) - Cardinality(old \cap new)
    BY <1>3, <1>5, FS_Union
  <1>7. Cardinality(old \cap new) = 0
    BY <1>2, FS_EmptySet
  <1>8. Cardinality(old \cup new) = Cardinality(old) + amount2[m]
    BY <1>3, <1>4, <1>6, <1>7
  <1>9. QED
    BY <1>1, <1>6, <1>8 DEF old, Brings

\* A case that closes takes its amount along.
LEMMA WeiClosed ==
  ASSUME NEW amount, NEW amount2, NEW open, NEW m \in open,
         IsFiniteSet(Wei(amount, open)), amount[m] \in Nat, SameOn(open \ {m}, amount, amount2)
  PROVE  Takes(amount, amount2, open, m)
  <1>. DEFINE rest == open \ {m}
  <1>1. Wei(amount2, rest) \in SUBSET Wei(amount, open)
    <2>1. \A n \in rest : {n} \X (1 .. amount2[n]) = {n} \X (1 .. amount[n])
      BY DEF SameOn
    <2>2. \A w : w \in Wei(amount2, rest) <=> \E n \in rest : w \in {n} \X (1 .. amount2[n])
      BY DEF Wei
    <2>3. \A w : w \in Wei(amount, open) <=> \E n \in open : w \in {n} \X (1 .. amount[n])
      BY DEF Wei
    <2>4. QED
      BY <2>1, <2>2, <2>3
  <1>2. IsFiniteSet(Wei(amount2, rest))
    BY <1>1, FS_Subset
  <1>3. open = rest \cup {m} /\ m \notin rest /\ SameOn(rest, amount, amount2)
    OBVIOUS
  <1>4. Cardinality(Wei(amount2, rest)) \in Nat
    BY <1>2, FS_CardinalityType
  <1>. HIDE DEF rest
  <1>5. Brings(amount2, amount, rest, m)
    BY <1>2, <1>3, WeiOpened
  <1>6. Cardinality(Wei(amount2, rest)) = Cardinality(Wei(amount, open)) - amount[m]
    BY <1>3, <1>4, <1>5 DEF Brings
  <1>7. QED
    BY <1>2, <1>6 DEF rest, Takes

Staked == [m \in Messages |-> stakes[m].amount]
Active == {m \in Messages : stakes[m].active}
InDispute == {m \in Messages : Challenged(m)}

\* The invariant again, by the sets the lemmas speak of.
StakesInv ==
    /\ stakes \in [Messages -> [staker : Accounts \cup {NoKey}, amount : Nat, at : Nat, active : BOOLEAN]]
    /\ IsFiniteSet(Wei(Staked, Active)) /\ stakeBalance = Cardinality(Wei(Staked, Active))

DisputesInv ==
    /\ disputes \in [Messages -> [challenger : Accounts \cup {NoKey}, deadline : Nat,
                                  status : {"none", "challenged", "resolved", "rejected"}]]
    /\ disputeStakes \in [Messages -> Nat]
    /\ IsFiniteSet(Wei(disputeStakes, InDispute)) /\ disputeBalance = Cardinality(Wei(disputeStakes, InDispute))
    /\ \A m \in Messages : ~Challenged(m) => disputeStakes[m] = 0

LEMMA EscrowInvParts == EscrowInv <=> StakesInv /\ DisputesInv /\ now \in Nat
  BY DEF EscrowInv, EscrowTypeOK, EscrowConserved, StakesInv, DisputesInv, StakedWei, DisputedWei, Staked,
         Active, InDispute

LEMMA DepositKeeps ==
  ASSUME StakesInv, now \in Nat, NEW m \in Messages, NEW a \in Accounts, NEW v \in Amounts, Deposit(m, a, v)
  PROVE  StakesInv'
  <1>. USE ExposureAssumption DEF StakesInv
  <1>1. /\ ~stakes[m].active /\ v \in Nat
        /\ stakes' = [stakes EXCEPT ![m] = [staker |-> a, amount |-> v, at |-> now, active |-> TRUE]]
        /\ stakeBalance' = stakeBalance + v
    BY DEF Deposit
  <1>2. stakes' \in [Messages -> [staker : Accounts \cup {NoKey}, amount : Nat, at : Nat, active : BOOLEAN]]
    BY <1>1
  <1>3. /\ Active' = Active \cup {m} /\ m \notin Active
        /\ Staked'[m] = v /\ SameOn(Active, Staked', Staked)
    BY <1>1 DEF Active, Staked, SameOn
  <1>4. Brings(Staked, Staked', Active, m)
    <2>1. IsFiniteSet(Wei(Staked, Active)) /\ Staked'[m] \in Nat
      BY <1>1, <1>3
    <2>. HIDE DEF StakesInv
    <2>2. QED
      BY <1>3, <2>1, WeiOpened
  <1>5. IsFiniteSet(Wei(Staked', Active')) /\ stakeBalance' = Cardinality(Wei(Staked', Active'))
    BY <1>1, <1>3, <1>4 DEF Brings, Takes
  <1>6. QED
    BY <1>2, <1>5 DEF Wei

LEMMA ReleaseKeeps ==
  ASSUME StakesInv, NEW m \in Messages, NEW payee, Release(m, payee)
  PROVE  StakesInv'
  <1>. USE DEF StakesInv
  <1>1. /\ stakes[m].active
        /\ stakes' = [stakes EXCEPT ![m].active = FALSE, ![m].amount = 0]
        /\ stakeBalance' = stakeBalance - stakes[m].amount
    BY DEF Release
  <1>2. /\ stakes' \in [Messages -> [staker : Accounts \cup {NoKey}, amount : Nat, at : Nat, active : BOOLEAN]]
        /\ stakes'[m].active = FALSE
        /\ \A n \in Messages : n # m => stakes'[n] = stakes[n]
    BY <1>1
  <1>3. /\ Active' = Active \ {m} /\ m \in Active
        /\ Staked[m] = stakes[m].amount /\ Staked[m] \in Nat
        /\ SameOn(Active \ {m}, Staked, Staked')
    BY <1>1, <1>2 DEF Active, Staked, SameOn
  <1>4. Takes(Staked, Staked', Active, m)
    <2>1. IsFiniteSet(Wei(Staked, Active))
      OBVIOUS
    <2>. HIDE DEF StakesInv
    <2>2. QED
      BY <1>3, <2>1, WeiClosed
  <1>5. IsFiniteSet(Wei(Staked', Active')) /\ stakeBalance' = Cardinality(Wei(Staked', Active'))
    BY <1>1, <1>3, <1>4 DEF Brings, Takes
  <1>6. QED
    BY <1>2, <1>5 DEF Wei

LEMMA ChallengeKeeps ==
  ASSUME DisputesInv, now \in Nat, NEW m \in Messages, NEW a \in Accounts, NEW v \in Amounts, Challenge(m, a, v)
  PROVE  DisputesInv'
  <1>. USE ExposureAssumption DEF DisputesInv
  <1>1. /\ ~Challenged(m) /\ v \in Nat /\ now + ResolutionPeriod \in Nat
        /\ disputes' = [disputes EXCEPT ![m] =
              [challenger |-> a, deadline |-> now + ResolutionPeriod, status |-> "challenged"]]
        /\ disputeStakes' = [disputeStakes EXCEPT ![m] = v]
        /\ disputeBalance' = disputeBalance + v
    BY DEF Challenge
  <1>2. /\ disputes' \in [Messages -> [challenger : Accounts \cup {NoKey}, deadline : Nat,
                                       status : {"none", "challenged", "resolved", "rejected"}]]
        /\ disputeStakes' \in [Messages -> Nat]
    BY <1>1
  <1>3. /\ InDispute' = InDispute \cup {m} /\ m \notin InDispute
        /\ disputeStakes'[m] = v /\ SameOn(InDispute, disputeStakes', disputeStakes)
        /\ \A n \in Messages : ~(Challenged(n)') => disputeStakes'[n] = 0
    BY <1>1 DEF InDispute, Challenged, SameOn
  <1>4. Brings(disputeStakes, disputeStakes', InDispute, m)
    <2>1. IsFiniteSet(Wei(disputeStakes, InDispute)) /\ disputeStakes'[m] \in Nat
      BY <1>1, <1>3
    <2>. HIDE DEF DisputesInv
    <2>2. QED
      BY <1>3, <2>1, WeiOpened
  <1>5. /\ IsFiniteSet(Wei(disputeStakes', InDispute'))
        /\ disputeBalance' = Cardinality(Wei(disputeStakes', InDispute'))
    BY <1>1, <1>3, <1>4 DEF Brings, Takes
  <1>6. QED
    BY <1>2, <1>3, <1>5 DEF Wei

LEMMA SettleKeeps ==
  ASSUME DisputesInv, NEW m \in Messages, NEW status \in {"resolved", "rejected"}, NEW payee,
         Settle(m, status, payee)
  PROVE  DisputesInv'
  <1>. USE DEF DisputesInv
  <1>1. /\ Challenged(m)
        /\ disputes' = [disputes EXCEPT ![m].status = status]
        /\ disputeStakes' = [disputeStakes EXCEPT ![m] = 0]
        /\ disputeBalance' = disputeBalance - disputeStakes[m]
    BY DEF Settle
  <1>2. /\ disputes' \in [Messages -> [challenger : Accounts \cup {NoKey}, deadline : Nat,
                                       status : {"none", "challenged", "resolved", "rejected"}]]
        /\ disputeStakes' \in [Messages -> Nat]
        /\ disputes'[m].status = status
        /\ \A n \in Messages : n # m => disputes'[n] = disputes[n]
    BY <1>1
  <1>3. /\ InDispute' = InDispute \ {m} /\ m \in InDispute
        /\ disputeStakes[m] \in Nat /\ SameOn(InDispute \ {m}, disputeStakes, disputeStakes')
        /\ \A n \in Messages : ~(Challenged(n)') => disputeStakes'[n] = 0
    BY <1>1, <1>2 DEF InDispute, Challenged, SameOn
  <1>4. Takes(disputeStakes, disputeStakes', InDispute, m)
    <2>1. IsFiniteSet(Wei(disputeStakes, InDispute))
      OBVIOUS
    <2>. HIDE DEF DisputesInv
    <2>2. QED
      BY <1>3, <2>1, WeiClosed
  <1>5. /\ IsFiniteSet(Wei(disputeStakes', InDispute'))
        /\ disputeBalance' = Cardinality(Wei(disputeStakes', InDispute'))
    BY <1>1, <1>3, <1>4 DEF Brings, Takes
  <1>6. QED
    BY <1>2, <1>3, <1>5 DEF Wei

LEMMA EscrowInitially == ExposureInit => EscrowInv
  <1>. SUFFICES ASSUME ExposureInit PROVE EscrowInv
    OBVIOUS
  <1>. USE ExposureAssumption DEF ExposureInit
  <1>1. /\ EscrowTypeOK /\ stakeBalance = 0 /\ disputeBalance = 0
        /\ \A m \in Messages : ~Challenged(m) /\ disputeStakes[m] = 0 /\ ~stakes[m].active
    BY DEF EscrowTypeOK, NoStake, NoDispute, Challenged
  <1>2. StakedWei = {} /\ DisputedWei = {}
    BY <1>1 DEF StakedWei, DisputedWei, Wei
  <1>3. QED
    BY <1>1, <1>2, FS_EmptySet DEF EscrowInv, EscrowConserved

EscrowParts == StakesInv /\ DisputesInv /\ now \in Nat

LEMMA EscrowStep == EscrowInv /\ [ExposureNext]_chainVars => EscrowInv'
  <1>. SUFFICES ASSUME EscrowInv, [ExposureNext]_chainVars PROVE EscrowParts'
    BY DEF EscrowParts, EscrowInv, EscrowTypeOK, EscrowConserved, StakesInv, DisputesInv, StakedWei,
           DisputedWei, Staked, Active, InDispute
  <1>i. StakesInv /\ DisputesInv /\ now \in Nat
    BY EscrowInvParts
  <1>s. UNCHANGED <<stakes, stakeBalance>> => StakesInv'
    BY <1>i DEF StakesInv, Staked, Active, Wei
  <1>d. UNCHANGED <<disputes, disputeStakes, disputeBalance>> => DisputesInv'
    BY <1>i DEF DisputesInv, InDispute, Challenged, Wei
  <1>f. UNCHANGED escrowVars => EscrowParts'
    BY <1>i, <1>s, <1>d DEF escrowVars, EscrowParts
  <1>t. PassTime => EscrowParts'
    BY <1>i, <1>s, <1>d DEF PassTime, stakeVars, disputeVars, EscrowParts
  <1>r. ASSUME NEW m, NEW o, NEW a, Record(m, o, a) PROVE EscrowParts'
    BY <1>f, <1>r DEF Record, escrowVars, disputeVars, stakeVars
  <1>1. CASE ExposeNext
    <2>1. ASSUME UNCHANGED exposureVars PROVE EscrowParts'
      BY <1>f, <2>1 DEF exposureVars, escrowVars, disputeVars, stakeVars
    <2>2. ASSUME NEW core, SetCore(core) PROVE EscrowParts'
      BY <1>f, <2>2 DEF SetCore, escrowVars, disputeVars, stakeVars
    <2>3. ASSUME NEW c, RegisterContent(c) \/ RegisterElsewhere(c) PROVE EscrowParts'
      BY <1>f, <2>3 DEF RegisterContent, RegisterElsewhere, escrowVars, disputeVars, stakeVars
    <2>4. ASSUME NEW m, NEW sig, Expose(m, sig) \/ ExposeFromCalldata(m, sig) PROVE EscrowParts'
      BY <1>f, <2>4 DEF Expose, ExposeFromCalldata, MarkExposed, escrowVars, disputeVars, stakeVars
    <2>5. QED
      BY <1>1, <1>r, <2>1, <2>2, <2>3, <2>4 DEF ExposeNext
  <1>2. CASE DisputeNext
    <2>1. ASSUME NEW m \in Messages, NEW a \in Accounts, NEW v \in Amounts, Challenge(m, a, v)
          PROVE  EscrowParts'
      <3>1. UNCHANGED <<now, stakes, stakeBalance>>
        BY <2>1 DEF Challenge, stakeVars
      <3>2. QED
        BY <1>i, <1>s, <2>1, <3>1, ChallengeKeeps DEF EscrowParts
    <2>2. ASSUME NEW m \in Messages, NEW status \in {"resolved", "rejected"}, NEW payee,
                 Settle(m, status, payee)
          PROVE  EscrowParts'
      <3>1. UNCHANGED <<now, stakes, stakeBalance>>
        BY <2>2 DEF Settle, stakeVars
      <3>2. QED
        BY <1>i, <1>s, <2>2, <3>1, SettleKeeps DEF EscrowParts
    <2>3. ASSUME NEW m \in Messages, NEW a, NEW valid, Resolve(m, a, valid) \/ ClaimExpiredDispute(m)
          PROVE  EscrowParts'
      BY <2>2, <2>3 DEF Resolve, ClaimExpiredDispute
    <2>4. ASSUME AdministerDisputes PROVE EscrowParts'
      BY <1>f, <2>4 DEF AdministerDisputes, escrowVars, stakeVars
    <2>5. QED
      BY <1>2, <1>r, <1>t, <2>1, <2>3, <2>4 DEF DisputeNext
  <1>3. CASE StakeNext
    <2>1. ASSUME NEW m \in Messages, NEW a \in Accounts, NEW v \in Amounts, Deposit(m, a, v)
          PROVE  EscrowParts'
      <3>1. UNCHANGED <<now, disputes, disputeStakes, disputeBalance>>
        BY <2>1 DEF Deposit, disputeVars
      <3>2. QED
        BY <1>i, <1>d, <2>1, <3>1, DepositKeeps DEF EscrowParts
    <2>2. ASSUME NEW m \in Messages, NEW a, NEW b, Withdraw(m, a) \/ Slash(m, a, b) PROVE EscrowParts'
      <3>1. PICK payee : Release(m, payee)
        BY <2>2 DEF Withdraw, Slash
      <3>2. UNCHANGED <<now, disputes, disputeStakes, disputeBalance>>
        BY <3>1 DEF Release, disputeVars
      <3>3. QED
        BY <1>i, <1>d, <3>1, <3>2, ReleaseKeeps DEF EscrowParts
    <2>3. ASSUME AdministerStakes PROVE EscrowParts'
      BY <1>f, <2>3 DEF AdministerStakes, escrowVars, disputeVars
    <2>4. QED
      BY <1>3, <1>t, <2>1, <2>2, <2>3 DEF StakeNext
  <1>4. CASE DictionaryNext
    <2>1. ASSUME NEW c, RegisterDictionary(c) \/ DeactivateDictionary(c) PROVE EscrowParts'
      BY <1>f, <2>1 DEF RegisterDictionary, DeactivateDictionary, escrowVars, disputeVars, stakeVars
    <2>2. QED
      BY <1>4, <1>t, <2>1 DEF DictionaryNext
  <1>5. CASE UNCHANGED exposureVars
    BY <1>f, <1>5 DEF exposureVars, escrowVars, disputeVars, stakeVars
  <1>6. QED
    BY <1>1, <1>2, <1>3, <1>4, <1>5 DEF ExposureNext, chainVars

\* The contracts hold exactly the ether of what is open, whichever payee refused
\* (StakeManager.withdraw and slash, DisputeManager.resolve and claimExpiredDispute).
THEOREM EscrowAlwaysConserved == ExposureSpec => []EscrowConserved
  <1>1. EscrowInv => EscrowConserved
    BY DEF EscrowInv
  <1>2. ExposureSpec => []EscrowInv
    BY EscrowInitially, EscrowStep, PTL DEF ExposureSpec
  <1>3. QED
    BY <1>1, <1>2, PTL

-----------------------------------------------------------------------------
(* The invariant behind ProvenOnceWithoutGap *)

Candidate == [batch : L1Batches, at : Nat]

CoprocessorTypeOK ==
    /\ position \in [L1Batches -> Nat]
    /\ confirmed \subseteq L1Batches /\ archived \subseteq L1Batches
    /\ watermark \in [Jobs -> Nat]
    /\ rows \in [Jobs -> [Hashes -> Nat]]
    /\ vkCached \in BOOLEAN /\ proofWaits \in BOOLEAN
    /\ holder \in Jobs \cup {"none"}
    /\ step \in {"idle", "started", "fetched"}
    /\ candidates \subseteq Candidate /\ computed \subseteq Candidate
    /\ seen \subseteq L1Batches \X Nat
    /\ paid \in [L1Batches \X Positions -> Nat]
    /\ faults \in Nat

\* Confirmed batches have coordinates of their own, and what P listed and no
\* reorg dropped is confirmed where it was listed.
Listed ==
    /\ \A b \in confirmed : position[b] \in Positions
    /\ \A b, d \in confirmed : position[b] = position[d] => b = d
    /\ \A e \in seen : e[1] \in confirmed /\ position[e[1]] = e[2]

\* A tick that has not fetched holds no candidate, and only a tick has a holder.
Ticking ==
    /\ step = "idle" <=> holder = "none"
    /\ step # "fetched" => candidates = {} /\ computed = {}

AsCandidate(e) == [batch |-> e[1], at |-> e[2]]

\* The rest of a proof tick: its candidates lie past the watermark, the computed
\* one first, and nothing listed is skipped between them.
InOrder ==
    step = "fetched" /\ holder = "proof" =>
        /\ \A c \in candidates \cup computed :
              c.at \in Positions /\ watermark["proof"] < c.at
        /\ \A c, d \in candidates : c.at = d.at => c = d
        /\ \A c \in computed :
              /\ \A d \in computed : c = d
              /\ \A d \in candidates : c.at < d.at
        /\ \A e \in seen : watermark["proof"] < e[2] =>
              \/ AsCandidate(e) \in candidates \cup computed
              \/ \A c \in candidates \cup computed : c.at < e[2]

\* A request is owed to a fault, or to the row that is committed or about to be.
Owed(b, p) ==
    \/ p <= watermark["proof"]
    \/ holder = "proof" /\ [batch |-> b, at |-> p] \in computed
PaidFor ==
    \A b \in L1Batches, p \in Positions :
        /\ paid[<<b, p>>] <= faults + 1
        /\ ~Owed(b, p) => paid[<<b, p>>] <= faults

CoprocessorInv ==
    CoprocessorTypeOK /\ Listed /\ Ticking /\ InOrder /\ PaidFor /\ NoListedGap

-----------------------------------------------------------------------------
(* Lemmas about what a tick lists *)

\* The oldest of a set of batches are an initial part of it.
LEMMA OldestFirst ==
  ASSUME CoprocessorTypeOK, NEW S \in SUBSET L1Batches, NEW n \in Nat,
         NEW b \in S, NEW c \in Oldest(S, n), position[b] <= position[c]
  PROVE  b \in Oldest(S, n)
  <1> DEFINE Below(d) == {x \in S : position[x] < position[d]}
  <1>1. IsFiniteSet(S)
    BY FS_Subset, CoprocessorAssumption
  <1>2. IsFiniteSet(Below(c)) /\ IsFiniteSet(Below(b))
    BY <1>1, FS_Subset
  <1>3. Below(b) \subseteq Below(c)
    <2>1. c \in S /\ position \in [L1Batches -> Nat]
      BY DEF Oldest, CoprocessorTypeOK
    <2>2. QED
      BY <2>1
  <1>4. Cardinality(Below(b)) <= Cardinality(Below(c))
    BY <1>2, <1>3, FS_Subset
  <1>5. Cardinality(Below(b)) \in Nat /\ Cardinality(Below(c)) \in Nat
    BY <1>2, FS_CardinalityType
  <1>6. Cardinality(Below(c)) < n
    BY DEF Oldest
  <1>7. Cardinality(Below(b)) < n
    <2> HIDE DEF Below
    <2>1. QED
      BY <1>4, <1>5, <1>6
  <1>8. QED
    BY <1>7 DEF Oldest

LEMMA TypeFacts ==
  ASSUME CoprocessorTypeOK
  PROVE  /\ position \in [L1Batches -> Nat] /\ watermark["proof"] \in Nat
         /\ watermark \in [Jobs -> Nat] /\ "proof" \in Jobs
         /\ BatchLimit \in [Jobs -> Nat \ {0}] /\ PageLimit \in Nat
         /\ confirmed \subseteq L1Batches /\ ListMessages \subseteq confirmed
         /\ \A job : Past(job) \subseteq ListMessages
  BY CoprocessorAssumption
  DEF CoprocessorTypeOK, Jobs, ListMessages, Past, Oldest

\* What a proof tick lists past its watermark is a candidate of the tick, or
\* comes after all of them; so does what an earlier tick has listed.
LEMMA FetchedInOrder ==
  ASSUME CoprocessorTypeOK, Listed, NEW b \in confirmed,
         watermark["proof"] < position[b]
  PROVE  \/ AsCandidate(<<b, position[b]>>) \in Unprocessed("proof")
         \/ \A c \in Unprocessed("proof") : c.at < position[b]
  <1> SUFFICES ASSUME NEW c \in Unprocessed("proof"), ~(c.at < position[b])
               PROVE  AsCandidate(<<b, position[b]>>) \in Unprocessed("proof")
    OBVIOUS
  <1>1. PICK d \in Oldest(Past("proof"), BatchLimit["proof"]) :
           c = [batch |-> d, at |-> position[d]]
    BY DEF Unprocessed
  <1>2. /\ d \in Past("proof") /\ d \in ListMessages /\ d \in confirmed
        /\ d \in L1Batches /\ b \in L1Batches
        /\ confirmed \in SUBSET L1Batches /\ Past("proof") \in SUBSET L1Batches
        /\ PageLimit \in Nat /\ BatchLimit["proof"] \in Nat
    BY <1>1, TypeFacts DEF Oldest
  <1>3. position[b] <= position[d]
    BY <1>1, <1>2, TypeFacts
  <1>4. b \in ListMessages
    BY <1>2, <1>3, OldestFirst DEF ListMessages
  <1>5. b \in Past("proof")
    BY <1>4 DEF Past
  <1>6. b \in Oldest(Past("proof"), BatchLimit["proof"])
    BY <1>1, <1>2, <1>3, <1>5, OldestFirst
  <1>7. QED
    BY <1>6 DEF Unprocessed, AsCandidate

-----------------------------------------------------------------------------
(* The rows the jobs read *)

LEMMA InvFacts ==
  ASSUME CoprocessorInv
  PROVE  /\ CoprocessorTypeOK /\ Listed /\ Ticking /\ InOrder /\ PaidFor /\ NoListedGap
         /\ watermark["proof"] \in Nat /\ faults \in Nat
         /\ candidates \subseteq Candidate /\ computed \subseteq Candidate
         /\ "proof" \in Jobs /\ "validation" \in Jobs
         /\ \A h \in Hashes : rows["proof"][h] \in Nat
         /\ \A e \in seen : e[1] \in L1Batches /\ e[2] \in Nat /\ Carries[e[1]] \in Hashes
  BY DEF CoprocessorInv, CoprocessorTypeOK, Jobs, Hashes

LEMMA ConfirmStep ==
  ASSUME CoprocessorInv, NEW b \in L1Batches, NEW p \in Positions, Confirm(b, p)
  PROVE  CoprocessorInv'
  <1>1. /\ position' = [position EXCEPT ![b] = p] /\ confirmed' = confirmed \cup {b}
        /\ UNCHANGED <<archived, tables, tick, proofWaits, seen, paid, faults>>
        /\ \A d \in confirmed : position[d] # p /\ Carries[d] # Carries[b]
        /\ p \in Nat
    BY DEF Confirm, Positions
  <1>2. b \notin confirmed
    BY <1>1
  <1>3. CoprocessorTypeOK'
    BY <1>1, InvFacts DEF CoprocessorTypeOK, tables, tick
  <1>4. Listed'
    <2>1. \A d \in confirmed : position'[d] = position[d]
      BY <1>1, <1>2, InvFacts DEF CoprocessorTypeOK
    <2>2. position'[b] = p
      BY <1>1, InvFacts DEF CoprocessorTypeOK
    <2>3. QED
      BY <1>1, <2>1, <2>2, InvFacts DEF Listed
  <1>5. Ticking' /\ InOrder' /\ PaidFor' /\ NoListedGap'
    BY <1>1, InvFacts DEF Ticking, InOrder, PaidFor, Owed, NoListedGap, tables, tick
  <1>6. QED
    BY <1>3, <1>4, <1>5 DEF CoprocessorInv

LEMMA ArchiveStep ==
  ASSUME CoprocessorInv, NEW b \in L1Batches, Archive(b)
  PROVE  CoprocessorInv'
  BY InvFacts
  DEF Archive, CoprocessorInv, CoprocessorTypeOK, Listed, Ticking, InOrder, PaidFor, Owed,
      NoListedGap, tables, tick

LEMMA ReorgStep ==
  ASSUME CoprocessorInv, NEW b \in L1Batches, Reorg(b)
  PROVE  CoprocessorInv'
  <1>1. /\ confirmed' = confirmed \ {b} /\ seen' = {e \in seen : e[1] # b}
        /\ UNCHANGED <<position, archived, tables, tick, proofWaits, paid, faults>>
    BY DEF Reorg
  <1>2. seen' \subseteq seen /\ confirmed' \subseteq confirmed
    BY <1>1
  <1>3. CoprocessorTypeOK'
    BY <1>1, InvFacts DEF CoprocessorTypeOK, tables, tick
  <1>4. Listed'
    BY <1>1, InvFacts DEF Listed
  <1>5. Ticking' /\ InOrder' /\ PaidFor' /\ NoListedGap'
    BY <1>1, <1>2, InvFacts DEF Ticking, InOrder, PaidFor, Owed, NoListedGap, tables, tick
  <1>6. QED
    BY <1>3, <1>4, <1>5 DEF CoprocessorInv

-----------------------------------------------------------------------------
(* Ticks *)

\* A tick that begins holds nothing yet.
LEMMA BeginStep ==
  ASSUME CoprocessorInv, StartValidation \/ StartProof \/ CronProof
  PROVE  CoprocessorInv'
  <1>1. CASE CronProof
    BY <1>1, InvFacts
    DEF CronProof, CoprocessorInv, CoprocessorTypeOK, Listed, Ticking, InOrder, PaidFor, Owed,
        NoListedGap, readerRows, tables, tick
  <1>2. CASE StartValidation \/ StartProof
    <2>1. /\ holder = "none" /\ holder' \in Jobs /\ holder' # "none" /\ step' = "started"
          /\ UNCHANGED <<readerRows, tables, candidates, computed, seen, paid, faults>>
          /\ proofWaits' \in BOOLEAN
      BY <1>2, InvFacts DEF StartValidation, StartProof, Jobs, CoprocessorTypeOK
    <2>2. step # "fetched" /\ candidates = {} /\ computed = {}
      BY <2>1, InvFacts DEF Ticking
    <2>3. CoprocessorTypeOK'
      BY <2>1, InvFacts DEF CoprocessorTypeOK, readerRows, tables
    <2>4. Listed' /\ Ticking' /\ InOrder' /\ NoListedGap'
      BY <2>1, <2>2, InvFacts DEF Listed, Ticking, InOrder, NoListedGap, readerRows, tables
    <2>5. PaidFor'
      BY <2>1, <2>2, InvFacts DEF PaidFor, Owed, tables
    <2>6. QED
      BY <2>3, <2>4, <2>5 DEF CoprocessorInv
  <1>3. QED
    BY <1>1, <1>2

\* A tick that ends without computing keeps what it had paid for; one that a
\* fault ends may lose one request.
LEMMA EndStep ==
  ASSUME CoprocessorInv, EndTick, UNCHANGED <<readerRows, tables, seen, paid>>,
         proofWaits' \in BOOLEAN, faults' \in Nat,
         faults' = faults + 1 \/ (faults' = faults /\ computed = {})
  PROVE  CoprocessorInv'
  <1>1. /\ step' = "idle" /\ holder' = "none" /\ candidates' = {} /\ computed' = {}
    BY DEF EndTick
  <1>2. CoprocessorTypeOK'
    BY <1>1, InvFacts DEF CoprocessorTypeOK, readerRows, tables
  <1>3. Listed' /\ Ticking' /\ InOrder' /\ NoListedGap'
    BY <1>1, InvFacts DEF Listed, Ticking, InOrder, NoListedGap, readerRows, tables
  <1>4. PaidFor'
    <2> SUFFICES ASSUME NEW b \in L1Batches, NEW p \in Positions
                 PROVE  /\ paid'[<<b, p>>] <= faults' + 1
                        /\ ~Owed(b, p)' => paid'[<<b, p>>] <= faults'
      BY DEF PaidFor
    <2>1. /\ paid[<<b, p>>] <= faults + 1 /\ (~Owed(b, p) => paid[<<b, p>>] <= faults)
          /\ paid[<<b, p>>] \in Nat /\ faults \in Nat /\ paid' = paid
      BY InvFacts DEF PaidFor, CoprocessorTypeOK
    <2>2. CASE faults' = faults + 1
      BY <2>1, <2>2
    <2>3. CASE faults' = faults /\ computed = {}
      BY <1>1, <2>1, <2>3 DEF Owed, tables
    <2>4. QED
      BY <2>2, <2>3
  <1>5. QED
    BY <1>2, <1>3, <1>4 DEF CoprocessorInv

LEMMA FaultStep ==
  ASSUME CoprocessorInv, StepFails \/ Restart
  PROVE  CoprocessorInv'
  <1>1. /\ EndTick /\ UNCHANGED <<readerRows, tables, seen, paid>>
        /\ faults' = faults + 1 /\ proofWaits' \in BOOLEAN /\ faults' \in Nat
    <2>1. faults' = faults + 1 /\ faults \in Nat
      BY InvFacts DEF StepFails, Restart
    <2>2. proofWaits \in BOOLEAN
      BY InvFacts DEF CoprocessorTypeOK
    <2>3. EndTick /\ UNCHANGED <<readerRows, tables, seen, paid>> /\ proofWaits' \in BOOLEAN
      BY <2>2 DEF StepFails, Restart
    <2>4. QED
      BY <2>1, <2>3
  <1>2. QED
    BY <1>1, EndStep

LEMMA RefuseStep ==
  ASSUME CoprocessorInv, NEW c \in candidates, Refuse(c)
  PROVE  CoprocessorInv'
  <1>1. /\ EndTick /\ UNCHANGED <<readerRows, tables, seen, paid>> /\ computed = {}
        /\ faults' = faults /\ proofWaits' \in BOOLEAN /\ faults' \in Nat
    BY InvFacts DEF Refuse, Turn, CoprocessorTypeOK
  <1>2. QED
    BY <1>1, EndStep

LEMMA FetchStep ==
  ASSUME CoprocessorInv, FetchCandidates
  PROVE  CoprocessorInv'
  <1> DEFINE new == {<<b, position[b]>> : b \in Past("proof")}
  <1>1. /\ step = "started" /\ candidates = {} /\ computed = {}
        /\ UNCHANGED <<readerRows, tables, proofWaits, paid, faults>>
        /\ seen' = IF holder = "proof" THEN seen \cup new ELSE seen
        /\ holder \in Jobs /\ computed' = {} /\ step' \in {"idle", "fetched"}
        /\ candidates' \subseteq Unprocessed(holder)
    BY InvFacts DEF FetchCandidates, Ticking, CoprocessorTypeOK, EndTick
  <1>2. \A e \in new : /\ e[1] \in L1Batches /\ e[2] \in Nat /\ e[1] \in confirmed
                       /\ e[2] = position[e[1]] /\ watermark["proof"] < e[2]
                       /\ e = <<e[1], e[2]>>
    BY InvFacts, TypeFacts DEF Past
  <1>3. Unprocessed(holder) \subseteq Candidate
    <2>1. \A b \in Oldest(Past(holder), BatchLimit[holder]) :
             b \in L1Batches /\ position[b] \in Nat
      BY InvFacts, TypeFacts DEF Oldest
    <2>2. QED
      BY <2>1 DEF Unprocessed, Candidate
  <1>4. Listed'
    BY <1>1, <1>2, InvFacts DEF Listed, readerRows
  <1>5. NoListedGap'
    BY <1>1, <1>2, InvFacts DEF NoListedGap, tables
  <1>6. PaidFor'
    BY <1>1, InvFacts DEF PaidFor, Owed, tables
  <1>7. CASE Unprocessed(holder) = {}
    <2>1. step' = "idle" /\ holder' = "none" /\ candidates' = {}
      BY <1>1, <1>7 DEF FetchCandidates, EndTick
    <2>2. CoprocessorTypeOK'
      BY <1>1, <1>2, <2>1, InvFacts DEF CoprocessorTypeOK, readerRows, tables
    <2>3. Ticking' /\ InOrder'
      BY <1>1, <2>1 DEF Ticking, InOrder
    <2>4. QED
      BY <1>4, <1>5, <1>6, <2>2, <2>3 DEF CoprocessorInv
  <1>8. CASE Unprocessed(holder) # {}
    <2>1. step' = "fetched" /\ holder' = holder /\ candidates' = Unprocessed(holder)
      BY <1>1, <1>8 DEF FetchCandidates
    <2>2. CoprocessorTypeOK'
      BY <1>1, <1>2, <1>3, <2>1, InvFacts DEF CoprocessorTypeOK, readerRows, tables
    <2>3. Ticking'
      BY <1>1, <2>1 DEF Ticking, Jobs
    <2>4. InOrder'
      <3> SUFFICES ASSUME holder = "proof"
                   PROVE  /\ \A c \in Unprocessed("proof") :
                                c.at \in Positions /\ watermark["proof"] < c.at
                          /\ \A c, d \in Unprocessed("proof") : c.at = d.at => c = d
                          /\ \A e \in seen' : watermark["proof"] < e[2] =>
                                \/ AsCandidate(e) \in Unprocessed("proof")
                                \/ \A c \in Unprocessed("proof") : c.at < e[2]
        BY <1>1, <2>1 DEF InOrder, tables
      <3>1. ASSUME NEW c \in Unprocessed("proof")
            PROVE  \E b \in confirmed : /\ c = [batch |-> b, at |-> position[b]]
                                        /\ watermark["proof"] < position[b]
        BY TypeFacts, InvFacts DEF Unprocessed, Oldest, Past
      <3>2. \A c \in Unprocessed("proof") : c.at \in Positions /\ watermark["proof"] < c.at
        BY <3>1, InvFacts DEF Listed
      <3>3. \A c, d \in Unprocessed("proof") : c.at = d.at => c = d
        BY <3>1, InvFacts DEF Listed
      <3>4. ASSUME NEW e \in seen', watermark["proof"] < e[2]
            PROVE  \/ AsCandidate(e) \in Unprocessed("proof")
                   \/ \A c \in Unprocessed("proof") : c.at < e[2]
        <4>1. e[1] \in confirmed /\ e[2] = position[e[1]]
          BY <1>1, <1>2, <3>4, InvFacts DEF Listed
        <4>2. AsCandidate(e) = AsCandidate(<<e[1], position[e[1]]>>)
          BY <4>1 DEF AsCandidate
        <4>3. QED
          BY <3>4, <4>1, <4>2, FetchedInOrder, InvFacts
      <3>5. QED
        BY <3>2, <3>3, <3>4
    <2>5. QED
      BY <1>4, <1>5, <1>6, <2>2, <2>3, <2>4 DEF CoprocessorInv
  <1>9. QED
    BY <1>7, <1>8

-----------------------------------------------------------------------------
(* A candidate *)

LEMMA ComputeStep ==
  ASSUME CoprocessorInv, NEW c \in candidates, Compute(c)
  PROVE  CoprocessorInv'
  <1> DEFINE k == [c EXCEPT !.at = position[c.batch]]
  <1>1. /\ step = "fetched" /\ computed = {} /\ \A d \in candidates : c.at <= d.at
        /\ candidates' = candidates \ {c} /\ computed' = {k}
        /\ holder = "proof" => position[c.batch] = c.at
        /\ paid' = IF holder = "proof" THEN [paid EXCEPT ![<<c.batch, c.at>>] = @ + 1] ELSE paid
        /\ UNCHANGED <<readerRows, tables, holder, step, proofWaits, seen, faults>>
    BY DEF Compute, Turn, CandidateMatches
  <1>2. /\ c \in Candidate /\ c.batch \in L1Batches /\ c.at \in Nat
        /\ c = [batch |-> c.batch, at |-> c.at]
    BY InvFacts DEF Candidate
  <1>3. k \in Candidate /\ (holder = "proof" => k = c)
    BY <1>1, <1>2, InvFacts, TypeFacts DEF Candidate
  <1> HIDE DEF k
  <1>4. CoprocessorTypeOK'
    <2>1. paid' \in [L1Batches \X Positions -> Nat]
      <3>1. paid \in [L1Batches \X Positions -> Nat]
        BY InvFacts DEF CoprocessorTypeOK
      <3>2. CASE holder = "proof"
        <4>1. <<c.batch, c.at>> \in L1Batches \X Positions
          BY <1>1, <1>2, <3>2, InvFacts DEF InOrder
        <4>2. paid[<<c.batch, c.at>>] + 1 \in Nat
          BY <3>1, <4>1
        <4>3. paid' = [paid EXCEPT ![<<c.batch, c.at>>] = paid[<<c.batch, c.at>>] + 1]
          BY <1>1, <3>2
        <4>4. QED
          BY <3>1, <4>1, <4>2, <4>3
      <3>3. CASE holder # "proof"
        BY <1>1, <3>1, <3>3
      <3>4. QED
        BY <3>2, <3>3
    <2>2. QED
      BY <1>1, <1>3, <2>1, InvFacts DEF CoprocessorTypeOK, readerRows, tables
  <1>5. Listed' /\ Ticking' /\ NoListedGap'
    BY <1>1, InvFacts DEF Listed, Ticking, NoListedGap, readerRows, tables
  <1>6. InOrder'
    <2> SUFFICES ASSUME holder = "proof"
                 PROVE  InOrder'
      BY <1>1 DEF InOrder
    <2>1. computed' = {c} /\ candidates' = candidates \ {c} /\ watermark' = watermark
          /\ seen' = seen
          /\ candidates' \cup computed' = candidates \cup computed
      BY <1>1, <1>3 DEF tables
    <2>2. \A d \in candidates' : c.at < d.at
      <3> TAKE d \in candidates'
      <3>1. d \in candidates /\ d # c /\ d.at \in Nat /\ c.at <= d.at /\ d.at # c.at
        BY <1>1, <2>1, InvFacts DEF InOrder, Candidate
      <3>2. QED
        BY <1>2, <3>1
    <2>3. QED
      BY <1>1, <2>1, <2>2, InvFacts DEF InOrder
  <1>7. PaidFor'
    <2> SUFFICES ASSUME NEW b \in L1Batches, NEW p \in Positions
                 PROVE  /\ paid'[<<b, p>>] <= faults' + 1
                        /\ ~Owed(b, p)' => paid'[<<b, p>>] <= faults'
      BY DEF PaidFor
    <2>1. /\ paid[<<b, p>>] <= faults + 1 /\ (~Owed(b, p) => paid[<<b, p>>] <= faults)
          /\ paid[<<b, p>>] \in Nat /\ faults \in Nat
          /\ faults' = faults /\ watermark' = watermark /\ holder' = holder
      BY <1>1, InvFacts DEF PaidFor, CoprocessorTypeOK, tables
    <2>2. Owed(b, p) <=> p <= watermark["proof"]
      BY <1>1 DEF Owed
    <2>3. CASE holder = "proof" /\ <<b, p>> = <<c.batch, c.at>>
      <3>1. paid'[<<b, p>>] = paid[<<b, p>>] + 1
        BY <1>1, <2>3, InvFacts DEF CoprocessorTypeOK
      <3>2. Owed(b, p)'
        BY <1>1, <1>2, <1>3, <2>1, <2>3 DEF Owed
      <3>3. ~Owed(b, p)
        <4>1. watermark["proof"] < c.at /\ p = c.at
          BY <1>1, <2>3, InvFacts DEF InOrder
        <4>2. QED
          BY <1>2, <2>2, <4>1, InvFacts
      <3>4. QED
        BY <2>1, <3>1, <3>2, <3>3
    <2>4. CASE ~(holder = "proof" /\ <<b, p>> = <<c.batch, c.at>>)
      <3>1. paid'[<<b, p>>] = paid[<<b, p>>]
        BY <1>1, <2>4, InvFacts DEF CoprocessorTypeOK
      <3>2. Owed(b, p) => Owed(b, p)'
        BY <2>1, <2>2 DEF Owed
      <3>3. QED
        BY <2>1, <3>1, <3>2
    <2>5. QED
      BY <2>3, <2>4
  <1>8. QED
    BY <1>4, <1>5, <1>6, <1>7 DEF CoprocessorInv

\* The end of a candidate leaves the others of its tick, or ends it.
LEMMA NextCandidateFacts ==
  ASSUME NextCandidate, step = "fetched"
  PROVE  /\ computed' = {} /\ candidates' = candidates
         /\ \/ holder' = holder /\ step' = step
            \/ holder' = "none" /\ step' = "idle" /\ candidates' = {}
         /\ step' \in {"idle", "fetched"}
  BY DEF NextCandidate, EndTick

LEMMA CommitStep ==
  ASSUME CoprocessorInv, NEW c \in computed, Commit(c)
  PROVE  CoprocessorInv'
  <1> DEFINE h == Carries[c.batch]
  <1>1. /\ rows' = [rows EXCEPT ![holder] = InsertRow(@, h, c.at)]
        /\ watermark' = [watermark EXCEPT ![holder] = c.at]
        /\ vkCached' = (vkCached \/ holder = "proof")
        /\ UNCHANGED <<readerRows, proofWaits, seen, paid, faults>>
        /\ NextCandidate
    BY DEF Commit
  <1>2. /\ step = "fetched" /\ holder \in Jobs /\ holder # "none"
        /\ c \in Candidate /\ c.batch \in L1Batches /\ c.at \in Nat /\ h \in Hashes
    BY InvFacts DEF Ticking, CoprocessorTypeOK, Candidate, Hashes
  <1>3. /\ computed' = {} /\ candidates' = candidates
        /\ \/ holder' = holder /\ step' = step
           \/ holder' = "none" /\ step' = "idle" /\ candidates' = {}
        /\ step' \in {"idle", "fetched"}
    BY <1>1, <1>2, NextCandidateFacts
  <1> HIDE DEF h
  <1>4. CoprocessorTypeOK'
    <2>1. InsertRow(rows[holder], h, c.at) \in [Hashes -> Nat]
      BY <1>2, InvFacts DEF InsertRow, CoprocessorTypeOK
    <2>2. rows' \in [Jobs -> [Hashes -> Nat]] /\ watermark' \in [Jobs -> Nat]
      BY <1>1, <1>2, <2>1, InvFacts DEF CoprocessorTypeOK
    <2>3. vkCached' \in BOOLEAN
      BY <1>1, ZenonT(30) DEF CoprocessorTypeOK
    <2>4. holder' \in Jobs \cup {"none"}
      BY <1>2, <1>3
    <2>5. QED
      BY <1>1, <1>3, <2>2, <2>3, <2>4, InvFacts DEF CoprocessorTypeOK, readerRows
  <1>5. Listed' /\ Ticking'
    BY <1>1, <1>2, <1>3, InvFacts DEF Listed, Ticking, readerRows
  <1>6. CASE holder = "validation"
    <2>1. /\ rows'["proof"] = rows["proof"] /\ watermark'["proof"] = watermark["proof"]
          /\ holder # "proof" /\ holder' # "proof"
      BY <1>1, <1>3, <1>6, InvFacts DEF CoprocessorTypeOK
    <2>2. vkCached' = vkCached
      BY <1>1, <1>6, InvFacts DEF CoprocessorTypeOK
    <2>3. InOrder' /\ NoListedGap' /\ PaidFor'
      BY <1>1, <2>1, <2>2, InvFacts DEF InOrder, NoListedGap, PaidFor, Owed
    <2>4. QED
      BY <1>4, <1>5, <2>3 DEF CoprocessorInv
  <1>7. CASE holder = "proof"
    <2>1. /\ watermark'["proof"] = c.at /\ rows'["proof"] = InsertRow(rows["proof"], h, c.at)
          /\ vkCached'
      BY <1>1, <1>7, InvFacts DEF CoprocessorTypeOK
    <2>2. /\ computed = {c} /\ c.at \in Positions /\ watermark["proof"] < c.at
          /\ \A d \in candidates : c.at < d.at /\ d.at \in Positions
      BY <1>2, <1>7, InvFacts DEF InOrder
    <2>3. /\ rows'["proof"][h] # 0
          /\ \A g \in Hashes : rows["proof"][g] # 0 => rows'["proof"][g] # 0
      <3>1. c.at # 0
        BY <2>2 DEF Positions
      <3>2. rows["proof"] \in [Hashes -> Nat]
        BY InvFacts DEF CoprocessorTypeOK
      <3>3. QED
        BY <1>2, <2>1, <3>1, <3>2 DEF InsertRow
    <2>4. ASSUME NEW e \in seen, watermark["proof"] < e[2]
          PROVE  \/ e[1] = c.batch /\ e[2] = c.at
                 \/ AsCandidate(e) \in candidates /\ c.at < e[2]
                 \/ c.at < e[2] /\ \A d \in candidates : d.at < e[2]
      <3>1. \/ AsCandidate(e) \in candidates \cup {c}
            \/ c.at < e[2] /\ \A d \in candidates : d.at < e[2]
        BY <1>2, <1>7, <2>2, <2>4, InvFacts DEF InOrder
      <3>2. AsCandidate(e).at = e[2] /\ AsCandidate(e).batch = e[1]
        BY DEF AsCandidate
      <3>3. QED
        BY <2>2, <3>1, <3>2
    <2>5. NoListedGap'
      <3>1. ASSUME NEW e \in seen, e[2] <= c.at
            PROVE  rows'["proof"][Carries[e[1]]] # 0
        <4>1. e[2] \in Nat /\ Carries[e[1]] \in Hashes
          BY InvFacts
        <4>2. CASE e[2] <= watermark["proof"]
          BY <2>3, <4>1, <4>2, InvFacts DEF NoListedGap
        <4>3. CASE watermark["proof"] < e[2]
          <5>1. e[1] = c.batch
            BY <1>2, <2>4, <3>1, <4>1, <4>3
          <5>2. QED
            BY <2>3, <5>1 DEF h
        <4>4. QED
          BY <4>1, <4>2, <4>3, InvFacts
      <3>2. QED
        BY <1>1, <2>1, <3>1 DEF NoListedGap
    <2>6. InOrder'
      BY <1>1, <1>3, <2>1, <2>2, <2>4, InvFacts DEF InOrder, Candidate, AsCandidate
    <2>7. PaidFor'
      <3> SUFFICES ASSUME NEW b \in L1Batches, NEW p \in Positions, ~Owed(b, p)'
                   PROVE  ~Owed(b, p)
        BY <1>1, InvFacts DEF PaidFor
      <3>1. ~(p <= c.at) /\ p \in Nat
        BY <2>1 DEF Owed, Positions
      <3>2. [batch |-> b, at |-> p] # c
        BY <1>2, <3>1
      <3>3. QED
        BY <1>2, <2>2, <3>1, <3>2, InvFacts DEF Owed
    <2>8. QED
      BY <1>4, <1>5, <2>5, <2>6, <2>7 DEF CoprocessorInv
  <1>8. QED
    BY <1>2, <1>6, <1>7 DEF Jobs

-----------------------------------------------------------------------------
(* The theorem *)

LEMMA CoprocessorInvInit ==
  ASSUME CoprocessorInit
  PROVE  CoprocessorInv
  <1>1. CoprocessorTypeOK
    <2>1. /\ position \in [L1Batches -> Nat] /\ watermark \in [Jobs -> Nat]
          /\ rows \in [Jobs -> [Hashes -> Nat]] /\ paid \in [L1Batches \X Positions -> Nat]
      BY DEF CoprocessorInit
    <2>2. QED
      BY <2>1 DEF CoprocessorInit, CoprocessorTypeOK
  <1>2. Listed /\ Ticking /\ InOrder
    BY DEF CoprocessorInit, Listed, Ticking, InOrder
  <1>3. PaidFor
    BY DEF CoprocessorInit, PaidFor
  <1>4. NoListedGap
    BY DEF CoprocessorInit, NoListedGap, Jobs
  <1>5. QED
    BY <1>1, <1>2, <1>3, <1>4 DEF CoprocessorInv

LEMMA CoprocessorInvStep ==
  ASSUME CoprocessorInv, [CoprocessorNext]_coprocessorVars
  PROVE  CoprocessorInv'
  <1>1. CASE UNCHANGED coprocessorVars
    BY <1>1, InvFacts
    DEF coprocessorVars, CoprocessorInv, CoprocessorTypeOK, Listed, Ticking, InOrder, PaidFor, Owed,
        NoListedGap, readerRows, tables, tick
  <1>2. ASSUME NEW b \in L1Batches, (\E p \in Positions : Confirm(b, p)) \/ Archive(b) \/ Reorg(b)
        PROVE  CoprocessorInv'
    BY <1>2, ConfirmStep, ArchiveStep, ReorgStep
  <1>3. CASE StartValidation \/ CronProof \/ StartProof
    BY <1>3, BeginStep
  <1>4. CASE FetchCandidates
    BY <1>4, FetchStep
  <1>5. ASSUME NEW c \in candidates, Compute(c) \/ Refuse(c)
        PROVE  CoprocessorInv'
    BY <1>5, ComputeStep, RefuseStep
  <1>6. ASSUME NEW c \in computed, Commit(c)
        PROVE  CoprocessorInv'
    BY <1>6, CommitStep
  <1>7. CASE StepFails \/ Restart
    BY <1>7, FaultStep
  <1>8. QED
    BY <1>1, <1>2, <1>3, <1>4, <1>5, <1>6, <1>7 DEF CoprocessorNext

LEMMA InvSuffices ==
  ASSUME CoprocessorInv
  PROVE  ProvenOnceWithoutGap
  <1>1. ASSUME NEW b \in L1Batches, NEW p \in Positions
        PROVE  paid[<<b, p>>] <= 1 + faults
    BY InvFacts DEF PaidFor, CoprocessorTypeOK
  <1>2. QED
    BY <1>1, InvFacts DEF ProvenOnceWithoutGap, PaidAgainOnlyAfterFault

(***************************************************************************)
(* The proof watermark passes no message it has listed without a proof     *)
(* row, and a proof is requested again only after a fault, whatever the    *)
(* page and the batch limit and wherever a tick stops (run_proof,          *)
(* prove_one, insert_proof).                                               *)
(***************************************************************************)
THEOREM ListedIsProvenOnce == CoprocessorSpec => []ProvenOnceWithoutGap
  <1>1. CoprocessorInit => CoprocessorInv
    BY CoprocessorInvInit
  <1>2. CoprocessorInv /\ [CoprocessorNext]_coprocessorVars => CoprocessorInv'
    BY CoprocessorInvStep
  <1>3. CoprocessorInv => ProvenOnceWithoutGap
    BY InvSuffices
  <1>4. QED
    BY <1>1, <1>2, <1>3, PTL DEF CoprocessorSpec

-----------------------------------------------------------------------------
(* Recursive functions *)

\* Among numbers there is a least one.
LEMMA LeastNat ==
  ASSUME NEW S \in SUBSET Nat, S # {}
  PROVE  \E n \in S : \A m \in S : n <= m
  <1>1. PICK n \in S : \A m \in S : ~(<<m, n>> \in OpToRel(<, Nat))
    BY NatLessThanWellFounded, WFMin
  <1>2. \A m \in S : ~(m < n)
    BY <1>1 DEF OpToRel
  <1>3. QED
    BY <1>2

\* A functional H whose value at a point of D depends on what is below the point.
Recursion(D, R, rank, H, top) ==
    /\ rank \in [D -> Nat] /\ top \in Nat /\ \A r \in D : rank[r] < top
    /\ H \in [[D -> R] -> [D -> R]] /\ [D -> R] # {}
    /\ \A g, h \in [D -> R], r \in D :
          (\A s \in D : rank[s] < rank[r] => g[s] = h[s]) => H[g][r] = H[h][r]

\* It has a fixed point: a recursive function is what its definition says.
LEMMA RecursionHasASolution ==
  ASSUME NEW D, NEW R, NEW rank, NEW H, NEW top, Recursion(D, R, rank, H, top)
  PROVE  \E f \in [D -> R] : f = H[f]
  <1> DEFINE Solved(g, n) == \A r \in D : rank[r] < n => g[r] = H[g][r]
             unsolved == {n \in Nat : ~ \E g \in [D -> R] : Solved(g, n)}
  <1> USE DEF Recursion
  <1>1. 0 \notin unsolved
    BY DEF unsolved
  <1>2. ASSUME NEW n \in Nat, NEW g \in [D -> R], Solved(g, n)
        PROVE  \E h \in [D -> R] : Solved(h, n + 1)
    <2> DEFINE h == [r \in D |-> IF rank[r] < n THEN g[r] ELSE H[g][r]]
    <2>1. h \in [D -> R]
      BY <1>2
    <2>2. ASSUME NEW r \in D, rank[r] < n + 1 PROVE h[r] = H[h][r]
      <3>1. \A s \in D : rank[s] < rank[r] => g[s] = h[s]
        BY <2>2
      <3>2. H[g][r] = H[h][r]
        BY <2>1, <3>1
      <3>3. h[r] = H[g][r]
        BY <1>2
      <3>4. QED
        BY <3>2, <3>3
    <2>3. QED
      BY <2>1, <2>2
  <1>3. unsolved = {}
    <2> SUFFICES ASSUME unsolved # {} PROVE FALSE
      OBVIOUS
    <2>1. unsolved \in SUBSET Nat
      OBVIOUS
    <2> HIDE DEF unsolved
    <2>2. PICK n \in unsolved : \A m \in unsolved : n <= m
      BY <2>1, LeastNat
    <2> USE DEF unsolved
    <2>3. n \in Nat /\ n # 0
      BY <1>1
    <2>4. n - 1 \in Nat /\ n - 1 \notin unsolved
      BY <2>2, <2>3
    <2>5. PICK g \in [D -> R] : Solved(g, n - 1)
      BY <2>4
    <2>6. \E h \in [D -> R] : Solved(h, (n - 1) + 1)
      <3> HIDE DEF unsolved
      <3> QED BY <1>2, <2>4, <2>5
    <2>7. (n - 1) + 1 = n
      BY <2>3
    <2>8. QED
      BY <2>6, <2>7
  <1>4. PICK f \in [D -> R] : Solved(f, top)
    BY <1>3
  <1>5. \A r \in D : f[r] = H[f][r]
    BY <1>4
  <1>6. H[f] \in [D -> R]
    OBVIOUS
  <1>7. QED
    BY <1>5, <1>6

-----------------------------------------------------------------------------
(* The search of a beacon slot *)

Held(missed, s) == ExecBlockAt(missed, s) # -1
Missable == SUBSET (0 .. Slots - 2)

LEMMA HeldSlot ==
  ASSUME NEW missed \in Missable, NEW s \in Nat
  PROVE  /\ Held(missed, s) <=> s < Slots /\ s \notin missed
         /\ Held(missed, s) => ExecBlockAt(missed, s) \in Nat
  <1>1. IsFiniteSet((0 .. s) \ missed)
    <2>1. IsFiniteSet(0 .. s)
      BY FS_Interval
    <2>2. QED
      BY <2>1, FS_Difference
  <1>2. Cardinality((0 .. s) \ missed) \in Nat
    BY <1>1, FS_CardinalityType
  <1>3. Slots \in Nat
    BY RetrievalAssumption
  <1>4. QED
    BY <1>2, <1>3 DEF Held, ExecBlockAt

\* A later block is in a later slot.
LEMMA BlocksAscend ==
  ASSUME NEW missed \in Missable, NEW s \in Nat, NEW t \in Nat,
         Held(missed, s), Held(missed, t), s < t
  PROVE  ExecBlockAt(missed, s) < ExecBlockAt(missed, t)
  <1> DEFINE upTo(n) == (0 .. n) \ missed
  <1>1. IsFiniteSet(upTo(t)) /\ IsFiniteSet(upTo(s))
    <2>1. IsFiniteSet(0 .. s) /\ IsFiniteSet(0 .. t)
      BY FS_Interval
    <2>2. QED
      BY <2>1, FS_Difference
  <1>2. upTo(s) \in SUBSET upTo(t) /\ t \in upTo(t) /\ t \notin upTo(s)
    BY HeldSlot
  <1>3. Cardinality(upTo(s)) \in Nat /\ Cardinality(upTo(t)) \in Nat
    BY <1>1, FS_CardinalityType
  <1>4. /\ Cardinality(upTo(s)) <= Cardinality(upTo(t))
        /\ Cardinality(upTo(t)) = Cardinality(upTo(s)) => upTo(t) = upTo(s)
    <2> HIDE DEF upTo
    <2> QED
      BY <1>1, <1>2, FS_Subset
  <1>5. ExecBlockAt(missed, s) = Cardinality(upTo(s)) /\ ExecBlockAt(missed, t) = Cardinality(upTo(t))
    BY DEF ExecBlockAt, Held
  <1> HIDE DEF upTo
  <1>6. Cardinality(upTo(s)) # Cardinality(upTo(t))
    BY <1>2, <1>4
  <1>7. QED
    BY <1>3, <1>4, <1>5, <1>6

\* The slots a probe looks at.
Ahead(start, upper) == {s \in start .. start + ProbeDepth - 1 : s <= upper}
Behind(start, lower) == {s \in start - ProbeDepth + 1 .. start : s >= lower /\ s >= 0}

LEMMA ProbedForward ==
  ASSUME NEW missed \in Missable, NEW start \in Nat, NEW upper \in Int,
         NEW p, p = ProbeForward(missed, start, upper)
  PROVE  \/ p = -1 /\ \A s \in Ahead(start, upper) : ~Held(missed, s)
         \/ /\ p \in Ahead(start, upper) /\ Held(missed, p)
            /\ p \in 0 .. Slots - 1
            /\ \A s \in Ahead(start, upper) : Held(missed, s) => p <= s
  <1> DEFINE end == IF start + ProbeDepth < upper + 1 THEN start + ProbeDepth ELSE upper + 1
             hits == {s \in start .. end - 1 : ExecBlockAt(missed, s) # -1}
  <1>1. ProbeDepth \in Nat /\ Slots \in Nat
    BY RetrievalAssumption
  <1>2. start .. end - 1 = Ahead(start, upper)
    BY <1>1 DEF Ahead
  <1>3. hits = {s \in Ahead(start, upper) : Held(missed, s)} /\ hits \in SUBSET Nat
    <2>1. Ahead(start, upper) \in SUBSET Nat
      BY <1>1 DEF Ahead
    <2>2. QED
      BY <1>2, <2>1 DEF Held
  <1>4. p = IF hits = {} THEN -1 ELSE CHOOSE s \in hits : \A t \in hits : s <= t
    BY DEF ProbeForward
  <1> HIDE DEF hits
  <1>5. CASE hits = {}
    BY <1>3, <1>4, <1>5
  <1>6. CASE hits # {}
    <2>1. \E s \in hits : \A t \in hits : s <= t
      BY <1>3, <1>6, LeastNat
    <2>2. p \in hits /\ \A t \in hits : p <= t
      BY <1>4, <1>6, <2>1
    <2>3. p \in Nat /\ Held(missed, p)
      BY <1>3, <2>2
    <2>4. p < Slots
      BY <2>3, HeldSlot
    <2>5. QED
      BY <1>1, <1>3, <2>2, <2>3, <2>4
  <1>7. QED
    BY <1>5, <1>6

LEMMA ProbedBackward ==
  ASSUME NEW missed \in Missable, NEW start \in Nat, NEW lower \in Int,
         NEW p, p = ProbeBackward(missed, start, lower)
  PROVE  \/ p = -1 /\ \A s \in Behind(start, lower) : ~Held(missed, s)
         \/ /\ p \in Behind(start, lower) /\ Held(missed, p)
            /\ p \in 0 .. Slots - 1
            /\ \A s \in Behind(start, lower) : Held(missed, s) => s <= p
  <1> DEFINE hits == {s \in start - ProbeDepth + 1 .. start :
                         s >= lower /\ s >= 0 /\ ExecBlockAt(missed, s) # -1}
             depths == {n \in Nat : start - n \in hits}
  <1>1. ProbeDepth \in Nat /\ Slots \in Nat
    BY RetrievalAssumption
  <1>2. p = IF hits = {} THEN -1 ELSE CHOOSE s \in hits : \A t \in hits : t <= s
    BY DEF ProbeBackward
  <1>b. hits = {s \in Behind(start, lower) : Held(missed, s)}
    BY DEF Behind, Held
  <1>3. \A s \in hits : s \in Nat /\ s <= start /\ start - s \in depths
    <2>1. \A s \in hits : s \in Int /\ s <= start /\ s >= 0
      BY <1>1
    <2>2. \A s \in Int : start - (start - s) = s
      OBVIOUS
    <2> HIDE DEF hits
    <2>3. QED
      BY <2>1, <2>2
  <1>4. CASE hits = {}
    <2> HIDE DEF hits
    <2> QED BY <1>b, <1>2, <1>4
  <1>5. CASE hits # {}
    <2>1. depths # {} /\ depths \in SUBSET Nat
      BY <1>3, <1>5
    <2>2. PICK n \in depths : \A m \in depths : n <= m
      <3> HIDE DEF depths
      <3> QED BY <2>1, LeastNat
    <2>3. n \in Nat /\ start - n \in hits
      BY <2>2
    <2>4. ASSUME NEW t \in hits PROVE t <= start - n
      <3> HIDE DEF hits, depths
      <3>1. n <= start - t /\ t \in Nat
        BY <1>3, <2>2
      <3>2. QED
        BY <2>3, <3>1
    <2>5. p \in hits /\ \A t \in hits : t <= p
      <3> HIDE DEF hits, depths
      <3> QED BY <1>2, <1>5, <2>3, <2>4
    <2>6. p \in Nat /\ Held(missed, p) /\ p \in Behind(start, lower)
      <3> HIDE DEF hits, depths
      <3> QED BY <1>b, <1>3, <2>5
    <2>7. p < Slots
      BY <2>6, HeldSlot
    <2>8. QED
      <3> HIDE DEF hits, depths
      <3> QED BY <1>b, <1>1, <2>5, <2>6, <2>7
  <1>6. QED
    BY <1>4, <1>5

\* The arguments of the bisection, and one step of it.
Bounds == (0 .. Slots) \X (-1 .. Slots)
Found == {-1} \cup (0 .. Slots)
BisectFrom(q, find, lo, hi) ==
    LET mid == (lo + hi) \div 2
        slot == ProbeForward(q.missed, mid, hi)
    IN IF lo > hi THEN -1
       ELSE IF slot = -1 THEN find[<<lo, mid - 1>>]
       ELSE IF ExecBlockAt(q.missed, slot) = q.block THEN slot
       ELSE IF ExecBlockAt(q.missed, slot) < q.block THEN find[<<slot + 1, hi>>]
       ELSE find[<<lo, mid - 1>>]

LEMMA Middle ==
  ASSUME NEW lo \in 0 .. Slots, NEW hi \in -1 .. Slots, lo <= hi
  PROVE  (lo + hi) \div 2 \in lo .. hi
  <1>1. Slots \in Nat /\ lo \in Nat /\ hi \in Nat /\ lo + hi \in Nat
    BY RetrievalAssumption
  <1>2. (lo + hi) \div 2 \in Int /\ 2 * ((lo + hi) \div 2) <= lo + hi /\ lo + hi <= 2 * ((lo + hi) \div 2) + 1
    BY <1>1, Z3
  <1>3. QED
    BY <1>1, <1>2

\* The cases of a step, and that a search goes on in a smaller interval.
LEMMA BisectCases ==
  ASSUME NEW q, q.missed \in Missable, q.block \in Nat, NEW find,
         NEW lo \in 0 .. Slots, NEW hi \in -1 .. Slots,
         NEW mid, mid = (lo + hi) \div 2, NEW slot, slot = ProbeForward(q.missed, mid, hi)
  PROVE  \/ lo > hi /\ BisectFrom(q, find, lo, hi) = -1
         \/ /\ lo <= hi /\ mid \in lo .. hi /\ <<lo, mid - 1>> \in Bounds
            /\ \/ slot = -1 \/ ExecBlockAt(q.missed, slot) > q.block
            /\ BisectFrom(q, find, lo, hi) = find[<<lo, mid - 1>>]
         \/ /\ lo <= hi /\ slot \in mid .. hi /\ Held(q.missed, slot) /\ slot \in 0 .. Slots
            /\ ExecBlockAt(q.missed, slot) = q.block
            /\ BisectFrom(q, find, lo, hi) = slot
         \/ /\ lo <= hi /\ mid \in lo .. hi /\ slot \in mid .. hi /\ <<slot + 1, hi>> \in Bounds
            /\ slot # -1 /\ ExecBlockAt(q.missed, slot) < q.block
            /\ BisectFrom(q, find, lo, hi) = find[<<slot + 1, hi>>]
  <1>1. Slots \in Nat /\ lo \in Nat /\ hi \in Int
    BY RetrievalAssumption
  <1>2. BisectFrom(q, find, lo, hi) =
          IF lo > hi THEN -1
          ELSE IF slot = -1 THEN find[<<lo, mid - 1>>]
          ELSE IF ExecBlockAt(q.missed, slot) = q.block THEN slot
          ELSE IF ExecBlockAt(q.missed, slot) < q.block THEN find[<<slot + 1, hi>>]
          ELSE find[<<lo, mid - 1>>]
    BY DEF BisectFrom
  <1>3. CASE lo > hi
    BY <1>2, <1>3
  <1>4. CASE ~(lo > hi)
    <2>1. lo <= hi /\ mid \in lo .. hi /\ mid \in Nat
      BY <1>1, <1>4, Middle
    <2>2. <<lo, mid - 1>> \in Bounds
      BY <1>1, <2>1 DEF Bounds
    <2>3. CASE slot = -1
      BY <1>2, <1>4, <2>1, <2>2, <2>3
    <2>4. CASE slot # -1
      <3>1. slot \in Ahead(mid, hi) /\ Held(q.missed, slot) /\ slot \in 0 .. Slots - 1
        BY <2>1, <2>4, <1>1, ProbedForward
      <3>2. slot \in mid .. hi
        BY <2>1, <3>1, RetrievalAssumption DEF Ahead
      <3>3. ExecBlockAt(q.missed, slot) \in Nat
        BY <3>1, <1>1, HeldSlot
      <3>4. <<slot + 1, hi>> \in Bounds
        BY <1>1, <3>1 DEF Bounds
      <3>5. slot \in 0 .. Slots
        BY <1>1, <3>1
      <3> HIDE DEF Bounds
      <3>6. QED
        BY <1>2, <1>4, <2>1, <2>2, <2>4, <3>1, <3>2, <3>3, <3>4, <3>5
    <2>5. QED
      BY <2>3, <2>4
  <1>5. QED
    BY <1>3, <1>4

\* The recursion of the bisection ends: its interval shrinks.
LEMMA BisectUnfolds ==
  ASSUME NEW q, q.missed \in Missable, q.block \in Nat
  PROVE  \E find :
            /\ \A r \in Bounds : find[r] = BisectFrom(q, find, r[1], r[2])
            /\ \A low, high : Bisect(q, low, high) = find[<<low, high>>]
  <1> DEFINE rank == [r \in Bounds |-> r[2] - r[1] + Slots + 1]
             H == [g \in [Bounds -> Found] |-> [r \in Bounds |-> BisectFrom(q, g, r[1], r[2])]]
  <1>1. Slots \in Nat
    BY RetrievalAssumption
  <1>2. \A r \in Bounds : r[1] \in 0 .. Slots /\ r[2] \in -1 .. Slots /\ r = <<r[1], r[2]>>
    BY DEF Bounds
  <1>3. rank \in [Bounds -> Nat] /\ \A r \in Bounds : rank[r] < 2 * Slots + 2
    BY <1>1, <1>2
  <1>4. H \in [[Bounds -> Found] -> [Bounds -> Found]]
    <2>1. ASSUME NEW g \in [Bounds -> Found], NEW r \in Bounds
          PROVE  BisectFrom(q, g, r[1], r[2]) \in Found
      <3> DEFINE mid == (r[1] + r[2]) \div 2
                 slot == ProbeForward(q.missed, mid, r[2])
      <3>1. r[1] \in 0 .. Slots /\ r[2] \in -1 .. Slots
        BY <1>2
      <3>2. \/ BisectFrom(q, g, r[1], r[2]) = -1
            \/ <<r[1], mid - 1>> \in Bounds /\ BisectFrom(q, g, r[1], r[2]) = g[<<r[1], mid - 1>>]
            \/ slot \in 0 .. Slots /\ BisectFrom(q, g, r[1], r[2]) = slot
            \/ <<slot + 1, r[2]>> \in Bounds /\ BisectFrom(q, g, r[1], r[2]) = g[<<slot + 1, r[2]>>]
        <4> HIDE DEF mid, slot
        <4>1. mid = (r[1] + r[2]) \div 2 /\ slot = ProbeForward(q.missed, mid, r[2])
          BY DEF mid, slot
        <4>2. QED
          BY <3>1, <4>1, BisectCases
      <3> HIDE DEF mid, slot
      <3>3. QED
        BY <3>2 DEF Found
    <2>2. QED
      BY <2>1
  <1>5. ASSUME NEW g \in [Bounds -> Found], NEW h \in [Bounds -> Found], NEW r \in Bounds,
               \A s \in Bounds : rank[s] < rank[r] => g[s] = h[s]
        PROVE  H[g][r] = H[h][r]
    <2> DEFINE lo == r[1]
               hi == r[2]
               mid == (lo + hi) \div 2
               slot == ProbeForward(q.missed, mid, hi)
    <2>1. lo \in 0 .. Slots /\ hi \in -1 .. Slots
      BY <1>2
    <2>2. lo <= hi => mid \in lo .. hi
      <3> HIDE DEF lo, hi
      <3> QED BY <2>1, Middle
    <2>3. lo <= hi => <<lo, mid - 1>> \in Bounds /\ g[<<lo, mid - 1>>] = h[<<lo, mid - 1>>]
      <3> SUFFICES ASSUME lo <= hi PROVE <<lo, mid - 1>> \in Bounds /\ g[<<lo, mid - 1>>] = h[<<lo, mid - 1>>]
        OBVIOUS
      <3>1. <<lo, mid - 1>> \in Bounds
        <4> HIDE DEF mid, lo, hi
        <4> QED BY <1>1, <2>1, <2>2 DEF Bounds
      <3>2. mid - 1 - lo + Slots + 1 < hi - lo + Slots + 1
        <4> HIDE DEF mid, lo, hi
        <4> QED BY <1>1, <2>1, <2>2
      <3>3. rank[<<lo, mid - 1>>] = mid - 1 - lo + Slots + 1 /\ rank[r] = hi - lo + Slots + 1
        <4> HIDE DEF mid
        <4> QED BY <3>1
      <3>4. rank[<<lo, mid - 1>>] < rank[r]
        <4> HIDE DEF rank, mid, lo, hi
        <4> QED BY <3>2, <3>3
      <3>5. QED
        <4> HIDE DEF rank, mid, lo, hi
        <4> QED BY <1>5, <3>1, <3>4
    <2>4. lo <= hi /\ slot # -1 => <<slot + 1, hi>> \in Bounds /\ g[<<slot + 1, hi>>] = h[<<slot + 1, hi>>]
      <3> SUFFICES ASSUME lo <= hi, slot # -1
                   PROVE <<slot + 1, hi>> \in Bounds /\ g[<<slot + 1, hi>>] = h[<<slot + 1, hi>>]
        OBVIOUS
      <3>1. slot \in 0 .. Slots - 1 /\ slot >= mid
        <4>1. slot = ProbeForward(q.missed, mid, hi)
          OBVIOUS
        <4> HIDE DEF slot, mid, lo, hi
        <4>2. mid \in Nat /\ hi \in Int
          BY <1>1, <2>1, <2>2
        <4>3. slot \in Ahead(mid, hi) /\ slot \in 0 .. Slots - 1
          BY <4>1, <4>2, ProbedForward
        <4>4. QED
          BY <4>2, <4>3, RetrievalAssumption DEF Ahead
      <3>2. <<slot + 1, hi>> \in Bounds
        <4> HIDE DEF slot, mid, lo, hi
        <4> QED BY <1>1, <2>1, <3>1 DEF Bounds
      <3>3. hi - (slot + 1) + Slots + 1 < hi - lo + Slots + 1
        <4> HIDE DEF slot, mid, lo, hi
        <4> QED BY <1>1, <2>1, <2>2, <3>1
      <3>4. rank[<<slot + 1, hi>>] = hi - (slot + 1) + Slots + 1 /\ rank[r] = hi - lo + Slots + 1
        <4> HIDE DEF slot
        <4> QED BY <3>2
      <3>5. rank[<<slot + 1, hi>>] < rank[r]
        <4> HIDE DEF rank, slot, lo, hi
        <4> QED BY <3>3, <3>4
      <3>6. QED
        <4> HIDE DEF rank, slot, mid, lo, hi
        <4> QED BY <1>5, <3>2, <3>5
    <2>5. BisectFrom(q, g, lo, hi) = BisectFrom(q, h, lo, hi)
      <3>1. \A f : BisectFrom(q, f, lo, hi) =
                     IF lo > hi THEN -1
                     ELSE IF slot = -1 THEN f[<<lo, mid - 1>>]
                     ELSE IF ExecBlockAt(q.missed, slot) = q.block THEN slot
                     ELSE IF ExecBlockAt(q.missed, slot) < q.block THEN f[<<slot + 1, hi>>]
                     ELSE f[<<lo, mid - 1>>]
        BY DEF BisectFrom
      <3> HIDE DEF slot, mid, lo, hi
      <3>2. lo > hi \/ lo <= hi
        BY <1>1, <2>1
      <3>3. QED
        BY <2>3, <2>4, <3>1, <3>2
    <2>6. QED
      BY <2>5
  <1>6. [r \in Bounds |-> -1] \in [Bounds -> Found]
    BY DEF Found
  <1>7. \E f \in [Bounds -> Found] : f = H[f]
    <2>1. 2 * Slots + 2 \in Nat
      BY <1>1
    <2>2. \A g, h \in [Bounds -> Found], r \in Bounds :
             (\A s \in Bounds : rank[s] < rank[r] => g[s] = h[s]) => H[g][r] = H[h][r]
      <3> HIDE DEF H, rank
      <3> QED BY <1>5
    <2> DEFINE top == 2 * Slots + 2
    <2>3. Recursion(Bounds, Found, rank, H, top)
      <3>1. [Bounds -> Found] # {} /\ top \in Nat /\ \A r \in Bounds : rank[r] < top
        BY <1>3, <1>6, <2>1
      <3>2. rank \in [Bounds -> Nat]
        BY <1>3
      <3> HIDE DEF H, rank, top
      <3>3. QED
        BY <1>4, <2>2, <3>1, <3>2 DEF Recursion
    <2> HIDE DEF H, rank, top
    <2>4. QED
      BY <2>3, RecursionHasASolution
  <1> DEFINE Solves(f) == f = [r \in Bounds |-> BisectFrom(q, f, r[1], r[2])]
             find == CHOOSE f : Solves(f)
  <1>8. \E f : Solves(f)
    BY <1>7
  <1>9. Solves(find)
    <2> HIDE DEF Solves
    <2> QED BY <1>8
  <1>10. \A low, high : Bisect(q, low, high) = find[<<low, high>>]
    BY DEF Bisect, BisectFrom, Bounds
  <1>11. QED
    BY <1>9, <1>10

\* A block of the chain, to look for.
Sought(q) ==
    q.missed \in Missable /\ q.block \in 1 .. Cardinality((0 .. Slots - 1) \ q.missed)

\* The nth block is in the first slot up to which there are n.
LEMMA SlotExists ==
  ASSUME NEW q, Sought(q)
  PROVE  /\ q.block \in Nat
         /\ SlotOf(q) \in 0 .. Slots - 1 /\ ExecBlockAt(q.missed, SlotOf(q)) = q.block
         /\ Held(q.missed, SlotOf(q))
         /\ \A s \in Nat : Held(q.missed, s) /\ ExecBlockAt(q.missed, s) = q.block => s = SlotOf(q)
         /\ \A s \in Nat : Held(q.missed, s) /\ ExecBlockAt(q.missed, s) < q.block => s < SlotOf(q)
         /\ \A s \in Nat : Held(q.missed, s) /\ ExecBlockAt(q.missed, s) > q.block => SlotOf(q) < s
  <1> DEFINE held(n) == (0 .. n) \ q.missed
             reached == {n \in Nat : Cardinality(held(n)) >= q.block}
  <1>1. Slots \in Nat /\ Slots - 1 \in Nat
    BY RetrievalAssumption
  <1>2. \A n \in Int : IsFiniteSet(held(n)) /\ Cardinality(held(n)) \in Nat
    <2>1. ASSUME NEW n \in Int PROVE IsFiniteSet(held(n)) /\ Cardinality(held(n)) \in Nat
      <3>1. IsFiniteSet(0 .. n)
        BY FS_Interval
      <3>2. IsFiniteSet(held(n))
        BY <3>1, FS_Difference
      <3>3. QED
        BY <3>2, FS_CardinalityType
    <2>2. QED
      BY <2>1
  <1>3. q.block \in Nat /\ q.block >= 1 /\ Slots - 1 \in reached
    BY <1>1, <1>2 DEF Sought
  <1>4. PICK s \in reached : \A n \in reached : s <= n
    <2>1. reached \in SUBSET Nat /\ reached # {}
      BY <1>3
    <2> HIDE DEF reached
    <2>2. QED
      BY <2>1, LeastNat
  <1>5. s \in Nat /\ s <= Slots - 1 /\ Cardinality(held(s)) >= q.block
    BY <1>3, <1>4
  <1>6. Cardinality(held(s - 1)) < q.block
    <2>1. CASE s = 0
      <3>1. held(s - 1) = {}
        BY <2>1
      <3>2. Cardinality(held(s - 1)) = 0
        BY <3>1, FS_EmptySet
      <3>3. QED
        BY <1>3, <3>2
    <2>2. CASE s # 0
      <3>1. s - 1 \in Nat /\ ~(s <= s - 1)
        BY <1>5, <2>2
      <3>2. s - 1 \notin reached
        BY <1>4, <3>1
      <3>3. Cardinality(held(s - 1)) \in Nat
        <4> HIDE DEF held
        <4> QED BY <1>2, <3>1
      <3>4. QED
        BY <1>3, <3>1, <3>2, <3>3
    <2>3. QED
      BY <2>1, <2>2
  <1>7. s \notin q.missed /\ held(s) = held(s - 1) \cup {s} /\ s \notin held(s - 1)
    <2>1. 0 .. s = (0 .. s - 1) \cup {s} /\ s \notin 0 .. s - 1
      BY <1>5
    <2>2. s \in q.missed => held(s) = held(s - 1)
      BY <2>1
    <2>3. Cardinality(held(s - 1)) \in Nat
      <3>1. s - 1 \in Int
        BY <1>5
      <3> HIDE DEF held
      <3>2. QED
        BY <1>2, <3>1
    <2>4. held(s) # held(s - 1)
      <3> HIDE DEF held
      <3> QED BY <1>3, <1>5, <1>6, <2>3
    <2>5. QED
      BY <2>1, <2>2, <2>4
  <1>8. Cardinality(held(s)) = Cardinality(held(s - 1)) + 1
    <2>1. IsFiniteSet(held(s - 1))
      BY <1>2, <1>5
    <2> HIDE DEF held
    <2>2. QED
      BY <1>7, <2>1, FS_AddElement
  <1>9. Cardinality(held(s)) = q.block
    <2>1. Cardinality(held(s - 1)) \in Nat
      <3>1. s - 1 \in Int
        BY <1>5
      <3> HIDE DEF held
      <3>2. QED
        BY <1>2, <3>1
    <2> HIDE DEF held
    <2>2. QED
      BY <1>3, <1>5, <1>6, <1>8, <2>1
  <1>10. ExecBlockAt(q.missed, s) = q.block
    <2>1. ~(s >= Slots)
      BY <1>1, <1>5
    <2>2. QED
      BY <1>7, <1>9, <2>1 DEF ExecBlockAt
  <1>11. SlotOf(q) \in 0 .. Slots - 1 /\ ExecBlockAt(q.missed, SlotOf(q)) = q.block
    <2>1. s \in 0 .. Slots - 1
      BY <1>1, <1>5
    <2>2. QED
      BY <1>10, <2>1 DEF SlotOf
  <1>12. SlotOf(q) \in Nat /\ Held(q.missed, SlotOf(q))
    BY <1>1, <1>3, <1>11 DEF Held
  <1> HIDE DEF held, reached
  <1>13. ASSUME NEW t \in Nat, Held(q.missed, t)
         PROVE  /\ ExecBlockAt(q.missed, t) = q.block => t = SlotOf(q)
                /\ ExecBlockAt(q.missed, t) < q.block => t < SlotOf(q)
                /\ ExecBlockAt(q.missed, t) > q.block => SlotOf(q) < t
    <2>1. q.missed \in Missable
      BY DEF Sought
    <2>2. t < SlotOf(q) => ExecBlockAt(q.missed, t) < q.block
      BY <1>11, <1>12, <1>13, <2>1, BlocksAscend
    <2>3. SlotOf(q) < t => ExecBlockAt(q.missed, t) > q.block
      BY <1>11, <1>12, <1>13, <2>1, BlocksAscend
    <2>4. ExecBlockAt(q.missed, t) \in Nat
      BY <1>13, <2>1, HeldSlot
    <2>5. QED
      BY <1>3, <1>11, <1>12, <2>2, <2>3, <2>4
  <1>14. QED
    BY <1>3, <1>11, <1>12, <1>13

\* Without a long run of missed slots, ProbeDepth slots hold a block.
LEMMA NoLongRun ==
  ASSUME NEW missed \in Missable, ~(LongestMissed(missed) >= ProbeDepth),
         NEW start \in Nat, start + ProbeDepth <= Slots
  PROVE  \E s \in start .. start + ProbeDepth - 1 : Held(missed, s)
  <1> SUFFICES ASSUME \A s \in start .. start + ProbeDepth - 1 : ~Held(missed, s)
               PROVE  FALSE
    OBVIOUS
  <1> DEFINE runs == {r \in (0 .. Slots - 1) \X (0 .. Slots - 1) : r[1] .. r[2] \subseteq missed}
             lengths == {r[2] - r[1] + 1 : r \in runs}
             last == start + ProbeDepth - 1
             gaps == {n \in Nat : Slots - n \in lengths}
  <1>1. ProbeDepth \in Nat /\ ProbeDepth # 0 /\ Slots \in Nat /\ last \in Nat
    BY RetrievalAssumption
  <1>2. <<start, last>> \in runs
    <2>1. ASSUME NEW s \in start .. last PROVE s \in missed
      <3>1. s \in Nat /\ s < Slots
        BY <1>1
      <3>2. QED
        BY <3>1, HeldSlot
    <2>2. start \in 0 .. Slots - 1 /\ last \in 0 .. Slots - 1
      BY <1>1
    <2> HIDE DEF last
    <2>3. QED
      BY <2>1, <2>2
  <1>3. ProbeDepth \in lengths
    <2>1. last - start + 1 = ProbeDepth
      BY <1>1
    <2>2. \E r \in runs : ProbeDepth = r[2] - r[1] + 1
      <3> DEFINE r == <<start, last>>
      <3>1. r \in runs /\ r[1] = start /\ r[2] = last
        BY <1>2
      <3> HIDE DEF r, runs, last
      <3>2. QED
        BY <2>1, <3>1
    <2>3. QED
      BY <2>2
  <1>4. \A n \in lengths : n \in Int /\ n <= Slots
    BY <1>1
  <1>5. missed # {}
    <2>1. start \in start .. last
      BY <1>1
    <2>2. start .. last \subseteq missed
      BY <1>2
    <2>3. QED
      BY <2>1, <2>2
  <1>6. PICK g \in gaps : \A m \in gaps : g <= m
    <2>1. Slots - ProbeDepth \in Nat /\ Slots - (Slots - ProbeDepth) = ProbeDepth
      BY <1>1
    <2>2. Slots - ProbeDepth \in gaps
      <3> HIDE DEF lengths
      <3> QED BY <1>3, <2>1
    <2>3. gaps \in SUBSET Nat /\ gaps # {}
      BY <2>2
    <2> HIDE DEF gaps
    <2>4. QED
      BY <2>3, LeastNat
  <1>7. Slots - g \in lengths /\ g \in Nat
    BY <1>6
  <1>8. \A n \in lengths : n <= Slots - g
    <2> SUFFICES ASSUME NEW n \in lengths PROVE n <= Slots - g
      OBVIOUS
    <2>1. n \in Int /\ n <= Slots
      BY <1>4
    <2> HIDE DEF lengths
    <2>2. Slots - n \in Nat /\ Slots - (Slots - n) = n
      BY <1>1, <2>1
    <2>3. Slots - n \in gaps
      BY <2>2
    <2>4. g <= Slots - n
      <3> HIDE DEF gaps
      <3> QED BY <1>6, <2>3
    <2>5. QED
      BY <1>1, <1>7, <2>1, <2>4
  <1>9. LongestMissed(missed) = CHOOSE n \in lengths : \A r \in runs : r[2] - r[1] + 1 <= n
    BY <1>5 DEF LongestMissed
  <1>10. \A r \in runs : r[2] - r[1] + 1 <= Slots - g
    BY <1>8
  <1>11. LongestMissed(missed) \in lengths /\ \A r \in runs : r[2] - r[1] + 1 <= LongestMissed(missed)
    <2> HIDE DEF runs, lengths
    <2> QED BY <1>7, <1>9, <1>10
  <1>12. ProbeDepth <= LongestMissed(missed) /\ LongestMissed(missed) \in Int
    <2>1. \A n \in lengths : \E r \in runs : n = r[2] - r[1] + 1
      OBVIOUS
    <2>2. LongestMissed(missed) \in Int
      BY <1>4, <1>11
    <2> HIDE DEF runs, lengths
    <2>3. QED
      BY <1>3, <1>11, <2>1, <2>2
  <1>13. QED
    BY <1>1, <1>12

\* Whatever interval is searched, nothing but the block's slot is found; and it is found in an
\* interval that holds it, unless a long run of slots is missed.
LEMMA BisectFinds ==
  ASSUME NEW q, Sought(q), NEW find,
         \A r \in Bounds : find[r] = BisectFrom(q, find, r[1], r[2])
  PROVE  \A r \in Bounds :
            /\ find[r] \in {-1, SlotOf(q)}
            /\ /\ ~(LongestMissed(q.missed) >= ProbeDepth)
               /\ r[1] <= SlotOf(q) /\ SlotOf(q) <= r[2]
               => find[r] = SlotOf(q)
  <1> DEFINE Right(r) ==
                /\ find[r] \in {-1, SlotOf(q)}
                /\ /\ ~(LongestMissed(q.missed) >= ProbeDepth)
                   /\ r[1] <= SlotOf(q) /\ SlotOf(q) <= r[2]
                   => find[r] = SlotOf(q)
             Rank(r) == r[2] - r[1] + Slots + 1
             wrong == {n \in Nat : \E r \in Bounds : Rank(r) = n /\ ~Right(r)}
  <1>1. Slots \in Nat /\ ProbeDepth \in Nat /\ ProbeDepth # 0
    BY RetrievalAssumption
  <1>2. \A r \in Bounds : r[1] \in 0 .. Slots /\ r[2] \in -1 .. Slots /\ r = <<r[1], r[2]>> /\ Rank(r) \in Nat
    BY <1>1 DEF Bounds
  <1>3. /\ q.missed \in Missable /\ q.block \in Nat /\ SlotOf(q) \in Nat /\ SlotOf(q) < Slots
        /\ ExecBlockAt(q.missed, SlotOf(q)) = q.block /\ Held(q.missed, SlotOf(q))
    BY <1>1, SlotExists DEF Sought
  <1> SUFFICES ASSUME wrong # {} PROVE FALSE
    BY <1>2
  <1>4. PICK n \in wrong : \A m \in wrong : n <= m
    <2>1. wrong \in SUBSET Nat
      OBVIOUS
    <2> HIDE DEF wrong
    <2>2. QED
      BY <2>1, LeastNat
  <1>5. PICK r \in Bounds : Rank(r) = n /\ ~Right(r)
    OBVIOUS
  <1>6. \A s \in Bounds : Rank(s) < Rank(r) => Right(s)
    <2> SUFFICES ASSUME NEW s \in Bounds, Rank(s) < Rank(r), ~Right(s) PROVE FALSE
      OBVIOUS
    <2>1. Rank(s) \in Nat /\ n \in Nat
      BY <1>2
    <2>2. Rank(s) \in wrong
      BY <2>1
    <2> HIDE DEF wrong, Rank
    <2>3. QED
      BY <1>4, <1>5, <2>1, <2>2
  <1> DEFINE lo == r[1]
             hi == r[2]
             mid == (lo + hi) \div 2
             slot == ProbeForward(q.missed, mid, hi)
             lower == <<lo, mid - 1>>
             upper == <<slot + 1, hi>>
  <1>7. lo \in 0 .. Slots /\ hi \in -1 .. Slots /\ find[r] = BisectFrom(q, find, lo, hi)
    BY <1>2
  <1>8. \/ lo > hi /\ find[r] = -1
        \/ /\ lo <= hi /\ mid \in lo .. hi /\ lower \in Bounds
           /\ \/ slot = -1 \/ ExecBlockAt(q.missed, slot) > q.block
           /\ find[r] = find[lower]
        \/ /\ lo <= hi /\ slot \in mid .. hi /\ Held(q.missed, slot) /\ slot \in 0 .. Slots
           /\ ExecBlockAt(q.missed, slot) = q.block
           /\ find[r] = slot
        \/ /\ lo <= hi /\ mid \in lo .. hi /\ slot \in mid .. hi /\ upper \in Bounds
           /\ slot # -1 /\ ExecBlockAt(q.missed, slot) < q.block
           /\ find[r] = find[upper]
    <2>1. mid = (lo + hi) \div 2 /\ slot = ProbeForward(q.missed, mid, hi)
      OBVIOUS
    <2> HIDE DEF mid, slot, lo, hi
    <2>2. QED
      BY <1>3, <1>7, <2>1, BisectCases
  <1>9. mid \in lo .. hi =>
          \/ slot = -1 /\ \A s \in Ahead(mid, hi) : ~Held(q.missed, s)
          \/ /\ slot \in Ahead(mid, hi) /\ Held(q.missed, slot) /\ slot \in 0 .. Slots - 1
             /\ \A s \in Ahead(mid, hi) : Held(q.missed, s) => slot <= s
    <2>1. slot = ProbeForward(q.missed, mid, hi)
      OBVIOUS
    <2> HIDE DEF mid, slot, lo, hi
    <2>2. QED
      BY <1>1, <1>3, <1>7, <2>1, ProbedForward
  <1>10. lower[1] = lo /\ lower[2] = mid - 1 /\ upper[1] = slot + 1 /\ upper[2] = hi
    OBVIOUS
  <1>11. Rank(lower) = mid - 1 - lo + Slots + 1 /\ Rank(upper) = hi - (slot + 1) + Slots + 1
         /\ Rank(r) = hi - lo + Slots + 1
    OBVIOUS
  <1> HIDE DEF Rank, wrong, mid, slot, lower, upper
  <1>12. CASE lo > hi /\ find[r] = -1
    BY <1>1, <1>2, <1>3, <1>5, <1>12
  <1>13. CASE /\ lo <= hi /\ mid \in lo .. hi /\ lower \in Bounds
              /\ \/ slot = -1 \/ ExecBlockAt(q.missed, slot) > q.block
              /\ find[r] = find[lower]
    <2>1. Right(lower)
      <3>1. Rank(lower) < Rank(r)
        <4> HIDE DEF lo, hi
        <4> QED BY <1>1, <1>7, <1>11, <1>13
      <3>2. QED
        BY <1>6, <1>13, <3>1
    <2>2. ~(LongestMissed(q.missed) >= ProbeDepth) /\ lo <= SlotOf(q) /\ SlotOf(q) <= hi
      BY <1>5, <1>13, <2>1
    <2> HIDE DEF lo, hi
    <2>3. mid \in Nat /\ hi \in Int
      BY <1>1, <1>7, <1>13
    <2>4. ASSUME mid <= SlotOf(q) PROVE FALSE
      <3>1. CASE SlotOf(q) \in Ahead(mid, hi)
        <4>1. slot # -1 /\ slot <= SlotOf(q) /\ Held(q.missed, slot) /\ slot \in 0 .. Slots - 1
          BY <1>3, <1>9, <1>13, <3>1
        <4>2. ExecBlockAt(q.missed, slot) > q.block /\ slot \in Nat
          BY <1>1, <1>13, <4>1
        <4>3. SlotOf(q) < slot
          BY <4>1, <4>2, SlotExists
        <4>4. QED
          BY <1>3, <4>1, <4>2, <4>3
      <3>2. CASE SlotOf(q) \notin Ahead(mid, hi)
        <4>1. mid + ProbeDepth <= SlotOf(q)
          BY <1>1, <1>3, <2>2, <2>3, <2>4, <3>2 DEF Ahead
        <4>2. mid + ProbeDepth <= Slots
          BY <1>1, <1>3, <2>3, <4>1
        <4>3. PICK s \in mid .. mid + ProbeDepth - 1 : Held(q.missed, s)
          BY <1>3, <2>2, <2>3, <4>2, NoLongRun
        <4>4. s \in Ahead(mid, hi) /\ s < SlotOf(q)
          BY <1>1, <1>3, <2>2, <2>3, <4>1 DEF Ahead
        <4>5. slot # -1 /\ slot <= s /\ Held(q.missed, slot) /\ slot \in 0 .. Slots - 1
          BY <1>9, <1>13, <4>3, <4>4
        <4>6. ExecBlockAt(q.missed, slot) > q.block /\ slot \in Nat
          BY <1>1, <1>13, <4>5
        <4>7. SlotOf(q) < slot
          BY <4>5, <4>6, SlotExists
        <4>8. QED
          BY <1>1, <1>3, <2>3, <4>4, <4>5, <4>6, <4>7
      <3>3. QED
        BY <3>1, <3>2
    <2>5. SlotOf(q) <= mid - 1
      BY <1>3, <2>3, <2>4
    <2>6. find[lower] = SlotOf(q)
      BY <1>10, <2>1, <2>2, <2>5
    <2>7. QED
      BY <1>5, <1>13, <2>6
  <1>14. CASE /\ lo <= hi /\ slot \in mid .. hi /\ Held(q.missed, slot) /\ slot \in 0 .. Slots
              /\ ExecBlockAt(q.missed, slot) = q.block
              /\ find[r] = slot
    <2>1. slot = SlotOf(q)
      BY <1>1, <1>14, SlotExists
    <2>2. QED
      BY <1>5, <1>14, <2>1
  <1>15. CASE /\ lo <= hi /\ mid \in lo .. hi /\ slot \in mid .. hi /\ upper \in Bounds
              /\ slot # -1 /\ ExecBlockAt(q.missed, slot) < q.block
              /\ find[r] = find[upper]
    <2>1. slot \in Nat /\ Held(q.missed, slot) /\ lo <= slot
      <3> HIDE DEF lo, hi
      <3> QED BY <1>1, <1>7, <1>9, <1>15
    <2>2. Right(upper)
      <3>1. Rank(upper) < Rank(r)
        <4> HIDE DEF lo, hi
        <4> QED BY <1>1, <1>7, <1>11, <2>1
      <3>2. QED
        BY <1>6, <1>15, <3>1
    <2>3. slot < SlotOf(q)
      BY <1>15, <2>1, SlotExists
    <2>4. slot + 1 <= SlotOf(q)
      BY <1>3, <2>1, <2>3
    <2>5. QED
      BY <1>5, <1>10, <1>15, <2>2, <2>4
  <1>16. QED
    BY <1>8, <1>12, <1>13, <1>14, <1>15

\* The ends of a window that brackets the block lie around its slot.
LEMMA WindowEnds ==
  ASSUME NEW q, Sought(q), q.estimate \in Nat, NEW i \in Bracketing(q)
  PROVE  LET winLo == WindowLow(q, Windows[i])
             winHi == q.estimate + Windows[i]
             lo == ProbeForward(q.missed, winLo, winHi)
             hi == ProbeBackward(q.missed, winHi, winLo)
         IN  <<lo, hi>> \in Bounds /\ lo <= SlotOf(q) /\ SlotOf(q) <= hi
  <1> DEFINE winLo == WindowLow(q, Windows[i])
             winHi == q.estimate + Windows[i]
             lo == ProbeForward(q.missed, winLo, winHi)
             hi == ProbeBackward(q.missed, winHi, winLo)
  <1>1. Slots \in Nat /\ winLo \in Nat /\ winHi \in Nat
    <2>1. Windows[i] \in Nat
      BY RetrievalAssumption DEF Bracketing
    <2>2. QED
      BY <2>1, RetrievalAssumption DEF WindowLow
  <1>2. /\ lo # -1 /\ hi # -1
        /\ ExecBlockAt(q.missed, lo) <= q.block /\ q.block <= ExecBlockAt(q.missed, hi)
    BY DEF Bracketing
  <1>3. q.missed \in Missable /\ q.block \in Nat /\ SlotOf(q) \in Nat
    BY SlotExists DEF Sought
  <1>4. lo \in 0 .. Slots - 1 /\ Held(q.missed, lo)
    <2>1. lo = ProbeForward(q.missed, winLo, winHi)
      OBVIOUS
    <2> HIDE DEF lo, winLo, winHi
    <2>2. QED
      BY <1>1, <1>2, <1>3, <2>1, ProbedForward
  <1>5. hi \in 0 .. Slots - 1 /\ Held(q.missed, hi)
    <2>1. hi = ProbeBackward(q.missed, winHi, winLo)
      OBVIOUS
    <2> HIDE DEF hi, winLo, winHi
    <2>2. QED
      BY <1>1, <1>2, <1>3, <2>1, ProbedBackward
  <1> HIDE DEF lo, hi, winLo, winHi
  <1>6. ExecBlockAt(q.missed, lo) \in Nat /\ ExecBlockAt(q.missed, hi) \in Nat
    BY <1>1, <1>3, <1>4, <1>5, HeldSlot
  <1>7. lo <= SlotOf(q)
    <2>1. CASE ExecBlockAt(q.missed, lo) = q.block
      BY <1>1, <1>3, <1>4, <2>1, SlotExists
    <2>2. CASE ExecBlockAt(q.missed, lo) < q.block
      <3>1. lo < SlotOf(q)
        BY <1>1, <1>4, <2>2, SlotExists
      <3>2. QED
        BY <1>1, <1>3, <1>4, <3>1
    <2>3. QED
      BY <1>2, <1>3, <1>6, <2>1, <2>2
  <1>8. SlotOf(q) <= hi
    <2>1. CASE ExecBlockAt(q.missed, hi) = q.block
      BY <1>1, <1>3, <1>5, <2>1, SlotExists
    <2>2. CASE ExecBlockAt(q.missed, hi) > q.block
      <3>1. SlotOf(q) < hi
        BY <1>1, <1>5, <2>2, SlotExists
      <3>2. QED
        BY <1>1, <1>3, <1>5, <3>1
    <2>3. QED
      BY <1>2, <1>3, <1>6, <2>1, <2>2
  <1>9. <<lo, hi>> \in Bounds
    BY <1>1, <1>4, <1>5 DEF Bounds
  <1>10. QED
    BY <1>7, <1>8, <1>9 DEF lo, hi, winLo, winHi

\* A window brackets the block that is in it, if no long run of slots is missed and the chain
\* reaches within a probe of its end.
LEMMA WindowBrackets ==
  ASSUME NEW q, Sought(q), q.estimate \in Nat, NEW i \in DOMAIN Windows,
         ~(LongestMissed(q.missed) >= ProbeDepth),
         SlotOf(q) \in WindowLow(q, Windows[i]) .. q.estimate + Windows[i],
         ~(q.estimate + Windows[i] >= Slots + ProbeDepth - 1)
  PROVE  i \in Bracketing(q)
  <1> DEFINE winLo == WindowLow(q, Windows[i])
             winHi == q.estimate + Windows[i]
             lo == ProbeForward(q.missed, winLo, winHi)
             hi == ProbeBackward(q.missed, winHi, winLo)
  <1>1. /\ Slots \in Nat /\ Slots # 0 /\ winLo \in Nat /\ winHi \in Nat
        /\ ProbeDepth \in Nat /\ ProbeDepth # 0
    <2>1. Windows[i] \in Nat
      BY RetrievalAssumption
    <2>2. QED
      BY <2>1, RetrievalAssumption DEF WindowLow
  <1>2. /\ q.missed \in Missable /\ q.block \in Nat /\ SlotOf(q) \in Nat /\ SlotOf(q) < Slots
        /\ Held(q.missed, SlotOf(q)) /\ ExecBlockAt(q.missed, SlotOf(q)) = q.block
    BY <1>1, SlotExists DEF Sought
  <1>3. winLo <= SlotOf(q) /\ SlotOf(q) <= winHi /\ winHi < Slots + ProbeDepth - 1
    BY <1>1, <1>2
  <1>4. lo # -1 /\ ExecBlockAt(q.missed, lo) <= q.block
    <2>1. \/ lo = -1 /\ \A s \in Ahead(winLo, winHi) : ~Held(q.missed, s)
          \/ /\ lo \in Ahead(winLo, winHi) /\ Held(q.missed, lo)
             /\ lo \in 0 .. Slots - 1
             /\ \A s \in Ahead(winLo, winHi) : Held(q.missed, s) => lo <= s
      <3>1. lo = ProbeForward(q.missed, winLo, winHi)
        OBVIOUS
      <3> HIDE DEF lo, winLo, winHi
      <3>2. QED
        BY <1>1, <1>2, <3>1, ProbedForward
    <2> HIDE DEF lo, winLo, winHi
    <2>2. \E s \in Ahead(winLo, winHi) : Held(q.missed, s) /\ s <= SlotOf(q)
      <3>1. CASE SlotOf(q) < winLo + ProbeDepth
        BY <1>1, <1>2, <1>3, <3>1 DEF Ahead
      <3>2. CASE ~(SlotOf(q) < winLo + ProbeDepth)
        <4>1. winLo + ProbeDepth <= Slots
          BY <1>1, <1>2, <3>2
        <4>2. PICK s \in winLo .. winLo + ProbeDepth - 1 : Held(q.missed, s)
          BY <1>1, <1>2, <4>1, NoLongRun
        <4>3. s \in Ahead(winLo, winHi) /\ s <= SlotOf(q)
          BY <1>1, <1>2, <1>3, <3>2, <4>2 DEF Ahead
        <4>4. QED
          BY <4>2, <4>3
      <3>3. QED
        BY <3>1, <3>2
    <2>3. /\ lo # -1 /\ Held(q.missed, lo) /\ lo \in Nat /\ lo <= SlotOf(q)
      <3>1. \A s \in Ahead(winLo, winHi) : s \in Int
        BY <1>1 DEF Ahead
      <3>2. QED
        BY <1>1, <1>2, <2>1, <2>2, <3>1
    <2>4. ~(ExecBlockAt(q.missed, lo) > q.block)
      <3>1. ExecBlockAt(q.missed, lo) > q.block => SlotOf(q) < lo
        BY <2>3, SlotExists
      <3>2. QED
        BY <1>2, <2>3, <3>1
    <2>5. ExecBlockAt(q.missed, lo) \in Nat
      BY <1>2, <2>3, HeldSlot
    <2>6. QED
      BY <1>2, <2>3, <2>4, <2>5
  <1>5. hi # -1 /\ q.block <= ExecBlockAt(q.missed, hi)
    <2>1. \/ hi = -1 /\ \A s \in Behind(winHi, winLo) : ~Held(q.missed, s)
          \/ /\ hi \in Behind(winHi, winLo) /\ Held(q.missed, hi)
             /\ hi \in 0 .. Slots - 1
             /\ \A s \in Behind(winHi, winLo) : Held(q.missed, s) => s <= hi
      <3>1. hi = ProbeBackward(q.missed, winHi, winLo)
        OBVIOUS
      <3> HIDE DEF hi, winLo, winHi
      <3>2. QED
        BY <1>1, <1>2, <3>1, ProbedBackward
    <2> HIDE DEF hi, winLo, winHi
    <2>2. \E s \in Behind(winHi, winLo) : Held(q.missed, s) /\ SlotOf(q) <= s
      <3>1. CASE SlotOf(q) > winHi - ProbeDepth
        <4>1. SlotOf(q) \in Behind(winHi, winLo)
          BY <1>1, <1>2, <1>3, <3>1 DEF Behind
        <4>2. QED
          BY <1>2, <4>1
      <3>2. CASE SlotOf(q) <= winHi - ProbeDepth /\ winHi < Slots
        <4> DEFINE start == winHi - ProbeDepth + 1
        <4>1. start \in Nat /\ start + ProbeDepth <= Slots /\ start + ProbeDepth - 1 = winHi
          BY <1>1, <1>2, <3>2
        <4>2. SlotOf(q) < start
          BY <1>1, <1>2, <3>2
        <4> HIDE DEF start
        <4>3. PICK s \in start .. start + ProbeDepth - 1 : Held(q.missed, s)
          BY <1>2, <4>1, NoLongRun
        <4>4. s \in start .. winHi /\ SlotOf(q) <= s
          BY <1>1, <1>2, <4>1, <4>2, <4>3
        <4>5. s \in Behind(winHi, winLo)
          BY <1>1, <1>2, <1>3, <4>1, <4>4 DEF Behind, start
        <4>6. QED
          BY <4>3, <4>4, <4>5
      <3>3. CASE SlotOf(q) <= winHi - ProbeDepth /\ ~(winHi < Slots)
        <4>1. Slots - 1 \in Nat /\ SlotOf(q) <= Slots - 1
          BY <1>1, <1>2
        <4>2. Slots - 1 \in Behind(winHi, winLo)
          BY <1>1, <1>2, <1>3, <3>3, <4>1 DEF Behind
        <4>3. Slots - 1 \notin q.missed
          BY <1>1, <1>2 DEF Missable
        <4>4. Held(q.missed, Slots - 1)
          BY <1>1, <1>2, <4>1, <4>3, HeldSlot
        <4>5. QED
          BY <4>1, <4>2, <4>4
      <3>4. QED
        BY <1>1, <1>2, <3>1, <3>2, <3>3
    <2>3. hi # -1 /\ Held(q.missed, hi) /\ hi \in Nat /\ SlotOf(q) <= hi
      <3>1. \A s \in Behind(winHi, winLo) : s \in Int
        BY <1>1 DEF Behind
      <3>2. QED
        BY <1>1, <1>2, <2>1, <2>2, <3>1
    <2>4. ~(ExecBlockAt(q.missed, hi) < q.block)
      <3>1. ExecBlockAt(q.missed, hi) < q.block => hi < SlotOf(q)
        BY <2>3, SlotExists
      <3>2. QED
        BY <1>2, <2>3, <3>1
    <2>5. ExecBlockAt(q.missed, hi) \in Nat
      BY <1>2, <2>3, HeldSlot
    <2>6. QED
      BY <1>2, <2>3, <2>4, <2>5
  <1>6. QED
    BY <1>4, <1>5 DEF Bracketing

LEMMA SearchedSlot ==
  ASSUME NEW q, Sought(q), q.estimate \in Nat, NEW slot, slot = FindSlot(q)
  PROVE  /\ slot \in {-1, SlotOf(q)}
         /\ slot # -1 \/ LongestMissed(q.missed) >= ProbeDepth
            \/ \A i \in DOMAIN Windows :
                  \/ SlotOf(q) \notin WindowLow(q, Windows[i]) .. q.estimate + Windows[i]
                  \/ q.estimate + Windows[i] >= Slots + ProbeDepth - 1
  <1> DEFINE first == CHOOSE i \in Bracketing(q) : \A j \in Bracketing(q) : i <= j
             winLo == WindowLow(q, Windows[first])
             winHi == q.estimate + Windows[first]
             lo == ProbeForward(q.missed, winLo, winHi)
             hi == ProbeBackward(q.missed, winHi, winLo)
  <1>1. slot = IF Bracketing(q) = {} THEN -1 ELSE Bisect(q, lo, hi)
    BY DEF FindSlot
  <1>2. CASE Bracketing(q) = {}
    <2>1. slot = -1
      BY <1>1, <1>2
    <2>2. \A i \in DOMAIN Windows :
             LongestMissed(q.missed) >= ProbeDepth
                  \/ SlotOf(q) \notin WindowLow(q, Windows[i]) .. q.estimate + Windows[i]
                  \/ q.estimate + Windows[i] >= Slots + ProbeDepth - 1
      BY <1>2, WindowBrackets
    <2>3. QED
      BY <2>1, <2>2
  <1>3. CASE Bracketing(q) # {}
    <2>1. first \in Bracketing(q)
      <3>1. Bracketing(q) \in SUBSET Nat
        BY RetrievalAssumption DEF Bracketing
      <3>2. \E i \in Bracketing(q) : \A j \in Bracketing(q) : i <= j
        BY <1>3, <3>1, LeastNat
      <3>3. QED
        BY <3>2
    <2>2. <<lo, hi>> \in Bounds /\ lo <= SlotOf(q) /\ SlotOf(q) <= hi
      <3> HIDE DEF first
      <3> QED BY <2>1, WindowEnds
    <2>3. slot = Bisect(q, lo, hi)
      BY <1>1, <1>3
    <2> HIDE DEF lo, hi, winLo, winHi, first
    <2>4. q.missed \in Missable /\ q.block \in Nat
      BY SlotExists DEF Sought
    <2>5. PICK find : /\ \A r \in Bounds : find[r] = BisectFrom(q, find, r[1], r[2])
                      /\ \A low, high : Bisect(q, low, high) = find[<<low, high>>]
      BY <2>4, BisectUnfolds
    <2>6. slot = find[<<lo, hi>>]
      BY <2>3, <2>5
    <2>7. /\ find[<<lo, hi>>] \in {-1, SlotOf(q)}
          /\ ~(LongestMissed(q.missed) >= ProbeDepth) => find[<<lo, hi>>] = SlotOf(q)
      <3> DEFINE r == <<lo, hi>>
      <3>1. r \in Bounds /\ r[1] = lo /\ r[2] = hi
        BY <2>2
      <3> HIDE DEF r
      <3>2. /\ find[r] \in {-1, SlotOf(q)}
            /\ ~(LongestMissed(q.missed) >= ProbeDepth) => find[r] = SlotOf(q)
        BY <2>2, <2>5, <3>1, BisectFinds
      <3>3. QED
        BY <3>2 DEF r
    <2>8. SlotOf(q) # -1
      BY SlotExists, RetrievalAssumption
    <2>9. QED
      BY <2>6, <2>7, <2>8
  <1>4. QED
    BY <1>2, <1>3

-----------------------------------------------------------------------------
(* The fetch of a blob *)

Answers == {"off", "absent", "right", "wrong", "error"}
Saids == {say \in [1 .. 3 -> Answers] : say = <<say[1], say[2], say[3]>>}

LEMMA BeaconAnswers ==
  ASSUME NEW known \in BOOLEAN, NEW sidecars \in Sidecars
  PROVE  FetchFromBeaconApi(known, sidecars) \in Answers
  <1> DEFINE mine == {i \in DOMAIN sidecars : sidecars[i] \notin {"malformed", "other"}}
             first == CHOOSE i \in mine : \A j \in mine : i <= j
  <1>1. PICK n \in 0 .. 2 : sidecars \in [1 .. n -> {"malformed", "other", "right", "wrong", "short"}]
    BY DEF Sidecars
  <1>2. CASE ~known \/ mine = {}
    BY <1>2 DEF FetchFromBeaconApi, Answers
  <1>3. CASE known /\ mine # {}
    <2>1. mine \in SUBSET Nat
      BY <1>1
    <2>2. first \in mine
      <3>1. \E i \in mine : \A j \in mine : i <= j
        <4> HIDE DEF mine
        <4> QED BY <1>3, <2>1, LeastNat
      <3>2. QED
        BY <3>1
    <2>3. FetchFromBeaconApi(known, sidecars) =
            IF sidecars[first] = "short" THEN "error" ELSE sidecars[first]
      BY <1>3 DEF FetchFromBeaconApi
    <2> HIDE DEF first
    <2>4. sidecars[first] \in {"right", "wrong", "short"}
      BY <1>1, <2>2
    <2>5. QED
      BY <2>3, <2>4 DEF Answers
  <1>4. QED
    BY <1>2, <1>3

LEMMA BlobscanAnswers ==
  ASSUME NEW inline \in {"absent", "right", "wrong"}, NEW urls \in StorageUrls
  PROVE  FetchFromBlobscan(inline, urls) \in Answers
  <1> DEFINE answering == {i \in DOMAIN urls : urls[i] # "absent"}
             first == CHOOSE i \in answering : \A j \in answering : i <= j
  <1>1. PICK n \in 0 .. 2 : urls \in [1 .. n -> {"absent", "refused", "right", "wrong"}]
    BY DEF StorageUrls
  <1>2. CASE inline # "absent" \/ answering = {}
    BY <1>2 DEF FetchFromBlobscan, Answers
  <1>3. CASE inline = "absent" /\ answering # {}
    <2>1. answering \in SUBSET Nat
      BY <1>1
    <2>2. first \in answering
      <3>1. \E i \in answering : \A j \in answering : i <= j
        <4> HIDE DEF answering
        <4> QED BY <1>3, <2>1, LeastNat
      <3>2. QED
        BY <3>1
    <2>3. FetchFromBlobscan(inline, urls) =
            IF urls[first] = "refused" THEN "error" ELSE urls[first]
      BY <1>3 DEF FetchFromBlobscan
    <2> HIDE DEF first
    <2>4. urls[first] \in {"refused", "right", "wrong"}
      BY <1>1, <2>2
    <2>5. QED
      BY <2>3, <2>4 DEF Answers
  <1>4. QED
    BY <1>2, <1>3

\* The fetch goes on to the source after one that is off, has nothing or lies, or is an archive
\* that fails; what it ends with is what the last source it asked says.
LEMMA FetchedInTurn ==
  ASSUME NEW a \in Answers, NEW b \in Answers, NEW s \in Answers,
         NEW say, say = <<a, b, s>>, NEW got, got = FetchBlob(say)
  PROVE  LET right == {i \in DOMAIN Sources : say[i] = "right"}
             failed == {i \in 2 .. 3 : say[i] = "error"}
         IN /\ got.result = "blob" <=> \E i \in right : \A j \in failed : i < j
            /\ got.result = "blob" => got.from \in right
            /\ got.allLied => \A i \in DOMAIN Sources : say[i] \in {"off", "wrong"}
  <1> DEFINE passed(i) == say[i] \in {"off", "absent", "wrong"}
                              \/ (say[i] = "error" /\ Sources[i] = "archive")
             asked == {i \in DOMAIN Sources : \A j \in 1 .. i - 1 : passed(j)}
             last == CHOOSE i \in asked : \A j \in asked : j <= i
             tried == {i \in asked : say[i] # "off"}
             right == {i \in DOMAIN Sources : say[i] = "right"}
             failed == {i \in 2 .. 3 : say[i] = "error"}
  <1>1. /\ DOMAIN Sources = 1 .. 3 /\ say[1] = a /\ say[2] = b /\ say[3] = s
        /\ Sources[1] = "archive" /\ Sources[2] # "archive" /\ Sources[3] # "archive"
    BY DEF Sources
  <1>2. got = [result |-> IF say[last] = "right" THEN "blob"
                          ELSE IF passed(last) THEN "null" ELSE "throws",
               from |-> last,
               allLied |-> tried # {} /\ \A i \in tried : say[i] = "wrong"]
    BY DEF FetchBlob
  <1>3. /\ passed(1) <=> a # "right"
        /\ passed(2) <=> b \notin {"right", "error"}
        /\ passed(3) <=> s \notin {"right", "error"}
    BY <1>1 DEF Answers
  <1>4. asked = {1} \cup (IF passed(1) THEN {2} ELSE {})
                    \cup (IF passed(1) /\ passed(2) THEN {3} ELSE {})
    <2>1. 1 .. 3 = {1, 2, 3} /\ 1 .. 1 - 1 = {} /\ 1 .. 2 - 1 = {1} /\ 1 .. 3 - 1 = {1, 2}
      OBVIOUS
    <2> HIDE DEF passed
    <2>2. QED
      BY <1>1, <2>1
  <1>5. last = IF ~passed(1) THEN 1 ELSE IF ~passed(2) THEN 2 ELSE 3
    <2> DEFINE end == IF ~passed(1) THEN 1 ELSE IF ~passed(2) THEN 2 ELSE 3
    <2>1. end \in asked /\ asked \in SUBSET (1 .. 3)
      <3> HIDE DEF passed, asked
      <3> QED BY <1>4
    <2>2. \A j \in asked : j <= end
      <3> HIDE DEF passed, asked
      <3> QED BY <1>4
    <2>3. \A i \in asked : (\A j \in asked : j <= i) => i = end
      <3>1. end \in 1 .. 3
        BY <2>1
      <3> HIDE DEF passed, asked, end
      <3>2. QED
        BY <2>1, <2>2, <3>1
    <2> HIDE DEF passed, asked, end
    <2>4. QED
      BY <2>1, <2>2, <2>3 DEF end
  <1>6. 1 .. 3 = {1, 2, 3} /\ 2 .. 3 = {2, 3}
    OBVIOUS
  <1>7. got.result = "blob" <=> say[last] = "right"
    BY <1>2
  <1>8. got.from = last /\ (got.allLied <=> tried # {} /\ \A i \in tried : say[i] = "wrong")
    <2> HIDE DEF tried, last
    <2>1. got.from = last
      BY <1>2
    <2>2. got.allLied = (tried # {} /\ \A i \in tried : say[i] = "wrong")
      BY <1>2
    <2>3. QED
      BY <2>1, <2>2
  <1>9. got.result = "blob" <=> \E i \in right : \A j \in failed : i < j
    <2>1. right = {i \in {1, 2, 3} : say[i] = "right"} /\ failed = {i \in {2, 3} : say[i] = "error"}
      BY <1>1, <1>6
    <2> HIDE DEF passed, asked, last, tried, right, failed
    <2>2. QED
      BY <1>1, <1>3, <1>5, <1>7, <2>1 DEF Answers
  <1>10. got.result = "blob" => got.from \in right
    <2>1. last \in 1 .. 3
      <3> HIDE DEF passed, last
      <3> QED BY <1>5
    <2> HIDE DEF last
    <2>2. QED
      BY <1>1, <1>7, <1>8, <2>1
  <1>11. got.allLied => \A i \in {1, 2, 3} : say[i] \in {"off", "wrong"}
    <2> SUFFICES ASSUME got.allLied PROVE \A i \in {1, 2, 3} : say[i] \in {"off", "wrong"}
      OBVIOUS
    <2>1. \A i \in asked : say[i] \in {"off", "wrong"}
      <3> HIDE DEF asked
      <3> QED BY <1>8
    <2> HIDE DEF passed, asked, last, tried, right, failed
    <2>2. say[1] \in {"off", "wrong"}
      BY <1>4, <2>1
    <2>3. say[2] \in {"off", "wrong"}
      BY <1>1, <1>3, <1>4, <2>1, <2>2
    <2>4. say[3] \in {"off", "wrong"}
      BY <1>1, <1>3, <1>4, <2>1, <2>2, <2>3
    <2>5. QED
      BY <2>2, <2>3, <2>4
  <1>12. QED
    BY <1>1, <1>6, <1>9, <1>10, <1>11

FetchInv ==
    /\ archive \in {"none", "torn", "whole"}
    /\ fetch = [f \in {"say", "archived", "got"} |-> fetch[f]]
    /\ \E a, b, s \in Answers : fetch.say = <<a, b, s>> /\ fetch.got = FetchBlob(<<a, b, s>>)

LEMMA FetchStart == ASSUME FetchInit PROVE FetchInv
  <1>1. /\ fetch = [f \in {"say", "archived", "got"} |-> fetch[f]]
        /\ fetch.say = <<"off", "off", "off">>
        /\ fetch.got = [result |-> "null", from |-> 3, allLied |-> FALSE]
        /\ archive = "none"
    BY DEF FetchInit
  <1> DEFINE say == <<"off", "off", "off">>
             asked == {i \in DOMAIN Sources : \A j \in 1 .. i - 1 :
                          say[j] \in {"off", "absent", "wrong"}
                              \/ (say[j] = "error" /\ Sources[j] = "archive")}
             last == CHOOSE i \in asked : \A j \in asked : j <= i
  <1>2. DOMAIN Sources = 1 .. 3 /\ \A i \in 1 .. 3 : say[i] = "off"
    BY DEF Sources
  <1>3. asked = 1 .. 3
    BY <1>2
  <1>4. last = 3
    <2>1. 3 \in asked /\ \A j \in asked : j <= 3
      BY <1>3
    <2>2. \A i \in asked : (\A j \in asked : j <= i) => i = 3
      BY <1>3
    <2> HIDE DEF asked
    <2>3. QED
      BY <2>1, <2>2
  <1>5. FetchBlob(say) = [result |-> "null", from |-> 3, allLied |-> FALSE]
    <2>1. {i \in asked : say[i] # "off"} = {}
      BY <1>2, <1>3
    <2>2. FetchBlob(say).from = last /\ FetchBlob(say).allLied = FALSE
      BY <2>1 DEF FetchBlob
    <2>3. FetchBlob(say) =
            [result |-> IF say[last] = "right" THEN "blob"
                        ELSE IF say[last] \in {"off", "absent", "wrong"}
                                \/ (say[last] = "error" /\ Sources[last] = "archive")
                        THEN "null" ELSE "throws",
             from |-> last,
             allLied |-> {i \in asked : say[i] # "off"} # {}
                            /\ \A i \in {j \in asked : say[j] # "off"} : say[i] = "wrong"]
      BY DEF FetchBlob
    <2>4. say[3] = "off"
      OBVIOUS
    <2> HIDE DEF asked, last, say
    <2>5. QED
      BY <1>4, <2>1, <2>3, <2>4
  <1>6. QED
    BY <1>1, <1>5 DEF FetchInv, Answers

LEMMA FetchKept == ASSUME FetchInv, Fetch PROVE FetchInv'
  <1>1. PICK a \in IF fetch.archived THEN ArchiveSays ELSE {"off"}, b \in BeaconSays, s \in BlobscanSays :
           /\ fetch' = [fetch EXCEPT !.say = <<a, b, s>>, !.got = FetchBlob(<<a, b, s>>)]
           /\ archive' \in WriteBack(FetchBlob(<<a, b, s>>))
    BY DEF Fetch
  <1>2. a \in Answers /\ archive' \in {"none", "torn", "whole"}
    BY <1>1 DEF Answers, ArchiveSays, WriteBack, FetchInv
  <1>3. b \in Answers
    BY BeaconAnswers DEF Answers, BeaconSays
  <1>4. s \in Answers
    BY BlobscanAnswers DEF Answers, BlobscanSays
  <1>5. QED
    BY <1>1, <1>2, <1>3, <1>4 DEF FetchInv

-----------------------------------------------------------------------------
(* The invariant behind BlobReached *)

SearchInv ==
    search.slot # -3 =>
        /\ search = [f \in {"missed", "block", "estimate", "slot"} |-> search[f]]
        /\ Sought(search) /\ search.estimate \in Nat
        /\ search.slot = -2 \/ search.slot = FindSlot(search)

LEMMA SearchStart == ASSUME SearchInit \/ NoSearch PROVE SearchInv
  <1>1. CASE NoSearch
    BY <1>1 DEF NoSearch, SearchInv
  <1>2. CASE SearchInit
    <2>1. PICK m \in SUBSET (0 .. Slots - 2) :
             search \in [missed : {m}, block : 1 .. Cardinality((0 .. Slots - 1) \ m),
                         estimate : 0 .. Slots - 1, slot : {-2}]
      BY <1>2 DEF SearchInit
    <2>2. /\ search = [f \in {"missed", "block", "estimate", "slot"} |-> search[f]]
          /\ search.missed = m /\ search.block \in 1 .. Cardinality((0 .. Slots - 1) \ m)
          /\ search.estimate \in 0 .. Slots - 1 /\ search.slot = -2
      BY <2>1
    <2>3. Sought(search) /\ search.estimate \in Nat
      <3>1. search.missed \in Missable
        BY <2>2 DEF Missable
      <3>2. search.block \in 1 .. Cardinality((0 .. Slots - 1) \ search.missed)
        BY <2>2, Zenon
      <3>3. search.estimate \in Nat
        <4>1. search.estimate \in 0 .. Slots - 1 /\ Slots \in Nat
          BY <2>2, RetrievalAssumption
        <4>2. QED
          BY <4>1
      <3>4. QED
        BY <3>1, <3>2, <3>3 DEF Sought
    <2>4. QED
      BY <2>2, <2>3 DEF SearchInv
  <1>3. QED
    BY <1>1, <1>2

\* The search looks at the chain and the estimate alone.
LEMMA SameSearch ==
  ASSUME NEW q, NEW r, q.missed = r.missed, q.block = r.block, q.estimate = r.estimate
  PROVE  FindSlot(q) = FindSlot(r) /\ SlotOf(q) = SlotOf(r) /\ (Sought(q) <=> Sought(r))
         /\ \A w : WindowLow(q, w) = WindowLow(r, w)
  <1>1. \A w : WindowLow(q, w) = WindowLow(r, w)
    BY DEF WindowLow
  <1>2. Bracketing(q) = Bracketing(r)
    BY <1>1 DEF Bracketing
  <1>3. SlotOf(q) = SlotOf(r) /\ (Sought(q) <=> Sought(r))
    BY DEF SlotOf, Sought
  <1>4. \A low, high : Bisect(q, low, high) = Bisect(r, low, high)
    BY DEF Bisect
  <1>5. FindSlot(q) = FindSlot(r)
    BY <1>1, <1>2, <1>4 DEF FindSlot
  <1>6. QED
    BY <1>1, <1>3, <1>5

LEMMA SearchKept == ASSUME SearchInv, FindSlotForExecBlock PROVE SearchInv'
  <1>1. search' = [search EXCEPT !.slot = FindSlot(search)] /\ search.slot = -2
    BY DEF FindSlotForExecBlock
  <1>2. /\ search'.missed = search.missed /\ search'.block = search.block
        /\ search'.estimate = search.estimate /\ search'.slot = FindSlot(search)
        /\ search' = [f \in {"missed", "block", "estimate", "slot"} |-> search'[f]]
    BY <1>1 DEF SearchInv
  <1>3. FindSlot(search') = FindSlot(search) /\ Sought(search')
    BY <1>1, <1>2, SameSearch DEF SearchInv
  <1>4. QED
    BY <1>1, <1>2, <1>3 DEF SearchInv

RetrievalInv == FetchInv /\ SearchInv

LEMMA RetrievalInvStep == ASSUME RetrievalInv, [RetrievalNext]_retrievalVars PROVE RetrievalInv'
  <1>1. CASE Scan
    BY <1>1 DEF Scan, RetrievalInv, FetchInv, SearchInv
  <1>2. CASE Fetch
    <2>1. UNCHANGED search
      BY <1>2 DEF Fetch
    <2>2. QED
      BY <1>2, <2>1, FetchKept DEF RetrievalInv, SearchInv
  <1>3. CASE FindSlotForExecBlock
    <2>1. UNCHANGED <<archive, fetch>>
      BY <1>3 DEF FindSlotForExecBlock
    <2>2. QED
      BY <1>3, <2>1, SearchKept DEF RetrievalInv, FetchInv
  <1>4. CASE UNCHANGED retrievalVars
    BY <1>4 DEF retrievalVars, RetrievalInv, FetchInv, SearchInv
  <1>5. QED
    BY <1>1, <1>2, <1>3, <1>4 DEF RetrievalNext

LEMMA ReachedBlob == ASSUME RetrievalInv PROVE BlobReached
  <1>1. BlobServed
    BY FetchedInTurn DEF RetrievalInv, FetchInv, BlobServed
  <1>2. SlotFound
    <2> SUFFICES ASSUME search.slot >= -1 PROVE SlotFound!2
      BY DEF SlotFound
    <2>1. search.slot # -3 /\ search.slot # -2
      OBVIOUS
    <2>2. Sought(search) /\ search.estimate \in Nat /\ search.slot = FindSlot(search)
      BY <2>1 DEF RetrievalInv, SearchInv
    <2>3. QED
      BY <2>2, SearchedSlot
  <1>3. QED
    BY <1>1, <1>2 DEF BlobReached

\* A reader that knows where to look gets the blob: from the first source that has
\* it, and the coprocessor from the slot of the block, whatever slots are missed,
\* for a chain of any length and any windows and depth of the probe (fetchBlob,
\* find_slot).
THEOREM BlobIsReached == RetrievalSpec => []BlobReached
  <1>1. RetrievalInit => RetrievalInv
    BY FetchStart, SearchStart DEF RetrievalInit, RetrievalInv
  <1>2. RetrievalInv /\ [RetrievalNext]_retrievalVars => RetrievalInv'
    BY RetrievalInvStep
  <1>3. RetrievalInv => BlobReached
    BY ReachedBlob
  <1>4. QED
    BY <1>1, <1>2, <1>3, PTL DEF RetrievalSpec

-----------------------------------------------------------------------------
(* The logs of a scan, in their order *)

\* A strict total order of S.
Orders(precedes, S) ==
    /\ \A x \in S : <<x, x>> \notin precedes
    /\ \A x, y \in S : x # y => <<x, y>> \in precedes \/ <<y, x>> \in precedes
    /\ \A x, y, z \in S : <<x, y>> \in precedes /\ <<y, z>> \in precedes
                             => <<x, z>> \in precedes

\* Ranks are distinct and below the number of members, so by the pigeonhole principle
\* each number is the rank of a member: all of them, in order.
LEMMA RankedMembers ==
  ASSUME NEW S, IsFiniteSet(S), NEW precedes, Orders(precedes, S)
  PROVE  /\ Cardinality(S) \in Nat
         /\ Placed(S, precedes) \in [1 .. Cardinality(S) -> S]
         /\ Range(Placed(S, precedes)) = S
         /\ \A i, j \in 1 .. Cardinality(S) :
               i < j => <<Placed(S, precedes)[i], Placed(S, precedes)[j]>> \in precedes
         /\ \A i \in 1 .. Cardinality(S) :
               Cardinality({y \in S : <<y, Placed(S, precedes)[i]>> \in precedes}) = i - 1
         /\ \A x, y \in S : Cardinality({z \in S : <<z, x>> \in precedes}) =
                             Cardinality({z \in S : <<z, y>> \in precedes}) => x = y
  <1> DEFINE ahead(x) == {y \in S : <<y, x>> \in precedes}
             n == Cardinality(S)
             rank(x) == Cardinality(ahead(x))
             list == Placed(S, precedes)
  <1>1. n \in Nat
    BY FS_CardinalityType
  <1>2. ASSUME NEW x \in S
        PROVE  IsFiniteSet(ahead(x)) /\ rank(x) \in 0 .. n - 1
    <2>1. /\ IsFiniteSet(S \ {x})
          /\ Cardinality(S \ {x}) = n - 1
      BY FS_RemoveElement
    <2>2. ahead(x) \in SUBSET (S \ {x})
      BY DEF Orders
    <2> HIDE DEF ahead, n
    <2>3. IsFiniteSet(ahead(x)) /\ Cardinality(ahead(x)) <= n - 1
      BY <2>1, <2>2, FS_Subset
    <2>4. Cardinality(ahead(x)) \in Nat
      BY <2>3, FS_CardinalityType
    <2>5. QED
      BY <1>1, <2>3, <2>4
  <1>3. ASSUME NEW x \in S, NEW y \in S, <<x, y>> \in precedes
        PROVE  rank(x) < rank(y)
    <2>1. ahead(x) \in SUBSET ahead(y) /\ ahead(x) # ahead(y)
      BY <1>3 DEF Orders
    <2> HIDE DEF ahead
    <2>2. Cardinality(ahead(x)) <= Cardinality(ahead(y)) /\ Cardinality(ahead(x)) # Cardinality(ahead(y))
      BY <1>2, <2>1, FS_Subset
    <2>3. rank(x) \in Int /\ rank(y) \in Int
      BY <1>1, <1>2
    <2>4. QED
      BY <2>2, <2>3
  <1> HIDE DEF ahead
  <1>4. \A x, y \in S : rank(x) = rank(y) => x = y
    <2>1. \A x, y \in S : x # y => rank(x) < rank(y) \/ rank(y) < rank(x)
      BY <1>3 DEF Orders
    <2>2. \A x \in S : rank(x) \in Int
      BY <1>1, <1>2
    <2> HIDE DEF rank
    <2>3. QED
      BY <2>1, <2>2
  <1>5. ASSUME NEW r \in 0 .. n - 1
        PROVE  \E x \in S : rank(x) = r
    <2> SUFFICES ASSUME \A x \in S : rank(x) # r
                 PROVE  FALSE
      OBVIOUS
    <2> DEFINE f == [x \in S |-> rank(x)]
    <2> HIDE DEF rank
    <2>1. f \in [S -> (0 .. n - 1) \ {r}] /\ \A x \in S : f[x] = rank(x)
      BY <1>2
    <2>2. IsFiniteSet(0 .. n - 1) /\ Cardinality(0 .. n - 1) = n
      BY <1>1, FS_Interval
    <2>3. /\ IsFiniteSet((0 .. n - 1) \ {r})
          /\ Cardinality((0 .. n - 1) \ {r}) = n - 1
      BY <2>2, FS_RemoveElement
    <2>4. Cardinality((0 .. n - 1) \ {r}) < Cardinality(S)
      BY <1>1, <2>3
    <2> HIDE DEF f, n
    <2>5. \E x, y \in S : x # y /\ f[x] = f[y]
      BY <2>1, <2>3, <2>4, FS_PigeonHole
    <2>6. QED
      BY <1>4, <2>1, <2>5
  <1>6. list = [i \in 1 .. n |-> CHOOSE x \in S : rank(x) = i - 1]
    BY DEF Placed, ahead, rank
  <1> HIDE DEF rank, n, list
  <1>7. ASSUME NEW i \in 1 .. n
        PROVE  list[i] \in S /\ rank(list[i]) = i - 1
    <2>1. \E x \in S : rank(x) = i - 1
      BY <1>1, <1>5
    <2>2. QED
      BY <1>6, <2>1
  <1>8. list \in [1 .. n -> S]
    BY <1>6, <1>7
  <1>9. ASSUME NEW x \in S
        PROVE  \E i \in 1 .. n : list[i] = x
    <2>1. rank(x) + 1 \in 1 .. n
      BY <1>1, <1>2
    <2>2. rank(list[rank(x) + 1]) = rank(x) /\ list[rank(x) + 1] \in S
      BY <1>1, <1>2, <1>7, <2>1
    <2>3. QED
      BY <1>4, <2>1, <2>2
  <1>10. Range(list) = S
    BY <1>8, <1>9 DEF Range
  <1>11. ASSUME NEW i \in 1 .. n, NEW j \in 1 .. n, i < j
         PROVE  <<list[i], list[j]>> \in precedes
    <2>1. list[i] \in S /\ list[j] \in S /\ rank(list[i]) < rank(list[j])
      BY <1>1, <1>7, <1>11
    <2>2. rank(list[i]) \in Int /\ rank(list[j]) \in Int
      BY <1>1, <1>2, <2>1
    <2>3. list[i] # list[j] /\ <<list[j], list[i]>> \notin precedes
      BY <1>3, <2>1, <2>2
    <2>4. QED
      BY <2>1, <2>3 DEF Orders
  <1>12. \A x : rank(x) = Cardinality({y \in S : <<y, x>> \in precedes})
    BY DEF rank, ahead
  <1>13. \A x, y \in S : Cardinality({z \in S : <<z, x>> \in precedes}) =
                        Cardinality({z \in S : <<z, y>> \in precedes}) => x = y
    BY <1>4, <1>12
  <1>14. \A i \in 1 .. n : Cardinality({y \in S : <<y, list[i]>> \in precedes}) = i - 1
    BY <1>7, <1>12
  <1>15. QED
    BY <1>1, <1>8, <1>10, <1>11, <1>13, <1>14 DEF n, list

\* Logs, or events, that their indexes tell apart.
Indexed(S) ==
    /\ IsFiniteSet(S) /\ \A x \in S : x.index \in Nat
    /\ \A x, y \in S : x.index = y.index => x = y

LEMMA IndexedInOrder ==
  ASSUME NEW S, Indexed(S)
  PROVE  /\ Cardinality(S) \in Nat
         /\ ByIndex(S) \in [1 .. Cardinality(S) -> S]
         /\ ListsOnce(ByIndex(S), S)
         /\ \A i, j \in 1 .. Cardinality(S) : i < j => ByIndex(S)[i].index < ByIndex(S)[j].index
         /\ \A i \in 1 .. Cardinality(S) :
               Cardinality({y \in S : y.index < ByIndex(S)[i].index}) = i - 1
         /\ \A x, y \in S : Cardinality({z \in S : z.index < x.index}) =
                             Cardinality({z \in S : z.index < y.index}) => x = y
  <1> DEFINE P == {p \in S \X S : p[1].index < p[2].index}
             n == Cardinality(S)
             list == Placed(S, P)
  <1>1. \A x, y : <<x, y>> \in P <=> x \in S /\ y \in S /\ x.index < y.index
    OBVIOUS
  <1>2. IsFiniteSet(S) /\ list = ByIndex(S)
    BY DEF ByIndex, Indexed
  <1> HIDE DEF P
  <1>3. Orders(P, S)
    BY <1>1 DEF Orders, Indexed
  <1>4. /\ n \in Nat /\ list \in [1 .. n -> S] /\ Range(list) = S
        /\ \A i, j \in 1 .. n : i < j => <<list[i], list[j]>> \in P
        /\ \A i \in 1 .. n : Cardinality({y \in S : <<y, list[i]>> \in P}) = i - 1
        /\ \A x, y \in S : Cardinality({z \in S : <<z, x>> \in P}) =
                            Cardinality({z \in S : <<z, y>> \in P}) => x = y
    BY <1>2, <1>3, RankedMembers
  <1> HIDE DEF list, n
  <1>5. \A x \in S : {z \in S : <<z, x>> \in P} = {z \in S : z.index < x.index}
    BY <1>1
  <1>6. \A i, j \in 1 .. n : i < j => list[i].index < list[j].index
    BY <1>1, <1>4
  <1>7. ListsOnce(list, S)
    <2>1. {list[i] : i \in DOMAIN list} = S
      BY <1>4 DEF Range
    <2>2. \A i, j \in 1 .. n : i # j => i < j \/ j < i
      BY <1>4
    <2>3. \A i \in 1 .. n : list[i].index \in Nat
      BY <1>4 DEF Indexed
    <2>4. \A i, j \in 1 .. n : list[i] = list[j] => i = j
      BY <1>6, <2>2, <2>3
    <2>5. QED
      BY <1>4, <2>1, <2>4 DEF ListsOnce
  <1>8. \A i \in 1 .. n : Cardinality({y \in S : y.index < list[i].index}) = i - 1
    BY <1>4, <1>5
  <1>9. \A x, y \in S : Cardinality({z \in S : z.index < x.index}) =
                        Cardinality({z \in S : z.index < y.index}) => x = y
    BY <1>4, <1>5
  <1>10. QED
    BY <1>2, <1>4, <1>6, <1>7, <1>8, <1>9 DEF n

\* The logs a filter keeps of a range of blocks.
LogsIn(s, from, to) == {l \in ChainLogs(s.calls) : l.block \in from .. to /\ l.tag \in s.tags}

\* The declaration of the call a registration is of.
OwnDeclaration(d, l) ==
    /\ d.event = "segment" /\ d.index = l.index - 1 /\ d.block = l.block
    /\ d.tx = l.tx /\ d.tag = l.tag /\ d.range = l.range

LEMMA LogsOfAChain ==
  ASSUME NEW calls \in Calls
  PROVE  /\ Indexed(ChainLogs(calls))
         /\ \A l \in ChainLogs(calls) : l.event \in {"segment", "batch"} /\ l.block \in 1 .. ScanBlocks
         /\ \A l, m \in ChainLogs(calls) : l.index < m.index => l.block <= m.block
         /\ \A l \in ChainLogs(calls) : l.event = "batch" => \E d \in ChainLogs(calls) : OwnDeclaration(d, l)
  <1> DEFINE L == ChainLogs(calls)
             n == Len(calls)
             log(i, event, rank) == [event |-> event, index |-> rank, block |-> calls[i].block,
                                      tx |-> calls[i].tx, tag |-> calls[i].tag, range |-> calls[i].range]
  <1>1. n \in Nat /\ DOMAIN calls = 1 .. n
    BY ScanAssumption
  <1>2. \A i, j \in 1 .. n : calls[i].block \in 1 .. ScanBlocks /\ (i < j => calls[i].block <= calls[j].block)
    BY <1>1, ScanAssumption
  <1> HIDE DEF n
  <1>3. \A l : l \in L <=> \E i \in 1 .. n :
                              \/ l = log(i, "segment", 2 * i - 1)
                              \/ l = log(i, "batch", 2 * i) /\ calls[i].kind = "register"
    <2>1. ASSUME NEW i
          PROVE  \A l : l \in LogsOfCall(calls, i) <=>
                          \/ l = log(i, "segment", 2 * i - 1)
                          \/ l = log(i, "batch", 2 * i) /\ calls[i].kind = "register"
      BY DEF LogsOfCall
    <2>2. L = UNION {LogsOfCall(calls, i) : i \in 1 .. n}
      BY <1>1 DEF ChainLogs
    <2> HIDE DEF log, L
    <2>3. \A l : l \in L <=> \E i \in 1 .. n : l \in LogsOfCall(calls, i)
      BY <2>2
    <2>4. QED
      BY <2>1, <2>3, Zenon
  <1>4. \A i, event, rank :
           /\ log(i, event, rank).event = event /\ log(i, event, rank).index = rank
           /\ log(i, event, rank).block = calls[i].block /\ log(i, event, rank).tx = calls[i].tx
           /\ log(i, event, rank).tag = calls[i].tag /\ log(i, event, rank).range = calls[i].range
    OBVIOUS
  <1> HIDE DEF L, log
  <1>5. \A l \in L : \E i \in 1 .. n :
           /\ l = log(i, "segment", 2 * i - 1) \/ l = log(i, "batch", 2 * i)
           /\ l.index \in {2 * i - 1, 2 * i} /\ l.block = calls[i].block
           /\ l.event = IF l.index = 2 * i THEN "batch" ELSE "segment"
    <2>1. \A i \in 1 .. n : 2 * i - 1 # 2 * i
      BY <1>1
    <2>2. QED
      BY <1>3, <1>4, <2>1
  <1>6. \A l, m \in L : l.index = m.index => l = m
    <2> SUFFICES ASSUME NEW l \in L, NEW m \in L, l.index = m.index PROVE l = m
      OBVIOUS
    <2>1. PICK i \in 1 .. n : \/ l = log(i, "segment", 2 * i - 1) \/ l = log(i, "batch", 2 * i)
      BY <1>3
    <2>2. PICK j \in 1 .. n : \/ m = log(j, "segment", 2 * j - 1) \/ m = log(j, "batch", 2 * j)
      BY <1>3
    <2>3. CASE l = log(i, "segment", 2 * i - 1) /\ m = log(j, "segment", 2 * j - 1)
      <3>1. 2 * i - 1 = 2 * j - 1
        BY <1>4, <2>3
      <3>2. i = j
        BY <1>1, <3>1
      <3>3. QED
        BY <2>3, <3>2
    <2>4. CASE l = log(i, "batch", 2 * i) /\ m = log(j, "batch", 2 * j)
      <3>1. 2 * i = 2 * j
        BY <1>4, <2>4
      <3>2. i = j
        BY <1>1, <3>1
      <3>3. QED
        BY <2>4, <3>2
    <2>5. CASE l = log(i, "segment", 2 * i - 1) /\ m = log(j, "batch", 2 * j)
      <3>1. 2 * i - 1 = 2 * j
        BY <1>4, <2>5
      <3>2. QED
        BY <1>1, <3>1
    <2>6. CASE l = log(i, "batch", 2 * i) /\ m = log(j, "segment", 2 * j - 1)
      <3>1. 2 * i = 2 * j - 1
        BY <1>4, <2>6
      <3>2. QED
        BY <1>1, <3>1
    <2>7. QED
      BY <2>1, <2>2, <2>3, <2>4, <2>5, <2>6
  <1>7. \A l \in L : l.index \in 1 .. 2 * n
    BY <1>1, <1>5
  <1>8. IsFiniteSet(L)
    <2> DEFINE f == [l \in L |-> l.index]
    <2>1. f \in Injection(L, 1 .. 2 * n)
      <3>1. f \in [L -> 1 .. 2 * n] /\ \A l, m \in L : f[l] = f[m] => l = m
        BY <1>6, <1>7
      <3> HIDE DEF f
      <3>2. QED
        BY <3>1 DEF Injection, IsInjective
    <2>2. IsFiniteSet(1 .. 2 * n)
      BY <1>1, FS_Interval
    <2>3. QED
      BY <2>1, <2>2, FS_Injection
  <1>9. \A l, m \in L : l.index < m.index => l.block <= m.block
    <2> SUFFICES ASSUME NEW l \in L, NEW m \in L, l.index < m.index PROVE l.block <= m.block
      OBVIOUS
    <2>1. PICK i \in 1 .. n : l.index \in {2 * i - 1, 2 * i} /\ l.block = calls[i].block
      BY <1>5
    <2>2. PICK j \in 1 .. n : m.index \in {2 * j - 1, 2 * j} /\ m.block = calls[j].block
      BY <1>5
    <2>3. i < j \/ i = j
      BY <1>1, <2>1, <2>2
    <2>4. calls[i].block \in Int
      BY <1>2
    <2>5. QED
      BY <1>2, <2>1, <2>2, <2>3, <2>4
  <1>10. \A l \in L : l.event = "batch" => \E d \in L : OwnDeclaration(d, l)
    <2> SUFFICES ASSUME NEW l \in L, l.event = "batch" PROVE \E d \in L : OwnDeclaration(d, l)
      OBVIOUS
    <2>1. PICK i \in 1 .. n : l = log(i, "batch", 2 * i)
      BY <1>3, <1>4
    <2>2. log(i, "segment", 2 * i - 1) \in L
      BY <1>3, Zenon
    <2>3. OwnDeclaration(log(i, "segment", 2 * i - 1), l)
      BY <1>4, <2>1 DEF OwnDeclaration
    <2>4. QED
      BY <2>2, <2>3
  <1>11. \A l \in L : l.event \in {"segment", "batch"} /\ l.block \in 1 .. ScanBlocks
    BY <1>2, <1>5
  <1>12. Indexed(L)
    <2>1. \A l \in L : l.index \in Nat
      BY <1>1, <1>7
    <2>2. QED
      BY <1>6, <1>8, <2>1 DEF Indexed
  <1>13. QED
    BY <1>9, <1>10, <1>11, <1>12 DEF L

\* What a filter keeps holds the declaration of each registration it keeps.
LEMMA LogsOfARange ==
  ASSUME NEW s, s.calls \in Calls, NEW from \in Int, NEW to \in Int
  PROVE  /\ Indexed(LogsIn(s, from, to))
         /\ \A l \in LogsIn(s, from, to) : l.event \in {"segment", "batch"}
         /\ \A l \in LogsIn(s, from, to) :
               l.event = "batch" => \E d \in LogsIn(s, from, to) : OwnDeclaration(d, l)
  <1> DEFINE L == ChainLogs(s.calls)
             S == LogsIn(s, from, to)
  <1>1. /\ Indexed(L) /\ \A l \in L : l.event \in {"segment", "batch"}
        /\ \A l \in L : l.event = "batch" => \E d \in L : OwnDeclaration(d, l)
    BY LogsOfAChain
  <1>2. S \subseteq L /\ \A d \in L, l \in S : OwnDeclaration(d, l) => d \in S
    BY DEF LogsIn, OwnDeclaration
  <1> HIDE DEF L, S
  <1>3. Indexed(S)
    <2>1. IsFiniteSet(S)
      BY <1>1, <1>2, FS_Subset DEF Indexed
    <2>2. QED
      BY <1>1, <1>2, <2>1 DEF Indexed
  <1>4. QED
    BY <1>1, <1>2, <1>3 DEF S

-----------------------------------------------------------------------------
(* The pairing of registrations and declarations *)

\* What a walk over logs of T goes through.
RangesOf(T) == UNION {[I -> {l.range : l \in T}] : I \in SUBSET Nat}
Walks(T) == [pending : Seq(T), ranges : RangesOf(T)]

\* A registration that claims: one position, and its range.
LEMMA ClaimedAt ==
  ASSUME NEW T, NEW w \in Walks(T), NEW l \in T, l.index \in Nat, NEW j \in DOMAIN w.pending
  PROVE  /\ Claimed(w, l, j) \in Walks(T)
         /\ DOMAIN Claimed(w, l, j).ranges = DOMAIN w.ranges \cup {l.index}
         /\ Claimed(w, l, j).ranges[l.index] = w.pending[j].range
         /\ \A i \in DOMAIN w.ranges : i # l.index => Claimed(w, l, j).ranges[i] = w.ranges[i]
  <1> DEFINE pending == w.pending
             n == Len(pending)
             V == {m.range : m \in T}
             ranges == [i \in DOMAIN w.ranges \cup {l.index} |->
                           IF i = l.index THEN pending[j].range ELSE w.ranges[i]]
  <1>1. pending \in Seq(T) /\ n \in Nat /\ DOMAIN pending = 1 .. n /\ j \in 1 .. n
    BY DEF Walks
  <1>2. \A i \in 1 .. n : pending[i] \in T
    BY <1>1
  <1>3. RemoveAt(pending, j) \in Seq(T)
    <2> HIDE DEF pending, n
    <2>1. n = Len(pending)
      BY DEF n
    <2>2. SubSeq(pending, 1, j - 1) \in Seq(T)
      BY <1>1, <1>2, SubSeqProperties
    <2>3. SubSeq(pending, j + 1, n) \in Seq(T)
      BY <1>1, <1>2, SubSeqProperties
    <2>4. QED
      BY <2>1, <2>2, <2>3, ConcatProperties DEF RemoveAt
  <1>4. \E I \in SUBSET Nat : w.ranges \in [I -> V]
    BY DEF Walks, RangesOf
  <1>5. DOMAIN w.ranges \in SUBSET Nat /\ \A i \in DOMAIN w.ranges : w.ranges[i] \in V
    BY <1>4
  <1>6. pending[j].range \in V
    BY <1>1, <1>2
  <1>7. ranges \in RangesOf(T)
    <2>1. DOMAIN w.ranges \cup {l.index} \in SUBSET Nat
      BY <1>5
    <2>2. ranges \in [DOMAIN w.ranges \cup {l.index} -> V]
      <3> HIDE DEF V, pending
      <3> QED BY <1>5, <1>6
    <2> HIDE DEF ranges
    <2>3. QED
      BY <2>1, <2>2 DEF RangesOf
  <1>8. Claimed(w, l, j) = [pending |-> RemoveAt(pending, j), ranges |-> ranges]
    BY DEF Claimed
  <1>9. Claimed(w, l, j).ranges = ranges
    BY <1>8
  <1>10. Claimed(w, l, j) \in Walks(T)
    <2> HIDE DEF ranges, pending
    <2> QED BY <1>3, <1>7, <1>8 DEF Walks
  <1>11. QED
    BY <1>9, <1>10

\* The last of the positions in a set of them.
LEMMA LastPosition ==
  ASSUME NEW n \in Nat, NEW S \in SUBSET (1 .. n), S # {}
  PROVE  LET last == CHOOSE m \in S : \A k \in S : k <= m
         IN last \in S /\ \A k \in S : k <= last
  <1> DEFINE gaps == {n - m : m \in S}
  <1>1. gaps \in SUBSET Nat /\ gaps # {}
    <2>1. \A m \in S : n - m \in Nat /\ n - m \in gaps
      OBVIOUS
    <2>2. QED
      BY <2>1
  <1>2. PICK g \in gaps : \A h \in gaps : g <= h
    <2> HIDE DEF gaps
    <2> QED BY <1>1, LeastNat
  <1>3. PICK m \in S : g = n - m
    BY <1>2
  <1>4. \A k \in S : k <= m
    BY <1>2, <1>3
  <1>5. QED
    BY <1>4

LEMMA ClaimStays ==
  ASSUME NEW T, NEW w \in Walks(T), NEW l \in T, l.index \in Nat
  PROVE  Claim(w, l) \in Walks(T)
  <1> DEFINE matching == {j \in DOMAIN w.pending : w.pending[j].tag = l.tag}
             last == CHOOSE m \in matching : \A n \in matching : n <= m
  <1>1. CASE l.event = "segment"
    <2>1. Claim(w, l) = [w EXCEPT !.pending = Append(@, l)]
      BY <1>1 DEF Claim
    <2>2. Append(w.pending, l) \in Seq(T)
      BY DEF Walks
    <2>3. QED
      BY <2>1, <2>2 DEF Walks
  <1>2. CASE l.event # "segment" /\ matching = {}
    <2>1. Claim(w, l) = w
      BY <1>2 DEF Claim
    <2>2. QED
      BY <2>1
  <1>3. CASE l.event # "segment" /\ matching # {}
    <2>1. Claim(w, l) = Claimed(w, l, last)
      BY <1>3 DEF Claim
    <2>2. DOMAIN w.pending = 1 .. Len(w.pending) /\ Len(w.pending) \in Nat
      BY DEF Walks
    <2>3. last \in matching
      <3>1. matching \in SUBSET (1 .. Len(w.pending))
        BY <2>2
      <3> HIDE DEF matching
      <3>2. QED
        BY <1>3, <2>2, <3>1, LastPosition
    <2>4. last \in DOMAIN w.pending
      BY <2>3
    <2> HIDE DEF last
    <2>5. QED
      BY <2>1, <2>4, ClaimedAt
  <1>4. QED
    BY <1>1, <1>2, <1>3

\* Right after its declaration, a registration claims it: no later one is pending.
LEMMA ClaimsTheLatest ==
  ASSUME NEW T, NEW w \in Walks(T), NEW l \in T, l.index \in Nat, l.event # "segment",
         Len(w.pending) > 0, w.pending[Len(w.pending)].tag = l.tag
  PROVE  /\ DOMAIN Claim(w, l).ranges = DOMAIN w.ranges \cup {l.index}
         /\ Claim(w, l).ranges[l.index] = w.pending[Len(w.pending)].range
         /\ \A i \in DOMAIN w.ranges : i # l.index => Claim(w, l).ranges[i] = w.ranges[i]
  <1> DEFINE n == Len(w.pending)
             matching == {j \in DOMAIN w.pending : w.pending[j].tag = l.tag}
             last == CHOOSE m \in matching : \A k \in matching : k <= m
  <1>1. DOMAIN w.pending = 1 .. n /\ n \in Nat
    BY DEF Walks
  <1>2. n \in matching /\ \A k \in matching : k <= n
    BY <1>1
  <1>3. last = n
    <2>1. \A m \in matching : (\A k \in matching : k <= m) => m = n
      BY <1>1, <1>2
    <2> HIDE DEF matching, n
    <2>2. QED
      BY <1>2, <2>1
  <1>4. Claim(w, l) = Claimed(w, l, last)
    BY <1>2 DEF Claim
  <1>5. n \in DOMAIN w.pending
    BY <1>1, <1>2
  <1> HIDE DEF last
  <1>6. QED
    BY <1>3, <1>4, <1>5, ClaimedAt

\* The walk over logs of T is what its recursion says.
LEMMA WalkUnfolds ==
  ASSUME NEW T, \A l \in T : l.index \in Nat, NEW n \in Nat, NEW items \in [1 .. n -> T]
  PROVE  \E walk \in [0 .. n -> Walks(T)] :
            /\ walk[0] = Unpaired
            /\ \A k \in 1 .. n : walk[k] = Claim(walk[k - 1], items[k])
            /\ WalkOf(items) = walk[n].ranges
  <1> DEFINE D == 0 .. n
             R == Walks(T)
             rank == [k \in D |-> k]
             Step(g, k) == IF k = 0 THEN Unpaired ELSE Claim(g[k - 1], items[k])
             H == [g \in [D -> R] |-> [k \in D |-> Step(g, k)]]
  <1>1. Unpaired \in R
    <2>1. <<>> \in Seq(T)
      OBVIOUS
    <2>2. <<>> \in [{} -> {l.range : l \in T}]
      OBVIOUS
    <2>3. <<>> \in RangesOf(T)
      BY <2>2 DEF RangesOf
    <2>4. QED
      BY <2>1, <2>3 DEF Unpaired, Walks
  <1>2. Len(items) = n
    OBVIOUS
  <1>3. ASSUME NEW g \in [D -> R], NEW k \in D PROVE Step(g, k) \in R
    <2>1. CASE k = 0
      BY <1>1, <2>1
    <2>2. CASE k # 0
      <3>1. k - 1 \in D /\ k \in 1 .. n
        BY <2>2
      <3>2. g[k - 1] \in R /\ items[k] \in T /\ items[k].index \in Nat
        BY <3>1
      <3> HIDE DEF R
      <3>3. Claim(g[k - 1], items[k]) \in R
        BY <3>2, ClaimStays DEF R
      <3>4. QED
        BY <2>2, <3>3
    <2>3. QED
      BY <2>1, <2>2
  <1>4. H \in [[D -> R] -> [D -> R]]
    <2> HIDE DEF R, D, Step
    <2> QED BY <1>3
  <1>5. ASSUME NEW g \in [D -> R], NEW h \in [D -> R], NEW k \in D,
               \A i \in D : rank[i] < rank[k] => g[i] = h[i]
        PROVE  H[g][k] = H[h][k]
    <2>1. k # 0 => k - 1 \in D /\ g[k - 1] = h[k - 1]
      <3> SUFFICES ASSUME k # 0 PROVE k - 1 \in D /\ g[k - 1] = h[k - 1]
        OBVIOUS
      <3>1. k - 1 \in D /\ rank[k - 1] < rank[k]
        OBVIOUS
      <3> HIDE DEF rank, D, R
      <3>2. QED
        BY <1>5, <3>1
    <2>2. Step(g, k) = Step(h, k)
      BY <2>1
    <2> HIDE DEF R, D, Step
    <2>3. QED
      BY <2>2
  <1>6. \E f \in [D -> R] : f = H[f]
    <2> DEFINE top == n + 1
    <2>1. rank \in [D -> Nat] /\ top \in Nat /\ \A k \in D : rank[k] < top
      OBVIOUS
    <2>2. [k \in D |-> Unpaired] \in [D -> R]
      BY <1>1
    <2> HIDE DEF H, rank, top, D, R
    <2>3. \A g, h \in [D -> R], k \in D :
             (\A i \in D : rank[i] < rank[k] => g[i] = h[i]) => H[g][k] = H[h][k]
      BY <1>5
    <2>4. Recursion(D, R, rank, H, top)
      BY <1>4, <2>1, <2>2, <2>3 DEF Recursion
    <2>5. QED
      BY <2>4, RecursionHasASolution
  <1> DEFINE Solves(f) == f = [k \in D |-> Step(f, k)]
             walk == CHOOSE f : Solves(f)
  <1>7. PICK f \in [D -> R] : f = H[f]
    BY <1>6
  <1>8. Solves(f)
    <2> HIDE DEF D, R, Step
    <2> QED BY <1>7
  <1>9. Solves(walk)
    <2> HIDE DEF Solves
    <2> QED BY <1>8
  <1>10. WalkOf(items) = walk[n].ranges
    <2>1. WalkOf(items) = walk[Len(items)].ranges
      BY <1>2, Zenon DEF WalkOf
    <2> HIDE DEF walk
    <2>2. QED
      BY <1>2, <2>1
  <1>11. walk = [k \in D |-> walk[k]] /\ \A k \in D : walk[k] = Step(walk, k)
    <2> HIDE DEF walk, Step, D
    <2> QED BY <1>9
  <1> HIDE DEF walk
  <1>12. ASSUME NEW k \in D, walk[k] \notin R PROVE FALSE
    <2> DEFINE bad == {i \in D : walk[i] \notin R}
    <2>1. bad \in SUBSET Nat /\ bad # {}
      BY <1>12
    <2> HIDE DEF bad, R
    <2>2. PICK i \in bad : \A j \in bad : i <= j
      BY <2>1, LeastNat
    <2>3. i \in D /\ walk[i] \notin R
      BY <2>2 DEF bad
    <2>4. i # 0
      BY <1>1, <1>11, <2>3
    <2>5. i - 1 \in D /\ i - 1 \notin bad /\ i \in 1 .. n
      BY <2>2, <2>3, <2>4
    <2>6. walk[i - 1] \in R
      BY <2>5 DEF bad
    <2>7. items[i] \in T /\ items[i].index \in Nat
      BY <2>5
    <2>8. Claim(walk[i - 1], items[i]) \in R
      BY <2>6, <2>7, ClaimStays DEF R
    <2>9. walk[i] = Claim(walk[i - 1], items[i])
      BY <1>11, <2>3, <2>4
    <2>10. QED
      BY <2>3, <2>8, <2>9
  <1>13. walk \in [D -> R]
    <2> HIDE DEF D, R
    <2> QED BY <1>11, <1>12
  <1>14. walk[0] = Unpaired /\ \A k \in 1 .. n : walk[k] = Claim(walk[k - 1], items[k])
    <2>1. 0 \in D /\ 1 .. n \subseteq D
      OBVIOUS
    <2>2. \A k \in 1 .. n : k # 0
      OBVIOUS
    <2> HIDE DEF D
    <2>3. QED
      BY <1>11, <2>1, <2>2
  <1> HIDE DEF R
  <1>15. QED
    BY <1>10, <1>13, <1>14 DEF R

\* A set of logs that holds the declaration of each of its registrations.
Declared(T) ==
    /\ Indexed(T) /\ \A l \in T : l.event \in {"segment", "batch"}
    /\ \A l \in T : l.event = "batch" => \E d \in T : OwnDeclaration(d, l)

Batched(T) == {l \in T : l.event = "batch"}

\* In log order, the declaration comes right before the registration.
LEMMA DeclaredBefore ==
  ASSUME NEW T, Declared(T), NEW k \in 1 .. Cardinality(T), ByIndex(T)[k].event = "batch"
  PROVE  k > 1 /\ OwnDeclaration(ByIndex(T)[k - 1], ByIndex(T)[k])
  <1> DEFINE items == ByIndex(T)
             n == Cardinality(T)
  <1>1. /\ n \in Nat /\ items \in [1 .. n -> T]
        /\ {items[i] : i \in DOMAIN items} = T
        /\ \A i, j \in 1 .. n : i < j => items[i].index < items[j].index
    BY IndexedInOrder DEF Declared, ListsOnce
  <1>2. \A i \in 1 .. n : items[i] \in T /\ items[i].index \in Nat
    BY <1>1 DEF Declared, Indexed
  <1>3. PICK d \in T : OwnDeclaration(d, items[k])
    BY <1>2 DEF Declared
  <1>4. PICK j \in 1 .. n : d = items[j]
    BY <1>1
  <1> HIDE DEF items, n
  <1>5. items[j].index = items[k].index - 1
    BY <1>3, <1>4 DEF OwnDeclaration
  <1>6. j < k
    <2>1. k \in 1 .. n
      BY DEF n
    <2>2. j # k /\ ~(k < j)
      BY <1>1, <1>2, <1>5, <2>1
    <2>3. QED
      BY <1>1, <2>1, <2>2
  <1>7. j = k - 1
    <2>1. k \in 1 .. n
      BY DEF n
    <2> SUFFICES ASSUME j < k - 1 PROVE FALSE
      BY <1>1, <1>6, <2>1
    <2>2. items[j].index < items[k - 1].index /\ items[k - 1].index < items[k].index /\ k - 1 \in 1 .. n
      BY <1>1, <2>1
    <2>3. QED
      BY <1>2, <1>5, <2>1, <2>2
  <1>8. k > 1 /\ OwnDeclaration(items[k - 1], items[k])
    BY <1>1, <1>3, <1>4, <1>6, <1>7
  <1>9. QED
    BY <1>8 DEF items

\* So each registration is given the range of its own call, and nothing else is given one.
LEMMA WalkPairs ==
  ASSUME NEW T, Declared(T)
  PROVE  /\ DOMAIN WalkOf(ByIndex(T)) = {l.index : l \in Batched(T)}
         /\ \A l \in Batched(T) : WalkOf(ByIndex(T))[l.index] = l.range
  <1> DEFINE items == ByIndex(T)
             n == Cardinality(T)
  <1>1. /\ n \in Nat /\ items \in [1 .. n -> T]
        /\ {items[i] : i \in DOMAIN items} = T
        /\ \A i, j \in 1 .. n : items[i] = items[j] => i = j
    BY IndexedInOrder DEF Declared, ListsOnce
  <1>2. \A l \in T : l.index \in Nat /\ l.event \in {"segment", "batch"}
    BY DEF Declared, Indexed
  <1>3. \A k \in 1 .. n : items[k].event = "batch" => k > 1 /\ OwnDeclaration(items[k - 1], items[k])
    BY DeclaredBefore
  <1>4. \A l, m \in T : l.index = m.index => l = m
    BY DEF Declared, Indexed
  <1> HIDE DEF items, n
  <1>5. PICK walk \in [0 .. n -> Walks(T)] :
           /\ walk[0] = Unpaired
           /\ \A k \in 1 .. n : walk[k] = Claim(walk[k - 1], items[k])
           /\ WalkOf(items) = walk[n].ranges
    <2>1. n \in Nat /\ items \in [1 .. n -> T] /\ \A l \in T : l.index \in Nat
      BY <1>1, <1>2
    <2>2. QED
      BY <2>1, WalkUnfolds, Zenon
  <1> DEFINE Seen(k) == {i \in 1 .. k : items[i].event = "batch"}
             Paired(k) == /\ DOMAIN walk[k].ranges = {items[i].index : i \in Seen(k)}
                          /\ \A i \in Seen(k) : walk[k].ranges[items[i].index] = items[i].range
  <1>6. Paired(0)
    <2>1. Seen(0) = {}
      OBVIOUS
    <2>2. walk[0].ranges = <<>>
      BY <1>5 DEF Unpaired
    <2>3. DOMAIN walk[0].ranges = {}
      BY <2>2
    <2> HIDE DEF Seen
    <2>4. QED
      BY <2>1, <2>3
  <1>7. ASSUME NEW k \in 1 .. n, Paired(k - 1) PROVE Paired(k)
    <2>1. k \in Nat /\ k - 1 \in 0 .. n /\ walk[k - 1] \in Walks(T) /\ items[k] \in T
      BY <1>1, <1>5
    <2>2. walk[k] = Claim(walk[k - 1], items[k])
      BY <1>5
    <2>3. CASE items[k].event = "segment"
      <3>1. Seen(k) = Seen(k - 1)
        BY <2>1, <2>3
      <3>2. walk[k].ranges = walk[k - 1].ranges
        <4>1. walk[k] = [walk[k - 1] EXCEPT !.pending = Append(@, items[k])]
          BY <2>2, <2>3 DEF Claim
        <4>2. QED
          BY <2>1, <4>1 DEF Walks
      <3> HIDE DEF Seen
      <3>3. QED
        BY <1>7, <3>1, <3>2
    <2>4. CASE items[k].event = "batch"
      <3>1. k > 1 /\ OwnDeclaration(items[k - 1], items[k])
        BY <1>3, <2>4
      <3>2. k - 1 \in 1 .. n /\ (k - 1) - 1 \in 0 .. n
        BY <1>1, <3>1
      <3> DEFINE w == walk[k - 1]
                 v == walk[(k - 1) - 1]
      <3>3. w = Claim(v, items[k - 1]) /\ v \in Walks(T) /\ items[k - 1] \in T
        BY <1>1, <1>5, <3>2
      <3>4. w.pending = Append(v.pending, items[k - 1])
        <4>1. items[k - 1].event = "segment"
          BY <3>1 DEF OwnDeclaration
        <4> HIDE DEF w, v
        <4>2. w = [v EXCEPT !.pending = Append(@, items[k - 1])]
          BY <3>3, <4>1 DEF Claim
        <4>3. QED
          BY <3>3, <4>2 DEF Walks
      <3>5. Len(w.pending) > 0 /\ w.pending[Len(w.pending)] = items[k - 1]
        <4>1. v.pending \in Seq(T)
          BY <3>3 DEF Walks
        <4> HIDE DEF w, v
        <4>2. QED
          BY <3>3, <3>4, <4>1
      <3>6. /\ w.pending[Len(w.pending)].tag = items[k].tag
            /\ w.pending[Len(w.pending)].range = items[k].range
        BY <3>1, <3>5 DEF OwnDeclaration
      <3>7. /\ DOMAIN walk[k].ranges = DOMAIN w.ranges \cup {items[k].index}
            /\ walk[k].ranges[items[k].index] = items[k].range
            /\ \A i \in DOMAIN w.ranges : i # items[k].index => walk[k].ranges[i] = w.ranges[i]
        <4>1. w \in Walks(T) /\ walk[k] = Claim(w, items[k]) /\ items[k].index \in Nat /\ items[k].event # "segment"
          BY <1>2, <2>1, <2>2, <2>4
        <4> HIDE DEF w
        <4>2. QED
          BY <2>1, <3>5, <3>6, <4>1, ClaimsTheLatest
      <3>8. Seen(k) = Seen(k - 1) \cup {k}
        BY <2>1, <2>4
      <3>9. \A i \in Seen(k - 1) : i \in 1 .. n /\ i # k
        BY <1>1, <2>1
      <3>10. \A i \in Seen(k - 1) : items[i].index # items[k].index
        BY <1>1, <1>4, <2>1, <3>9
      <3>11. DOMAIN w.ranges = {items[i].index : i \in Seen(k - 1)}
             /\ \A i \in Seen(k - 1) : w.ranges[items[i].index] = items[i].range
        BY <1>7
      <3> HIDE DEF Seen, w
      <3>12. QED
        BY <3>7, <3>8, <3>10, <3>11
    <2>5. QED
      BY <1>2, <2>1, <2>3, <2>4
  <1>8. Paired(n)
    <2> DEFINE bad == {k \in 0 .. n : ~Paired(k)}
    <2> SUFFICES ASSUME bad # {} PROVE FALSE
      BY <1>1
    <2>1. bad \in SUBSET Nat
      OBVIOUS
    <2> HIDE DEF bad, Paired
    <2>2. PICK k \in bad : \A j \in bad : k <= j
      BY <2>1, LeastNat
    <2>3. k \in 0 .. n /\ ~Paired(k) /\ k # 0
      BY <1>6 DEF bad
    <2>4. k \in 1 .. n /\ k - 1 \in 0 .. n /\ k - 1 \notin bad
      BY <1>1, <2>2, <2>3
    <2>5. Paired(k - 1)
      BY <2>4 DEF bad
    <2>6. QED
      BY <1>7, <2>3, <2>4, <2>5
  <1>9. Batched(T) = {items[i] : i \in Seen(n)}
    BY <1>1 DEF Batched
  <1>10. /\ DOMAIN WalkOf(items) = {l.index : l \in Batched(T)}
         /\ \A l \in Batched(T) : WalkOf(items)[l.index] = l.range
    <2> HIDE DEF Seen
    <2>1. QED
      BY <1>5, <1>8, <1>9
  <1>11. QED
    BY <1>10 DEF items

\* Transaction by transaction, the whole of a provider's answer is paired.
LEMMA AnswerIsPaired ==
  ASSUME NEW logs, NEW S, S = {logs[i] : i \in DOMAIN logs}, Declared(S)
  PROVE  /\ DOMAIN PairSegmentRanges(logs) = {l.index : l \in Batched(S)}
         /\ \A l \in Batched(S) : PairSegmentRanges(logs)[l.index] = l.range
  <1> DEFINE txs == {logs[i].tx : i \in DOMAIN logs}
             Of(t) == {l \in S : l.tx = t}
             paired(t) == WalkOf(ByIndex(Of(t)))
             mine(i) == CHOOSE t \in txs : i \in DOMAIN paired(t)
             all == UNION {DOMAIN paired(t) : t \in txs}
  <1>1. PairSegmentRanges(logs) = [i \in all |-> paired(mine(i))[i]]
    BY DEF PairSegmentRanges
  <1>2. txs = {l.tx : l \in S}
    OBVIOUS
  <1>3. \A l, m \in S : l.index = m.index => l = m
    BY DEF Declared, Indexed
  <1>4. ASSUME NEW t
        PROVE  /\ DOMAIN paired(t) = {l.index : l \in Batched(Of(t))}
               /\ \A l \in Batched(Of(t)) : paired(t)[l.index] = l.range
    <2>1. Of(t) \in SUBSET S /\ \A d \in S, l \in Of(t) : OwnDeclaration(d, l) => d \in Of(t)
      BY DEF OwnDeclaration
    <2> HIDE DEF Of
    <2>2. IsFiniteSet(Of(t))
      BY <2>1, FS_Subset DEF Declared, Indexed
    <2>3. Declared(Of(t))
      BY <2>1, <2>2 DEF Declared, Indexed
    <2>4. QED
      BY <2>3, WalkPairs
  <1> HIDE DEF txs, paired
  <1>5. \A t \in txs : \A i \in DOMAIN paired(t) : \E l \in Batched(S) : l.tx = t /\ l.index = i /\ paired(t)[i] = l.range
    <2>1. \A t : \A l \in Batched(Of(t)) : l \in Batched(S) /\ l.tx = t
      BY DEF Batched
    <2> HIDE DEF Of
    <2>2. ASSUME NEW t \in txs, NEW i \in DOMAIN paired(t)
          PROVE  \E l \in Batched(S) : l.tx = t /\ l.index = i /\ paired(t)[i] = l.range
      <3> DEFINE B == Batched(Of(t))
      <3>0. DOMAIN paired(t) = {l.index : l \in B} /\ \A l \in B : paired(t)[l.index] = l.range
        BY <1>4
      <3> HIDE DEF B
      <3>1. PICK l \in B : i = l.index
        BY <3>0
      <3>2. paired(t)[i] = l.range
        BY <3>0, <3>1
      <3>3. QED
        BY <2>1, <3>1, <3>2 DEF B
    <2>3. QED
      BY <2>2
  <1>6. \A l \in Batched(S) : l.tx \in txs /\ l.index \in DOMAIN paired(l.tx)
    <2>1. \A l \in Batched(S) : l \in S /\ l \in Batched(Of(l.tx))
      BY DEF Batched
    <2> HIDE DEF Of
    <2>2. ASSUME NEW l \in Batched(S) PROVE l.tx \in txs /\ l.index \in DOMAIN paired(l.tx)
      <3>1. l \in S /\ l \in Batched(Of(l.tx))
        BY <2>1
      <3>2. l.index \in {m.index : m \in Batched(Of(l.tx))}
        BY <3>1
      <3>3. l.index \in DOMAIN paired(l.tx)
        BY <1>4, <3>2
      <3>4. QED
        BY <1>2, <3>1, <3>3
    <2>3. QED
      BY <2>2
  <1>7. all = {l.index : l \in Batched(S)}
    <2>1. \A i : i \in all <=> \E t \in txs : i \in DOMAIN paired(t)
      BY Zenon
    <2> HIDE DEF all
    <2>2. ASSUME NEW i \in all PROVE \E l \in Batched(S) : i = l.index
      <3>1. PICK t \in txs : i \in DOMAIN paired(t)
        BY <2>1
      <3>2. QED
        BY <1>5, <3>1
    <2>3. ASSUME NEW l \in Batched(S) PROVE l.index \in all
      BY <1>6, <2>1
    <2>4. QED
      BY <2>2, <2>3
  <1>8. ASSUME NEW l \in Batched(S) PROVE l.index \in all /\ paired(mine(l.index))[l.index] = l.range
    <2>1. l.tx \in txs /\ l.index \in DOMAIN paired(l.tx)
      BY <1>6
    <2>2. mine(l.index) \in txs /\ l.index \in DOMAIN paired(mine(l.index))
      BY <2>1
    <2> HIDE DEF mine
    <2>3. PICK m \in Batched(S) : m.index = l.index /\ paired(mine(l.index))[l.index] = m.range
      BY <1>5, <2>2
    <2>4. m = l
      BY <1>3, <2>3 DEF Batched
    <2>5. QED
      BY <2>1, <2>3, <2>4
  <1>9. QED
    BY <1>1, <1>7, <1>8

-----------------------------------------------------------------------------
(* The events of a range *)

Registered(s, from, to) == {EventOf(l, l.range) : l \in Batched(LogsIn(s, from, to))}

\* The registrations of a range, each once.
Lists(events, s, from, to) ==
    events \in Seq(Registered(s, from, to)) /\ ListsOnce(events, Registered(s, from, to))

LEMMA EventsDiffer ==
  ASSUME NEW S, Indexed(S), NEW l \in S, NEW m \in S, EventOf(l, l.range) = EventOf(m, m.range)
  PROVE  l = m
  <1>1. l.index = m.index
    BY DEF EventOf
  <1>2. QED
    BY <1>1 DEF Indexed

LEMMA FetchedRange ==
  ASSUME NEW s, s.calls \in Calls, NEW from \in Int, NEW to \in Int
  PROVE  Lists(FetchRange(s, from, to), s, from, to)
  <1> DEFINE X == LogsIn(s, from, to)
             items == ByIndex(X)
             N == Cardinality(X)
             logs == GetLogs(s, from, to)
             ranges == PairSegmentRanges(logs)
             at == {i \in DOMAIN logs : logs[i].event = "batch"}
             P == {p \in at \X at : p[1] < p[2]}
             kept == Placed(at, P)
             m == Cardinality(at)
             event(l) == EventOf(l, IF l.index \in DOMAIN ranges THEN ranges[l.index] ELSE FullBlob)
  <1>1. Declared(X)
    BY LogsOfARange DEF Declared
  <1>2. /\ N \in Nat /\ items \in [1 .. N -> X]
        /\ {items[i] : i \in DOMAIN items} = X
        /\ \A i, j \in 1 .. N : items[i] = items[j] => i = j
    BY <1>1, IndexedInOrder DEF Declared, ListsOnce
  <1>3. logs = [i \in 1 .. N |-> items[(N - i) + 1]]
    <2>1. logs = Reverse(items)
      BY DEF GetLogs, LogsIn
    <2> HIDE DEF items, N, logs
    <2>2. Len(items) = N
      BY <1>2
    <2>3. QED
      BY <2>1, <2>2 DEF Reverse
  <1> HIDE DEF X, items, N, logs
  <1>4. \A i \in 1 .. N : (N - i) + 1 \in 1 .. N /\ (N - ((N - i) + 1)) + 1 = i
    BY <1>2
  <1>5. logs \in [1 .. N -> X] /\ \A i, j \in 1 .. N : logs[i] = logs[j] => i = j
    <2>1. \A i \in 1 .. N : logs[i] = items[(N - i) + 1]
      BY <1>3
    <2>2. \A i, j \in 1 .. N : logs[i] = logs[j] => (N - i) + 1 = (N - j) + 1
      BY <1>2, <1>4, <2>1
    <2>3. \A i, j \in 1 .. N : (N - i) + 1 = (N - j) + 1 => i = j
      BY <1>2
    <2>4. QED
      BY <1>2, <1>3, <1>4, <2>2, <2>3
  <1>6. X = {logs[i] : i \in DOMAIN logs}
    <2>1. ASSUME NEW x \in X PROVE \E i \in 1 .. N : x = logs[i]
      <3>1. PICK j \in 1 .. N : x = items[j]
        BY <1>2
      <3>2. (N - j) + 1 \in 1 .. N /\ logs[(N - j) + 1] = items[j]
        BY <1>3, <1>4
      <3>3. QED
        BY <3>1, <3>2
    <2>2. QED
      BY <1>5, <2>1
  <1>7. DOMAIN ranges = {l.index : l \in Batched(X)} /\ \A l \in Batched(X) : ranges[l.index] = l.range
    BY <1>1, <1>6, AnswerIsPaired
  <1>8. \A l \in Batched(X) : event(l) = EventOf(l, l.range)
    BY <1>7
  <1>9. at \in SUBSET (1 .. N) /\ \A i : i \in at <=> i \in 1 .. N /\ logs[i] \in Batched(X)
    BY <1>5 DEF Batched
  <1>10. FetchRange(s, from, to) = [n \in DOMAIN kept |-> event(logs[kept[n]])]
    BY DEF FetchRange, logs
  <1> HIDE DEF ranges, event, at
  <1>11. \A i, j : <<i, j>> \in P <=> i \in at /\ j \in at /\ i < j
    OBVIOUS
  <1>12. IsFiniteSet(at)
    <2>1. IsFiniteSet(1 .. N)
      BY <1>2, FS_Interval
    <2>2. QED
      BY <1>9, <2>1, FS_Subset
  <1> HIDE DEF P
  <1>13. Orders(P, at)
    BY <1>2, <1>9, <1>11 DEF Orders
  <1>14. /\ m \in Nat /\ kept \in [1 .. m -> at] /\ Range(kept) = at
         /\ \A i, j \in 1 .. m : i < j => kept[i] < kept[j]
    BY <1>11, <1>12, <1>13, RankedMembers
  <1> HIDE DEF kept, m
  <1>15. \A i, j \in 1 .. m : kept[i] = kept[j] => i = j
    <2>1. \A i \in 1 .. m : kept[i] \in Int
      BY <1>2, <1>9, <1>14
    <2>2. \A i, j \in 1 .. m : i # j => i < j \/ j < i
      BY <1>14
    <2>3. QED
      BY <1>14, <2>1, <2>2
  <1> DEFINE result == [n \in 1 .. m |-> EventOf(logs[kept[n]], logs[kept[n]].range)]
             E == Registered(s, from, to)
  <1>16. \A n \in 1 .. m : logs[kept[n]] \in Batched(X)
    BY <1>9, <1>14
  <1>17. FetchRange(s, from, to) = result
    BY <1>8, <1>10, <1>14, <1>16
  <1>18. E = {EventOf(l, l.range) : l \in Batched(X)}
    BY DEF Registered, X
  <1> HIDE DEF E
  <1>19. result \in Seq(E)
    BY <1>14, <1>16, <1>18
  <1>20. ASSUME NEW l \in Batched(X) PROVE \E n \in 1 .. m : l = logs[kept[n]]
    <2>1. PICK i \in 1 .. N : l = logs[i]
      BY <1>5, <1>6 DEF Batched
    <2>2. i \in at
      BY <1>9, <2>1
    <2>3. PICK n \in 1 .. m : kept[n] = i
      BY <1>14, <2>2 DEF Range
    <2>4. QED
      BY <2>1, <2>3
  <1>21. ListsOnce(result, E)
    <2>1. DOMAIN result = 1 .. m /\ \A n \in 1 .. m : result[n] = EventOf(logs[kept[n]], logs[kept[n]].range)
      OBVIOUS
    <2>2. \A i, j \in 1 .. m : result[i] = result[j] => i = j
      <3> SUFFICES ASSUME NEW i \in 1 .. m, NEW j \in 1 .. m, result[i] = result[j] PROVE i = j
        OBVIOUS
      <3>1. logs[kept[i]] \in X /\ logs[kept[j]] \in X
        BY <1>16 DEF Batched
      <3>2. EventOf(logs[kept[i]], logs[kept[i]].range) = EventOf(logs[kept[j]], logs[kept[j]].range)
        BY <2>1
      <3>3. logs[kept[i]] = logs[kept[j]]
        BY <1>1, <3>1, <3>2, EventsDiffer DEF Declared
      <3>4. QED
        BY <1>5, <1>9, <1>14, <1>15, <3>3
    <2> HIDE DEF result
    <2>3. {result[n] : n \in 1 .. m} = E
      BY <1>16, <1>18, <1>20, <2>1
    <2>4. QED
      BY <2>1, <2>2, <2>3 DEF ListsOnce
  <1>22. QED
    BY <1>17, <1>19, <1>21 DEF Lists, E

\* What fetching a range may come to.
Exact(events, s, from, to) ==
    Lists(events, s, from, to) \/ (events = Thrown /\ s.span < MinChunk)

Results(s) == Seq(Registered(s, 1, ScanBlocks)) \cup {Thrown}

LEMMA NoEventThrown == ASSUME NEW s, NEW from, NEW to PROVE Thrown \notin Seq(Registered(s, from, to))
  <1> SUFFICES ASSUME Thrown \in Seq(Registered(s, from, to)) PROVE FALSE
    OBVIOUS
  <1>1. Thrown[1] \in Registered(s, from, to)
    <2>1. Len(Thrown) = 1
      BY DEF Thrown
    <2>2. QED
      BY <2>1
  <1>2. PICK l : Thrown[1] = EventOf(l, l.range)
    BY <1>1 DEF Registered
  <1>3. DOMAIN EventOf(l, l.range) = {"block", "index", "tag", "range"}
    BY DEF EventOf
  <1>4. DOMAIN Thrown[1] = {"failed"}
    BY DEF Thrown
  <1>5. QED
    BY <1>2, <1>3, <1>4

\* A range cut in two.
Cut(from, mid, next, to) ==
    from .. to = (from .. mid) \cup (next .. to) /\ (from .. mid) \cap (next .. to) = {}

LEMMA RegisteredInParts ==
  ASSUME NEW s, s.calls \in Calls, NEW from, NEW mid, NEW next, NEW to,
         Cut(from, mid, next, to)
  PROVE  /\ Registered(s, from, to) = Registered(s, from, mid) \cup Registered(s, next, to)
         /\ Registered(s, from, mid) \cap Registered(s, next, to) = {}
  <1>1. Batched(LogsIn(s, from, to)) = Batched(LogsIn(s, from, mid)) \cup Batched(LogsIn(s, next, to))
    BY DEF Batched, LogsIn, Cut
  <1>2. Registered(s, from, to) = Registered(s, from, mid) \cup Registered(s, next, to)
    BY <1>1 DEF Registered
  <1>3. \A a, b : \A e \in Registered(s, a, b) : e.block \in a .. b
    <2>1. \A l : EventOf(l, l.range).block = l.block
      BY DEF EventOf
    <2>2. QED
      BY <2>1 DEF Registered, Batched, LogsIn
  <1>4. QED
    BY <1>2, <1>3 DEF Cut

LEMMA JoinedLists ==
  ASSUME NEW s, s.calls \in Calls, NEW from, NEW mid, NEW next, NEW to,
         Cut(from, mid, next, to), NEW first, Lists(first, s, from, mid), NEW second, Lists(second, s, next, to)
  PROVE  Lists(first \o second, s, from, to)
  <1> DEFINE A == Registered(s, from, mid)
             B == Registered(s, next, to)
             E == Registered(s, from, to)
             both == first \o second
             n == Len(first)
             m == Len(second)
  <1>1. E = A \cup B /\ A \cap B = {}
    BY RegisteredInParts
  <1>2. first \in Seq(A) /\ second \in Seq(B) /\ ListsOnce(first, A) /\ ListsOnce(second, B)
    BY DEF Lists
  <1> HIDE DEF A, B, E
  <1>3. first \in Seq(E) /\ second \in Seq(E)
    <2>1. A \subseteq E /\ B \subseteq E
      BY <1>1
    <2>2. QED
      BY <1>2, <2>1, SeqMonotonic
  <1>4. /\ both \in Seq(E) /\ Len(both) = n + m
        /\ \A i \in 1 .. n + m : both[i] = IF i <= n THEN first[i] ELSE second[i - n]
    BY <1>3, ConcatProperties
  <1>5. /\ n \in Nat /\ m \in Nat /\ DOMAIN first = 1 .. n /\ DOMAIN second = 1 .. m
        /\ DOMAIN both = 1 .. n + m
    BY <1>2, <1>4
  <1>6. \A i \in 1 .. n : first[i] \in A
    BY <1>2, <1>5
  <1>7. \A i \in 1 .. m : second[i] \in B
    BY <1>2, <1>5
  <1> HIDE DEF both, n, m
  <1>8. \A i \in 1 .. n : i \in 1 .. n + m /\ both[i] = first[i]
    BY <1>4, <1>5
  <1>9. \A i \in 1 .. m : n + i \in 1 .. n + m /\ both[n + i] = second[i]
    BY <1>4, <1>5
  <1>10. \A i \in 1 .. n + m : i \in 1 .. n \/ \E j \in 1 .. m : i = n + j
    <2>1. \A i \in 1 .. n + m : i \in 1 .. n \/ (i - n \in 1 .. m /\ i = n + (i - n))
      BY <1>5
    <2>2. QED
      BY <2>1
  <1>11. {both[i] : i \in 1 .. n + m} = E
    <2>1. {first[i] : i \in 1 .. n} = A /\ {second[i] : i \in 1 .. m} = B
      BY <1>2, <1>5 DEF ListsOnce
    <2>2. ASSUME NEW i \in 1 .. n + m PROVE both[i] \in E
      BY <1>1, <1>6, <1>7, <1>8, <1>9, <1>10
    <2>3. ASSUME NEW e \in E PROVE \E i \in 1 .. n + m : both[i] = e
      <3>1. CASE e \in A
        <4>1. PICK i \in 1 .. n : e = first[i]
          BY <2>1, <3>1
        <4>2. QED
          BY <1>8, <4>1
      <3>2. CASE e \in B
        <4>1. PICK i \in 1 .. m : e = second[i]
          BY <2>1, <3>2
        <4>2. QED
          BY <1>9, <4>1
      <3>3. QED
        BY <1>1, <3>1, <3>2
    <2>4. QED
      BY <2>2, <2>3
  <1>12. ASSUME NEW i \in 1 .. n + m, NEW j \in 1 .. n + m, both[i] = both[j] PROVE i = j
    <2>1. CASE i \in 1 .. n /\ j \in 1 .. n
      BY <1>2, <1>5, <1>8, <1>12, <2>1 DEF ListsOnce
    <2>2. CASE i \in 1 .. n /\ \E k \in 1 .. m : j = n + k
      BY <1>1, <1>6, <1>7, <1>8, <1>9, <1>12, <2>2
    <2>3. CASE j \in 1 .. n /\ \E k \in 1 .. m : i = n + k
      BY <1>1, <1>6, <1>7, <1>8, <1>9, <1>12, <2>3
    <2>4. CASE (\E k \in 1 .. m : i = n + k) /\ (\E k \in 1 .. m : j = n + k)
      <3>1. PICK k \in 1 .. m : i = n + k
        BY <2>4
      <3>2. PICK o \in 1 .. m : j = n + o
        BY <2>4
      <3>3. second[k] = second[o]
        BY <1>9, <1>12, <3>1, <3>2
      <3>4. QED
        BY <1>2, <1>5, <3>1, <3>2, <3>3 DEF ListsOnce
    <2>5. QED
      BY <1>10, <2>1, <2>2, <2>3, <2>4
  <1>13. QED
    BY <1>4, <1>5, <1>11, <1>12 DEF Lists, ListsOnce, E, both

LEMMA JoinedExact ==
  ASSUME NEW s, s.calls \in Calls, NEW from, NEW mid, NEW next, NEW to,
         Cut(from, mid, next, to), NEW first, Exact(first, s, from, mid), NEW second, Exact(second, s, next, to)
  PROVE  Exact(Joined(first, second), s, from, to)
  <1>1. CASE Thrown \in {first, second}
    <2>1. s.span < MinChunk
      BY <1>1, NoEventThrown DEF Exact, Lists
    <2>2. Joined(first, second) = Thrown
      BY <1>1 DEF Joined
    <2>3. QED
      BY <2>1, <2>2 DEF Exact
  <1>2. CASE Thrown \notin {first, second}
    <2>1. Lists(first, s, from, mid) /\ Lists(second, s, next, to)
      BY <1>2 DEF Exact
    <2>2. Lists(first \o second, s, from, to)
      BY <2>1, JoinedLists
    <2>3. Joined(first, second) = first \o second
      BY <1>2 DEF Joined
    <2>4. QED
      BY <2>2, <2>3 DEF Exact
  <1>3. QED
    BY <1>1, <1>2

LEMMA RangesAreResults ==
  ASSUME NEW s, s.calls \in Calls, NEW from \in Int, NEW to \in Int
  PROVE  FetchRange(s, from, to) \in Results(s)
  <1>1. \A l \in ChainLogs(s.calls) : l.block \in 1 .. ScanBlocks
    BY LogsOfAChain
  <1>2. Registered(s, from, to) \subseteq Registered(s, 1, ScanBlocks)
    BY <1>1 DEF Registered, Batched, LogsIn
  <1>3. FetchRange(s, from, to) \in Seq(Registered(s, from, to))
    BY FetchedRange DEF Lists
  <1>4. QED
    BY <1>2, <1>3, SeqMonotonic DEF Results

LEMMA JoinedResults ==
  ASSUME NEW s, NEW a \in Results(s), NEW b \in Results(s)
  PROVE  Joined(a, b) \in Results(s)
  <1>1. CASE Thrown \in {a, b}
    BY <1>1 DEF Joined, Results
  <1>2. CASE Thrown \notin {a, b}
    <2>1. a \in Seq(Registered(s, 1, ScanBlocks)) /\ b \in Seq(Registered(s, 1, ScanBlocks))
      BY <1>2 DEF Results
    <2>2. a \o b \in Seq(Registered(s, 1, ScanBlocks))
      BY <2>1, ConcatProperties
    <2>3. QED
      BY <1>2, <2>2 DEF Joined, Results
  <1>3. QED
    BY <1>1, <1>2

-----------------------------------------------------------------------------
(* The cutting of a range *)

\* What a scan is asked for.
Scanned(s) == s.calls \in Calls /\ s.span \in Nat \ {0} /\ s.chunk \in Nat

Ranges == (1 .. ScanBlocks) \X (1 .. ScanBlocks)

HalveFrom(s, fetched, from, to) ==
    LET wide == to - from + 1
        mid == from + wide \div 2 - 1
    IN IF ~TooLarge(s, from, to) THEN FetchRange(s, from, to)
       ELSE IF wide <= MinChunk THEN Thrown
       ELSE Joined(fetched[<<from, mid>>], fetched[<<mid + 1, to>>])

\* What it comes to: an answer, a refusal, or what two smaller ranges come to.
HalvesTo(s, fetched, from, to) ==
    \/ HalveFrom(s, fetched, from, to) = FetchRange(s, from, to)
    \/ s.span < MinChunk /\ HalveFrom(s, fetched, from, to) = Thrown
    \/ \E mid \in from .. to - 1 :
          HalveFrom(s, fetched, from, to) = Joined(fetched[<<from, mid>>], fetched[<<mid + 1, to>>])

LEMMA HalveMiddle ==
  ASSUME NEW from \in 1 .. ScanBlocks, NEW to \in 1 .. ScanBlocks, ~(to - from + 1 <= MinChunk)
  PROVE  from + (to - from + 1) \div 2 - 1 \in from .. to - 1
  <1> DEFINE wide == to - from + 1
             half == wide \div 2
  <1>1. from \in Nat /\ to \in Nat /\ wide \in Int /\ wide >= 2
    BY ScanAssumption
  <1>2. half \in Int /\ half >= 1 /\ 2 * half <= wide
    <2> HIDE DEF wide
    <2> QED BY <1>1, Z3
  <1> HIDE DEF half
  <1>3. from + half - 1 \in from .. to - 1
    BY <1>1, <1>2
  <1>4. QED
    BY <1>3 DEF half

LEMMA HalveCases ==
  ASSUME NEW s, Scanned(s), NEW fetched, NEW from \in 1 .. ScanBlocks, NEW to \in 1 .. ScanBlocks
  PROVE  HalvesTo(s, fetched, from, to)
  <1> DEFINE wide == to - from + 1
             mid == from + wide \div 2 - 1
  <1>1. MinChunk \in Nat \ {0} /\ s.span \in Nat /\ wide \in Int
    BY ScanAssumption DEF Scanned
  <1>2. HalveFrom(s, fetched, from, to) =
          IF ~TooLarge(s, from, to) THEN FetchRange(s, from, to)
          ELSE IF wide <= MinChunk THEN Thrown
          ELSE Joined(fetched[<<from, mid>>], fetched[<<mid + 1, to>>])
    BY DEF HalveFrom
  <1>3. wide <= MinChunk /\ TooLarge(s, from, to) => s.span < MinChunk
    <2>1. TooLarge(s, from, to) <=> wide > s.span
      BY DEF TooLarge
    <2> HIDE DEF wide
    <2>2. QED
      BY <1>1, <2>1
  <1>4. ~(wide <= MinChunk) => mid \in from .. to - 1
    BY HalveMiddle
  <1> HIDE DEF mid, wide
  <1>5. QED
    BY <1>2, <1>3, <1>4 DEF HalvesTo

LEMMA HalvingUnfolds ==
  ASSUME NEW s, Scanned(s)
  PROVE  \E fetched :
            /\ \A from, to \in 1 .. ScanBlocks : fetched[<<from, to>>] = HalveFrom(s, fetched, from, to)
            /\ \A from, to : FetchWithHalving(s, from, to) = fetched[<<from, to>>]
  <1> DEFINE D == Ranges
             R == Results(s)
             rank == [r \in D |-> r[2] - r[1] + ScanBlocks]
             H == [g \in [D -> R] |-> [r \in D |-> HalveFrom(s, g, r[1], r[2])]]
             top == 2 * ScanBlocks + 1
  <1>1. ScanBlocks \in Nat /\ s.calls \in Calls
    BY ScanAssumption DEF Scanned
  <1>2. \A r \in D : r[1] \in 1 .. ScanBlocks /\ r[2] \in 1 .. ScanBlocks /\ r = <<r[1], r[2]>>
    BY DEF Ranges
  <1>3. \A from, to \in 1 .. ScanBlocks : <<from, to>> \in D /\ rank[<<from, to>>] = to - from + ScanBlocks
    BY DEF Ranges
  <1>4. rank \in [D -> Nat] /\ top \in Nat /\ \A r \in D : rank[r] < top
    BY <1>1, <1>2
  <1>5. ASSUME NEW g \in [D -> R], NEW r \in D PROVE HalveFrom(s, g, r[1], r[2]) \in R
    <2> DEFINE from == r[1]
               to == r[2]
    <2>1. from \in 1 .. ScanBlocks /\ to \in 1 .. ScanBlocks /\ from \in Int /\ to \in Int
      BY <1>1, <1>2
    <2>2. FetchRange(s, from, to) \in R
      BY <1>1, <2>1, RangesAreResults
    <2>3. Thrown \in R
      BY DEF Results
    <2> HIDE DEF from, to, R
    <2>4. ASSUME NEW mid \in from .. to - 1 PROVE Joined(g[<<from, mid>>], g[<<mid + 1, to>>]) \in R
      <3>1. mid \in 1 .. ScanBlocks /\ mid + 1 \in 1 .. ScanBlocks
        BY <1>1, <2>1
      <3>2. g[<<from, mid>>] \in R /\ g[<<mid + 1, to>>] \in R
        BY <1>3, <2>1, <3>1
      <3>3. QED
        BY <3>2, JoinedResults DEF R
    <2>5. HalvesTo(s, g, from, to)
      BY <2>1, HalveCases
    <2>6. HalveFrom(s, g, from, to) \in R
      BY <2>2, <2>3, <2>4, <2>5 DEF HalvesTo
    <2>7. QED
      BY <2>6 DEF from, to
  <1>6. H \in [[D -> R] -> [D -> R]]
    <2> HIDE DEF D, R
    <2> QED BY <1>5
  <1>7. ASSUME NEW g \in [D -> R], NEW h \in [D -> R], NEW r \in D,
               \A i \in D : rank[i] < rank[r] => g[i] = h[i]
        PROVE  H[g][r] = H[h][r]
    <2> DEFINE from == r[1]
               to == r[2]
               mid == from + (to - from + 1) \div 2 - 1
    <2>1. from \in 1 .. ScanBlocks /\ to \in 1 .. ScanBlocks /\ r = <<from, to>>
      BY <1>2
    <2> HIDE DEF from, to, D, R
    <2>2. ASSUME mid \in from .. to - 1
          PROVE  g[<<from, mid>>] = h[<<from, mid>>] /\ g[<<mid + 1, to>>] = h[<<mid + 1, to>>]
      <3> DEFINE low == <<from, mid>>
                 high == <<mid + 1, to>>
      <3>1. mid \in 1 .. ScanBlocks /\ mid + 1 \in 1 .. ScanBlocks /\ from \in Int /\ to \in Int /\ mid \in Int
        <4> HIDE DEF mid
        <4> QED BY <1>1, <2>1, <2>2
      <3> HIDE DEF rank, mid
      <3>2. low \in D /\ high \in D /\ rank[low] = mid - from + ScanBlocks
            /\ rank[high] = to - (mid + 1) + ScanBlocks /\ rank[r] = to - from + ScanBlocks
        BY <1>3, <2>1, <3>1
      <3>3. rank[low] < rank[r] /\ rank[high] < rank[r]
        <4>1. mid \in from .. to - 1
          BY <2>2 DEF mid
        <4> HIDE DEF low, high
        <4>2. QED
          BY <1>1, <3>1, <3>2, <4>1
      <3> HIDE DEF low, high
      <3>4. g[low] = h[low] /\ g[high] = h[high]
        BY <1>7, <3>2, <3>3
      <3>5. QED
        BY <3>4 DEF low, high
    <2>3. HalveFrom(s, g, from, to) = HalveFrom(s, h, from, to)
      <3>1. \A f : HalveFrom(s, f, from, to) =
                     IF ~TooLarge(s, from, to) THEN FetchRange(s, from, to)
                     ELSE IF to - from + 1 <= MinChunk THEN Thrown
                     ELSE Joined(f[<<from, mid>>], f[<<mid + 1, to>>])
        BY DEF HalveFrom
      <3>2. ~(to - from + 1 <= MinChunk) => mid \in from .. to - 1
        BY <2>1, HalveMiddle
      <3> HIDE DEF mid
      <3>3. QED
        BY <2>2, <3>1, <3>2
    <2>4. QED
      BY <2>3 DEF from, to
  <1>8. \E f \in [D -> R] : f = H[f]
    <2>1. [r \in D |-> Thrown] \in [D -> R]
      BY DEF Results
    <2> HIDE DEF H, rank, top, D, R
    <2>2. \A g, h \in [D -> R], r \in D :
             (\A i \in D : rank[i] < rank[r] => g[i] = h[i]) => H[g][r] = H[h][r]
      BY <1>7
    <2>3. Recursion(D, R, rank, H, top)
      BY <1>4, <1>6, <2>1, <2>2 DEF Recursion
    <2>4. QED
      BY <2>3, RecursionHasASolution
  <1> DEFINE Solves(f) == f = [r \in D |-> HalveFrom(s, f, r[1], r[2])]
             fetched == CHOOSE f : Solves(f)
  <1>9. \E f : Solves(f)
    BY <1>8
  <1>10. Solves(fetched)
    <2> HIDE DEF Solves
    <2> QED BY <1>9
  <1>11. \A from, to : FetchWithHalving(s, from, to) = fetched[<<from, to>>]
    BY DEF FetchWithHalving, HalveFrom, Ranges
  <1> HIDE DEF fetched
  <1>12. \A from, to \in 1 .. ScanBlocks : fetched[<<from, to>>] = HalveFrom(s, fetched, from, to)
    <2>1. \A r \in D : fetched[r] = HalveFrom(s, fetched, r[1], r[2])
      <3> HIDE DEF D
      <3> QED BY <1>10
    <2>2. QED
      BY <1>3, <2>1
  <1>13. QED
    BY <1>11, <1>12

\* However a range is cut, its registrations come of it, or the provider refuses too much.
LEMMA HalvingIsExact ==
  ASSUME NEW s, Scanned(s), NEW from \in 1 .. ScanBlocks, NEW to \in 1 .. ScanBlocks
  PROVE  Exact(FetchWithHalving(s, from, to), s, from, to)
  <1>1. PICK fetched :
           /\ \A a, b \in 1 .. ScanBlocks : fetched[<<a, b>>] = HalveFrom(s, fetched, a, b)
           /\ \A a, b : FetchWithHalving(s, a, b) = fetched[<<a, b>>]
    BY HalvingUnfolds
  <1>2. ScanBlocks \in Nat /\ s.calls \in Calls
    BY ScanAssumption DEF Scanned
  <1> DEFINE bad == {n \in Nat : \E a, b \in 1 .. ScanBlocks :
                        n = b - a + ScanBlocks /\ ~Exact(fetched[<<a, b>>], s, a, b)}
  <1>3. bad = {}
    <2> SUFFICES ASSUME bad # {} PROVE FALSE
      OBVIOUS
    <2>1. bad \in SUBSET Nat
      OBVIOUS
    <2> HIDE DEF bad
    <2>2. PICK n \in bad : \A m \in bad : n <= m
      BY <2>1, LeastNat
    <2>3. PICK a \in 1 .. ScanBlocks, b \in 1 .. ScanBlocks :
             n = b - a + ScanBlocks /\ ~Exact(fetched[<<a, b>>], s, a, b)
      BY <2>2 DEF bad
    <2>4. a \in Int /\ b \in Int /\ fetched[<<a, b>>] = HalveFrom(s, fetched, a, b)
      BY <1>1, <1>2
    <2>5. ASSUME NEW mid \in a .. b - 1 PROVE Exact(Joined(fetched[<<a, mid>>], fetched[<<mid + 1, b>>]), s, a, b)
      <3>1. mid \in 1 .. ScanBlocks /\ mid + 1 \in 1 .. ScanBlocks
        BY <1>2, <2>4
      <3>2. mid - a + ScanBlocks \in Nat /\ mid - a + ScanBlocks < n
        BY <1>2, <2>3, <2>4, <3>1
      <3>3. b - (mid + 1) + ScanBlocks \in Nat /\ b - (mid + 1) + ScanBlocks < n
        BY <1>2, <2>3, <2>4, <3>1
      <3>4. mid - a + ScanBlocks \notin bad /\ b - (mid + 1) + ScanBlocks \notin bad
        BY <1>2, <2>1, <2>2, <3>2, <3>3
      <3>5. Exact(fetched[<<a, mid>>], s, a, mid)
        BY <3>1, <3>2, <3>4 DEF bad
      <3>6. Exact(fetched[<<mid + 1, b>>], s, mid + 1, b)
        <4> DEFINE next == mid + 1
        <4>1. next \in 1 .. ScanBlocks /\ b - next + ScanBlocks \in Nat /\ b - next + ScanBlocks \notin bad
          BY <3>1, <3>3, <3>4
        <4> HIDE DEF next
        <4>2. Exact(fetched[<<next, b>>], s, next, b)
          BY <4>1 DEF bad
        <4>3. QED
          BY <4>2 DEF next
      <3>7. Cut(a, mid, mid + 1, b)
        BY <2>4, <3>1 DEF Cut
      <3>8. QED
        BY <1>2, <3>5, <3>6, <3>7, JoinedExact
    <2>6. Exact(FetchRange(s, a, b), s, a, b)
      BY <1>2, <2>4, FetchedRange DEF Exact
    <2>7. s.span < MinChunk => Exact(Thrown, s, a, b)
      BY DEF Exact
    <2>8. HalvesTo(s, fetched, a, b)
      BY HalveCases
    <2>9. QED
      BY <2>3, <2>4, <2>5, <2>6, <2>7, <2>8 DEF HalvesTo
  <1>4. to - from + ScanBlocks \in Nat
    BY <1>2
  <1>5. Exact(fetched[<<from, to>>], s, from, to)
    BY <1>3, <1>4
  <1>6. QED
    BY <1>1, <1>5

\* The chunks of the range, from block f on.
ChunkSize(s) == IF s.chunk = 0 THEN ScanBlocks - 1 + 1 ELSE s.chunk
LastOf(s, f) == IF f + ChunkSize(s) - 1 < ScanBlocks THEN f + ChunkSize(s) - 1 ELSE ScanBlocks
ChunksFrom(s, fetched, f) ==
    IF f > ScanBlocks THEN <<>>
    ELSE Joined(FetchWithHalving(s, f, LastOf(s, f)), fetched[f + ChunkSize(s)])

LEMMA ExactResults ==
  ASSUME NEW s, s.calls \in Calls, NEW from \in Int, NEW to \in Int, NEW events, Exact(events, s, from, to)
  PROVE  events \in Results(s)
  <1>1. \A l \in ChainLogs(s.calls) : l.block \in 1 .. ScanBlocks
    BY LogsOfAChain
  <1>2. Registered(s, from, to) \subseteq Registered(s, 1, ScanBlocks)
    BY <1>1 DEF Registered, Batched, LogsIn
  <1>3. CASE Lists(events, s, from, to)
    BY <1>2, <1>3, SeqMonotonic DEF Results, Lists
  <1>4. CASE events = Thrown
    BY <1>4 DEF Results
  <1>5. QED
    BY <1>3, <1>4 DEF Exact

LEMMA ChunkBounds ==
  ASSUME NEW s, Scanned(s), ScanBlocks > 0, NEW f \in 1 .. ScanBlocks
  PROVE  /\ ChunkSize(s) \in Nat \ {0}
         /\ LastOf(s, f) \in f .. ScanBlocks
         /\ Cut(f, LastOf(s, f), f + ChunkSize(s), ScanBlocks)
  <1>1. ScanBlocks \in Nat \ {0} /\ f \in Nat /\ f <= ScanBlocks
    BY ScanAssumption
  <1>2. ChunkSize(s) \in Nat \ {0}
    BY <1>1 DEF ChunkSize, Scanned
  <1>3. LastOf(s, f) = f + ChunkSize(s) - 1 \/ (LastOf(s, f) = ScanBlocks /\ f + ChunkSize(s) > ScanBlocks)
    BY <1>1, <1>2 DEF LastOf
  <1>4. LastOf(s, f) \in f .. ScanBlocks
    BY <1>1, <1>2 DEF LastOf
  <1>5. QED
    BY <1>1, <1>2, <1>3, <1>4 DEF Cut

LEMMA ChunksUnfold ==
  ASSUME NEW s, Scanned(s), ScanBlocks > 0
  PROVE  \E fetched :
            /\ \A f \in 1 .. ScanBlocks + ChunkSize(s) : fetched[f] = ChunksFrom(s, fetched, f)
            /\ ScanLogs(s, 1, ScanBlocks) = IF fetched[1] = Thrown THEN Thrown ELSE InChainOrder(fetched[1])
  <1> DEFINE size == ChunkSize(s)
             D == 1 .. ScanBlocks + size
             R == Results(s)
             rank == [f \in D |-> ScanBlocks + size - f]
             H == [g \in [D -> R] |-> [f \in D |-> ChunksFrom(s, g, f)]]
             top == ScanBlocks + size
  <1>1. ScanBlocks \in Nat \ {0} /\ s.calls \in Calls
    BY ScanAssumption DEF Scanned
  <1>2. size \in Nat \ {0}
    <2>1. 1 \in 1 .. ScanBlocks
      BY <1>1
    <2>2. QED
      BY <2>1, ChunkBounds
  <1> HIDE DEF size
  <1>3. rank \in [D -> Nat] /\ top \in Nat /\ \A f \in D : rank[f] < top
    BY <1>1, <1>2
  <1>4. \A f \in D : ~(f > ScanBlocks) => f \in 1 .. ScanBlocks /\ f + size \in D /\ rank[f + size] < rank[f]
    BY <1>1, <1>2
  <1>5. ASSUME NEW g \in [D -> R], NEW f \in D PROVE ChunksFrom(s, g, f) \in R
    <2>1. CASE f > ScanBlocks
      <3>1. ChunksFrom(s, g, f) = <<>>
        BY <2>1 DEF ChunksFrom
      <3>2. <<>> \in Seq(Registered(s, 1, ScanBlocks))
        OBVIOUS
      <3>3. QED
        BY <3>1, <3>2 DEF Results
    <2>2. CASE ~(f > ScanBlocks)
      <3>1. f \in 1 .. ScanBlocks /\ f + size \in D
        BY <1>4, <2>2
      <3>2. LastOf(s, f) \in 1 .. ScanBlocks
        BY <1>1, <3>1, ChunkBounds
      <3>3. Exact(FetchWithHalving(s, f, LastOf(s, f)), s, f, LastOf(s, f))
        BY <3>1, <3>2, HalvingIsExact
      <3>4. FetchWithHalving(s, f, LastOf(s, f)) \in R
        BY <1>1, <3>1, <3>2, <3>3, ExactResults
      <3>5. g[f + size] \in R
        BY <3>1
      <3>6. ChunksFrom(s, g, f) = Joined(FetchWithHalving(s, f, LastOf(s, f)), g[f + size])
        BY <2>2 DEF ChunksFrom, size
      <3> HIDE DEF R
      <3>7. QED
        BY <3>4, <3>5, <3>6, JoinedResults DEF R
    <2>3. QED
      BY <2>1, <2>2
  <1>6. H \in [[D -> R] -> [D -> R]]
    <2> HIDE DEF D, R
    <2> QED BY <1>5
  <1>7. ASSUME NEW g \in [D -> R], NEW h \in [D -> R], NEW f \in D,
               \A i \in D : rank[i] < rank[f] => g[i] = h[i]
        PROVE  H[g][f] = H[h][f]
    <2>1. ~(f > ScanBlocks) => g[f + size] = h[f + size]
      <3> HIDE DEF D, R, rank
      <3> QED BY <1>4, <1>7
    <2>2. ChunksFrom(s, g, f) = ChunksFrom(s, h, f)
      BY <2>1 DEF ChunksFrom, size
    <2> HIDE DEF D, R
    <2>3. QED
      BY <2>2
  <1>8. \E f \in [D -> R] : f = H[f]
    <2>1. [f \in D |-> Thrown] \in [D -> R]
      BY DEF Results
    <2> HIDE DEF H, rank, top, D, R
    <2>2. \A g, h \in [D -> R], f \in D :
             (\A i \in D : rank[i] < rank[f] => g[i] = h[i]) => H[g][f] = H[h][f]
      BY <1>7
    <2>3. Recursion(D, R, rank, H, top)
      BY <1>3, <1>6, <2>1, <2>2 DEF Recursion
    <2>4. QED
      BY <2>3, RecursionHasASolution
  <1> DEFINE Solves(g) == g = [f \in 1 .. ScanBlocks + ChunkSize(s) |-> ChunksFrom(s, g, f)]
             fetched == CHOOSE g : Solves(g)
  <1>9. \E g : Solves(g)
    BY <1>8 DEF size
  <1>10. Solves(fetched)
    <2> HIDE DEF Solves
    <2> QED BY <1>9
  <1>11. ~(1 > ScanBlocks)
    BY <1>1
  <1>12. ScanLogs(s, 1, ScanBlocks) = IF fetched[1] = Thrown THEN Thrown ELSE InChainOrder(fetched[1])
    BY <1>11, Zenon DEF ScanLogs, ChunksFrom, ChunkSize, LastOf
  <1> HIDE DEF fetched
  <1>13. \A f \in 1 .. ScanBlocks + ChunkSize(s) : fetched[f] = ChunksFrom(s, fetched, f)
    BY <1>10
  <1>14. QED
    BY <1>12, <1>13

\* Whatever the size of the chunks, all of them come to the registrations of the range.
LEMMA ChunksAreExact ==
  ASSUME NEW s, Scanned(s), ScanBlocks > 0, NEW fetched,
         \A f \in 1 .. ScanBlocks + ChunkSize(s) : fetched[f] = ChunksFrom(s, fetched, f)
  PROVE  Exact(fetched[1], s, 1, ScanBlocks)
  <1> DEFINE size == ChunkSize(s)
             D == 1 .. ScanBlocks + size
             Right(f) == Exact(fetched[f], s, f, ScanBlocks)
  <1>1. ScanBlocks \in Nat \ {0} /\ s.calls \in Calls
    BY ScanAssumption DEF Scanned
  <1>2. size \in Nat \ {0}
    <2>1. 1 \in 1 .. ScanBlocks
      BY <1>1
    <2>2. QED
      BY <2>1, ChunkBounds
  <1>3. \A f \in D : fetched[f] = ChunksFrom(s, fetched, f)
    OBVIOUS
  <1> HIDE DEF size
  <1>4. ASSUME NEW f \in D, ~(f > ScanBlocks) => Right(f + size) PROVE Right(f)
    <2>1. CASE f > ScanBlocks
      <3>1. fetched[f] = <<>>
        BY <1>3, <2>1 DEF ChunksFrom
      <3>2. Registered(s, f, ScanBlocks) = {}
        <4>1. f .. ScanBlocks = {}
          BY <1>1, <2>1
        <4>2. LogsIn(s, f, ScanBlocks) = {}
          BY <4>1 DEF LogsIn
        <4>3. QED
          BY <4>2 DEF Registered, Batched
      <3>3. Lists(<<>>, s, f, ScanBlocks)
        BY <3>2 DEF Lists, ListsOnce
      <3>4. QED
        BY <3>1, <3>3 DEF Exact
    <2>2. CASE ~(f > ScanBlocks)
      <3>1. f \in 1 .. ScanBlocks
        BY <1>1, <1>2, <2>2
      <3> DEFINE last == LastOf(s, f)
                 next == f + size
      <3>2. last \in 1 .. ScanBlocks /\ Cut(f, last, next, ScanBlocks)
        BY <1>1, <3>1, ChunkBounds DEF size
      <3>3. fetched[f] = Joined(FetchWithHalving(s, f, last), fetched[next])
        BY <1>3, <2>2 DEF ChunksFrom, size
      <3> HIDE DEF last, next, D
      <3>4. Exact(FetchWithHalving(s, f, last), s, f, last)
        BY <3>1, <3>2, HalvingIsExact
      <3>5. Exact(fetched[next], s, next, ScanBlocks)
        BY <1>4, <2>2 DEF next
      <3>6. Exact(Joined(FetchWithHalving(s, f, last), fetched[next]), s, f, ScanBlocks)
        BY <1>1, <3>2, <3>4, <3>5, JoinedExact
      <3>7. QED
        BY <3>3, <3>6
    <2>3. QED
      BY <2>1, <2>2
  <1> DEFINE bad == {n \in Nat : \E f \in D : n = ScanBlocks + size - f /\ ~Right(f)}
  <1>5. bad = {}
    <2> SUFFICES ASSUME bad # {} PROVE FALSE
      OBVIOUS
    <2>1. bad \in SUBSET Nat
      OBVIOUS
    <2> HIDE DEF bad, Right
    <2>2. PICK n \in bad : \A m \in bad : n <= m
      BY <2>1, LeastNat
    <2>3. PICK f \in D : n = ScanBlocks + size - f /\ ~Right(f)
      BY <2>2 DEF bad
    <2>4. ~(f > ScanBlocks) /\ ~Right(f + size)
      BY <1>4, <2>3
    <2>5. f + size \in D /\ ScanBlocks + size - (f + size) \in Nat /\ ScanBlocks + size - (f + size) < n
      BY <1>1, <1>2, <2>3, <2>4
    <2> DEFINE next == f + size
    <2>6. next \in D /\ ScanBlocks + size - next \in Nat /\ ScanBlocks + size - next < n /\ ~Right(next)
      BY <2>4, <2>5
    <2> HIDE DEF next, D
    <2>7. ScanBlocks + size - next \in bad
      BY <2>6 DEF bad
    <2>8. QED
      BY <1>1, <1>2, <2>1, <2>2, <2>6, <2>7
  <1>6. 1 \in D /\ ScanBlocks + size - 1 \in Nat
    BY <1>1, <1>2
  <1> HIDE DEF D, Right
  <1>7. Right(1)
    BY <1>5, <1>6
  <1>8. QED
    BY <1>7 DEF Right

-----------------------------------------------------------------------------
(* The whole scan, and the invariant behind ScanIsExact *)

\* Put in the order of the chain, the registrations of the range are what the scan promises:
\* the event at a rank among the positions is the one of the log at that rank.
LEMMA ListingInOrder ==
  ASSUME NEW s, Scanned(s), NEW events, Lists(events, s, 1, ScanBlocks)
  PROVE  InChainOrder(events) = RegistrationsOf(s)
  <1> DEFINE B == {l \in ChainLogs(s.calls) : l.event = "batch" /\ l.tag \in s.tags}
             E == Registered(s, 1, ScanBlocks)
             at == DOMAIN events
             before(e, f) == e.block < f.block \/ (e.block = f.block /\ e.index < f.index)
             P == {p \in at \X at : \/ before(events[p[1]], events[p[2]])
                                    \/ p[1] < p[2] /\ ~before(events[p[2]], events[p[1]])}
             order == Placed(at, P)
             m == Len(events)
             list == ByIndex(B)
             event(l) == EventOf(l, l.range)
  <1>1. /\ Indexed(ChainLogs(s.calls))
        /\ \A l \in ChainLogs(s.calls) : l.block \in 1 .. ScanBlocks
        /\ \A l, k \in ChainLogs(s.calls) : l.index < k.index => l.block <= k.block
    BY LogsOfAChain DEF Scanned
  <1>2. Indexed(B)
    <2>1. B \in SUBSET ChainLogs(s.calls)
      OBVIOUS
    <2> HIDE DEF B
    <2>2. IsFiniteSet(B)
      BY <1>1, <2>1, FS_Subset DEF Indexed
    <2>3. QED
      BY <1>1, <2>1, <2>2 DEF Indexed
  <1>3. E = {event(l) : l \in B}
    <2>1. Batched(LogsIn(s, 1, ScanBlocks)) = B
      BY <1>1 DEF Batched, LogsIn
    <2> HIDE DEF B
    <2>2. QED
      BY <2>1 DEF Registered
  <1>4. /\ \A l \in B : l.index \in Nat /\ l.block \in Nat
        /\ \A l, k \in B : l.index < k.index => l.block <= k.block
        /\ \A l, k \in B : l.index = k.index => l = k
    BY <1>1, ScanAssumption DEF Indexed
  <1>5. \A l : event(l).block = l.block /\ event(l).index = l.index
    BY DEF EventOf
  <1>6. RegistrationsOf(s) = [n \in DOMAIN list |-> event(list[n])]
    BY DEF RegistrationsOf
  <1>7. InChainOrder(events) = [n \in at |-> events[order[n]]]
    BY DEF InChainOrder
  <1>8. events \in Seq(E) /\ ListsOnce(events, E) /\ m \in Nat /\ at = 1 .. m
    BY DEF Lists
  <1> HIDE DEF B, E, event
  <1>9. \A i \in at : events[i] \in E
    BY <1>8
  <1> DEFINE h == [i \in at |-> CHOOSE l \in B : events[i] = event(l)]
  <1>10. h \in [at -> B] /\ \A i \in at : events[i] = event(h[i])
    <2>1. \A i \in at : \E l \in B : events[i] = event(l)
      BY <1>3, <1>9
    <2>2. QED
      BY <2>1
  <1>11. \A l \in B : \E i \in at : h[i] = l
    <2> SUFFICES ASSUME NEW l \in B PROVE \E i \in at : h[i] = l
      OBVIOUS
    <2>1. PICK i \in at : events[i] = event(l)
      BY <1>3, <1>8 DEF ListsOnce
    <2>2. event(h[i]).index = event(l).index /\ h[i] \in B
      BY <1>10, <2>1
    <2> HIDE DEF h
    <2>3. QED
      BY <1>4, <1>5, <2>2
  <1>12. \A i, j \in at : h[i] = h[j] => i = j
    BY <1>8, <1>10 DEF ListsOnce
  <1> HIDE DEF h
  <1>13. \A i, j : <<i, j>> \in P <=> i \in at /\ j \in at /\ h[i].index < h[j].index
    <2>1. \A i, j : <<i, j>> \in P <=> /\ i \in at /\ j \in at
                                      /\ \/ before(events[i], events[j])
                                         \/ i < j /\ ~before(events[j], events[i])
      BY Zenon
    <2>2. ASSUME NEW i \in at, NEW j \in at
          PROVE  before(events[i], events[j]) <=> h[i].index < h[j].index
      <3>1. /\ events[i].block = h[i].block /\ events[i].index = h[i].index
            /\ events[j].block = h[j].block /\ events[j].index = h[j].index
        BY <1>5, <1>10
      <3>2. h[i] \in B /\ h[j] \in B
        BY <1>10
      <3>3. QED
        BY <1>4, <3>1, <3>2
    <2>3. ASSUME NEW i \in at, NEW j \in at, i < j
          PROVE  h[i].index < h[j].index \/ h[j].index < h[i].index
      <3>1. h[i] \in B /\ h[j] \in B /\ i # j
        BY <1>8, <1>10, <2>3
      <3>2. h[i].index # h[j].index
        BY <1>4, <1>12, <3>1
      <3>3. QED
        BY <1>4, <3>1, <3>2
    <2> HIDE DEF P, before, at
    <2>4. QED
      BY <2>1, <2>2, <2>3
  <1> HIDE DEF P, order, list, m
  <1>14. Orders(P, at)
    <2>1. \A i \in at : h[i].index \in Nat
      BY <1>4, <1>10
    <2>2. \A i, j \in at : i # j => h[i].index # h[j].index
      BY <1>4, <1>10, <1>12
    <2> HIDE DEF at
    <2>3. QED
      BY <1>13, <2>1, <2>2 DEF Orders
  <1>15. IsFiniteSet(at) /\ Cardinality(at) = m
    BY <1>8, FS_Interval
  <1>16. /\ order \in [1 .. m -> at]
         /\ \A n \in 1 .. m : Cardinality({j \in at : <<j, order[n]>> \in P}) = n - 1
    BY <1>14, <1>15, RankedMembers DEF order
  <1>17. Cardinality(B) = m
    <2>1. h \in Bijection(at, B)
      BY <1>10, <1>11, <1>12 DEF Bijection, Injection, Surjection, IsInjective
    <2>2. QED
      BY <1>15, <2>1, FS_Bijection DEF ExistsBijection
  <1>18. /\ list \in [1 .. m -> B]
         /\ \A n \in 1 .. m : Cardinality({y \in B : y.index < list[n].index}) = n - 1
         /\ \A x, y \in B : Cardinality({z \in B : z.index < x.index}) =
                            Cardinality({z \in B : z.index < y.index}) => x = y
    BY <1>2, <1>17, IndexedInOrder DEF list
  <1> HIDE DEF at
  <1>19. ASSUME NEW k \in at
         PROVE  Cardinality({j \in at : <<j, k>> \in P}) = Cardinality({y \in B : y.index < h[k].index})
    <2> DEFINE F == {j \in at : <<j, k>> \in P}
               G == {y \in B : y.index < h[k].index}
               g == [j \in F |-> h[j]]
    <2>1. F \in SUBSET at /\ \A j \in F : g[j] = h[j] /\ h[j] \in G
      BY <1>10, <1>13
    <2>2. \A y \in G : \E j \in F : g[j] = y
      BY <1>11, <1>13
    <2>3. g \in [F -> G]
      BY <2>1
    <2> HIDE DEF F, G, g
    <2>4. \A i, j \in F : g[i] = g[j] => i = j
      BY <1>12, <2>1
    <2>5. g \in Bijection(F, G)
      BY <2>2, <2>3, <2>4 DEF Bijection, Injection, Surjection, IsInjective
    <2>6. IsFiniteSet(F)
      BY <1>15, <2>1, FS_Subset
    <2>7. Cardinality(G) = Cardinality(F)
      BY <2>5, <2>6, FS_Bijection DEF ExistsBijection
    <2>8. QED
      BY <2>7 DEF F, G
  <1>20. ASSUME NEW n \in 1 .. m PROVE events[order[n]] = event(list[n])
    <2>1. order[n] \in at /\ h[order[n]] \in B /\ list[n] \in B
      BY <1>10, <1>16, <1>18
    <2>2. Cardinality({y \in B : y.index < h[order[n]].index}) = n - 1
      BY <1>16, <1>19, <2>1
    <2>3. h[order[n]] = list[n]
      BY <1>18, <2>1, <2>2
    <2>4. QED
      BY <1>10, <2>1, <2>3
  <1>21. at = 1 .. m /\ DOMAIN list = 1 .. m
    BY <1>8, <1>18
  <1>22. QED
    BY <1>6, <1>7, <1>20, <1>21

\* What a scan of the whole range returns.
LEMMA ScanReturns ==
  ASSUME NEW s, Scanned(s)
  PROVE  \/ ScanLogs(s, 1, ScanBlocks) = RegistrationsOf(s)
         \/ ScanLogs(s, 1, ScanBlocks) = Thrown /\ s.span < MinChunk
  <1>1. CASE ScanBlocks > 0
    <2>1. PICK fetched :
             /\ \A f \in 1 .. ScanBlocks + ChunkSize(s) : fetched[f] = ChunksFrom(s, fetched, f)
             /\ ScanLogs(s, 1, ScanBlocks) = IF fetched[1] = Thrown THEN Thrown ELSE InChainOrder(fetched[1])
      BY <1>1, ChunksUnfold
    <2>2. Exact(fetched[1], s, 1, ScanBlocks)
      BY <1>1, <2>1, ChunksAreExact
    <2>3. CASE fetched[1] = Thrown
      BY <2>1, <2>2, <2>3, NoEventThrown DEF Exact, Lists
    <2>4. CASE fetched[1] # Thrown
      BY <2>1, <2>2, <2>4, ListingInOrder DEF Exact
    <2>5. QED
      BY <2>3, <2>4
  <1>2. CASE ~(ScanBlocks > 0)
    <2>1. ScanBlocks = 0
      BY <1>2, ScanAssumption
    <2>2. ScanLogs(s, 1, ScanBlocks) = <<>>
      BY <2>1 DEF ScanLogs
    <2>3. Lists(<<>>, s, 1, ScanBlocks)
      <3>1. LogsIn(s, 1, ScanBlocks) = {}
        BY <2>1 DEF LogsIn
      <3>2. Registered(s, 1, ScanBlocks) = {}
        BY <3>1 DEF Registered, Batched
      <3>3. QED
        BY <3>2 DEF Lists, ListsOnce
    <2>4. InChainOrder(<<>>) = <<>>
      BY DEF InChainOrder
    <2>5. QED
      BY <2>2, <2>3, <2>4, ListingInOrder
  <1>3. QED
    BY <1>1, <1>2

ScanFields == {"calls", "chunk", "span", "tags", "events"}
ScanInv ==
    \/ scan = [events |-> NoScanner]
    \/ /\ scan = [f \in ScanFields |-> scan[f]]
       /\ Scanned(scan)
       /\ \/ scan.events = NotScanned
          \/ scan.events = RegistrationsOf(scan)
          \/ scan.events = Thrown /\ scan.span < MinChunk

LEMMA ScanStart == ASSUME ScanInit \/ NoScan PROVE ScanInv
  <1>1. CASE NoScan
    BY <1>1 DEF NoScan, ScanInv
  <1>2. CASE ScanInit
    <2>1. scan \in [calls : Calls, chunk : ChunkSizes, span : ProviderSpans,
                    tags : SUBSET ScanTags \ {{}}, events : {NotScanned}]
      BY <1>2 DEF ScanInit
    <2>2. /\ scan = [f \in ScanFields |-> scan[f]] /\ scan.events = NotScanned
          /\ scan.calls \in Calls /\ scan.chunk \in ChunkSizes /\ scan.span \in ProviderSpans
      BY <2>1 DEF ScanFields
    <2>3. Scanned(scan)
      BY <2>2, ScanAssumption DEF Scanned
    <2>4. QED
      BY <2>2, <2>3 DEF ScanInv
  <1>3. QED
    BY <1>1, <1>2

LEMMA ScanKept == ASSUME ScanInv, Scan PROVE ScanInv'
  <1>1. scan.events = NotScanned /\ scan' = [scan EXCEPT !.events = ScanLogs(scan, 1, ScanBlocks)]
    BY DEF Scan
  <1>2. NotScanned # NoScanner
    <2>1. NotScanned[1].pending = TRUE /\ NoScanner[1].pending = FALSE
      BY DEF NotScanned, NoScanner
    <2>2. QED
      BY <2>1
  <1>3. scan # [events |-> NoScanner]
    BY <1>1, <1>2
  <1>4. scan = [f \in ScanFields |-> scan[f]] /\ Scanned(scan)
    BY <1>3 DEF ScanInv
  <1>5. /\ scan' = [f \in ScanFields |-> scan'[f]]
        /\ scan'.calls = scan.calls /\ scan'.chunk = scan.chunk /\ scan'.span = scan.span
        /\ scan'.tags = scan.tags /\ scan'.events = ScanLogs(scan, 1, ScanBlocks)
    BY <1>1, <1>4 DEF ScanFields
  <1>6. RegistrationsOf(scan') = RegistrationsOf(scan) /\ Scanned(scan')
    BY <1>4, <1>5 DEF RegistrationsOf, Scanned
  <1>7. \/ ScanLogs(scan, 1, ScanBlocks) = RegistrationsOf(scan)
        \/ ScanLogs(scan, 1, ScanBlocks) = Thrown /\ scan.span < MinChunk
    BY <1>4, ScanReturns
  <1>8. QED
    BY <1>5, <1>6, <1>7 DEF ScanInv

\* A scan of the chain returns every registration of the range once, in order, with the
\* segment its own call declared, for any calls and range, size of the chunks and span of the
\* provider, unless the provider refuses what is cut no further (scanLogs).
THEOREM ScanIsAlwaysExact == RetrievalSpec => []ScanIsExact
  <1>1. RetrievalInit => ScanInv
    BY ScanStart DEF RetrievalInit
  <1>2. ScanInv /\ [RetrievalNext]_retrievalVars => ScanInv'
    <2> SUFFICES ASSUME ScanInv, [RetrievalNext]_retrievalVars PROVE ScanInv'
      OBVIOUS
    <2>1. CASE Scan
      BY <2>1, ScanKept
    <2>2. CASE UNCHANGED scan
      BY <2>2 DEF ScanInv
    <2>3. QED
      BY <2>1, <2>2 DEF RetrievalNext, Fetch, FindSlotForExecBlock, retrievalVars
  <1>3. ScanInv => ScanIsExact
    BY DEF ScanInv, ScanIsExact
  <1>4. QED
    BY <1>1, <1>2, <1>3, PTL DEF RetrievalSpec

-----------------------------------------------------------------------------
(***************************************************************************)
(* The checks of a signature.                                              *)
(***************************************************************************)
\* A signature, signed by the SDK or not, and what each verifier said of it.
CheckInv ==
    check.stage # "none" =>
        /\ check.sig \in [whole : BOOLEAN, v : {0, 1, 27, 28, 29}, highS : BOOLEAN, signer : Signers,
                          over : Digests]
        /\ check.signedBySdk => check.sig.v \in {27, 28}
        /\ check.stage \in {"new", "judged"}
        /\ check = [sig |-> check.sig, signedBySdk |-> check.signedBySdk, delegate |-> check.delegate,
                    stage |-> check.stage, verdicts |-> check.verdicts]
        /\ check.stage = "judged" => \E answers \in BOOLEAN :
             check.verdicts = [ingest |-> VerifyECDSA(check.sig, Digest, "sender"),
                               reader |-> VerifyMessage(check.sig, "zero", check.delegate, answers),
                               registry |-> VerifyMessage(check.sig, "registry", check.delegate, answers),
                               guest |-> GuestVerifyECDSA(check.sig, Digest, "sender"),
                               called |-> answers]

LEMMA CheckStarts == CheckInit \/ NoCheck => CheckInv
  <1>1. CheckInit => CheckInv
    BY DEF CheckInit, CheckInv
  <1>2. NoCheck => CheckInv
    BY DEF NoCheck, CheckInv
  <1>3. QED
    BY <1>1, <1>2

LEMMA SignedByTheSdk == ASSUME CheckInv, SignECDSA PROVE CheckInv'
  <1>1. check.stage # "none" /\ Normalizable(check.sig) /\ check.stage = "new"
    BY DEF SignECDSA
  <1> DEFINE made == NormalizeEcdsaV(check.sig)
  <1>2. check.sig \in [whole : BOOLEAN, v : {0, 1, 27, 28, 29}, highS : BOOLEAN, signer : Signers, over : Digests]
    BY <1>1 DEF CheckInv
  <1>3. /\ made.v \in {27, 28}
        /\ made \in [whole : BOOLEAN, v : {0, 1, 27, 28, 29}, highS : BOOLEAN, signer : Signers, over : Digests]
    BY <1>1, <1>2 DEF NormalizeEcdsaV, Normalizable
  <1> HIDE DEF made
  <1>4. check' = [check EXCEPT !.sig = made, !.signedBySdk = TRUE]
    BY DEF SignECDSA, made
  <1>5. check = [sig |-> check.sig, signedBySdk |-> check.signedBySdk, delegate |-> check.delegate,
                 stage |-> check.stage, verdicts |-> check.verdicts]
    BY <1>1 DEF CheckInv
  <1>6. check' = [sig |-> made, signedBySdk |-> TRUE, delegate |-> check.delegate, stage |-> "new",
                  verdicts |-> check.verdicts]
    BY <1>1, <1>4, <1>5
  <1>7. QED
    BY <1>3, <1>6 DEF CheckInv

LEMMA JudgedOnce == ASSUME CheckInv, Judge PROVE CheckInv'
  <1> DEFINE Verdicts(answers) ==
               [ingest |-> VerifyECDSA(check.sig, Digest, "sender"),
                reader |-> VerifyMessage(check.sig, "zero", check.delegate, answers),
                registry |-> VerifyMessage(check.sig, "registry", check.delegate, answers),
                guest |-> GuestVerifyECDSA(check.sig, Digest, "sender"),
                called |-> answers]
  <1>1. check.stage = "new"
    BY DEF Judge
  <1>2. PICK answers \in BOOLEAN : check' = [check EXCEPT !.stage = "judged", !.verdicts = Verdicts(answers)]
    BY DEF Judge
  <1>3. check = [sig |-> check.sig, signedBySdk |-> check.signedBySdk, delegate |-> check.delegate,
                 stage |-> check.stage, verdicts |-> check.verdicts]
    BY <1>1 DEF CheckInv
  <1> HIDE DEF Verdicts
  <1>4. /\ check'.sig = check.sig /\ check'.signedBySdk = check.signedBySdk
        /\ check'.delegate = check.delegate /\ check'.stage = "judged" /\ check'.verdicts = Verdicts(answers)
        /\ check' = [sig |-> check.sig, signedBySdk |-> check.signedBySdk, delegate |-> check.delegate,
                     stage |-> "judged", verdicts |-> Verdicts(answers)]
    BY <1>2, <1>3
  <1>5. /\ check.sig \in [whole : BOOLEAN, v : {0, 1, 27, 28, 29}, highS : BOOLEAN, signer : Signers, over : Digests]
        /\ check.signedBySdk => check.sig.v \in {27, 28}
    BY <1>1 DEF CheckInv
  <1>6. QED
    BY <1>4, <1>5, <1>2 DEF CheckInv, Verdicts

\* The verdicts of the verifiers on a signature.
LEMMA VerdictsAgree == ASSUME CheckInv PROVE AcceptedVerifies
  <1> SUFFICES ASSUME check.stage = "judged" PROVE AcceptedVerifies
    BY DEF AcceptedVerifies
  <1> DEFINE sig == check.sig
             bit == IF sig.v >= 27 THEN sig.v - 27 ELSE sig.v
             mine == Recovered(sig, bit, Digest) = "sender"
  <1>1. /\ sig \in [whole : BOOLEAN, v : {0, 1, 27, 28, 29}, highS : BOOLEAN, signer : Signers, over : Digests]
        /\ check.signedBySdk => sig.v \in {27, 28}
    BY DEF CheckInv
  <1>2. PICK answers \in BOOLEAN :
             check.verdicts = [ingest |-> VerifyECDSA(sig, Digest, "sender"),
                               reader |-> VerifyMessage(sig, "zero", check.delegate, answers),
                               registry |-> VerifyMessage(sig, "registry", check.delegate, answers),
                               guest |-> GuestVerifyECDSA(sig, Digest, "sender"),
                               called |-> answers]
    BY DEF CheckInv
  <1>3. bit \in 0 .. 2 /\ (sig.v >= 27 => bit = sig.v - 27)
    BY <1>1
  <1>4. mine <=> bit = 0 /\ sig.over = Digest /\ sig.signer = "sender"
    BY DEF Recovered
  <1> DEFINE accepted == sig.whole /\ ~sig.highS /\ mine
  <1>5. VerifyECDSA(sig, Digest, "sender") <=> accepted
    BY <1>3, <1>4 DEF VerifyECDSA
  <1>6. GuestVerifyECDSA(sig, Digest, "sender") <=> accepted
    BY <1>3, <1>4 DEF GuestVerifyECDSA
  <1>7. VerifyMessage(sig, "zero", check.delegate, answers) <=> accepted
    BY <1>5 DEF VerifyMessage
  <1>8. ASSUME check.delegate = "none"
        PROVE  VerifyMessage(sig, "registry", check.delegate, answers) <=> answers /\ accepted /\ sig.v \in {27, 28}
    <2>1. VerifyMessage(sig, "registry", check.delegate, answers)
            <=> answers /\ VerifyEcdsaLocal(sig, Digest, "sender", "none")
      BY <1>8 DEF VerifyMessage
    <2>2. ASSUME sig.v \in {27, 28} PROVE sig.v - 27 = bit
      BY <2>2, <1>3
    <2>3. VerifyEcdsaLocal(sig, Digest, "sender", "none")
            <=> sig.whole /\ sig.v \in {27, 28} /\ ~sig.highS /\ Recovered(sig, sig.v - 27, Digest) = "sender"
      BY DEF VerifyEcdsaLocal
    <2>4. QED
      BY <2>1, <2>2, <2>3
  <1>9. accepted => sig.v \in {0, 27}
    BY <1>1, <1>4
  <1>10. sig.v >= 27 => sig.v # 0
    OBVIOUS
  <1> HIDE DEF accepted
  <1>11. check.verdicts.ingest <=> accepted
    <2>1. check.verdicts.ingest = VerifyECDSA(sig, Digest, "sender")
      BY <1>2
    <2>2. QED
      BY <1>5, <2>1
  <1>12. (check.verdicts.reader <=> accepted) /\ (check.verdicts.guest <=> accepted) /\ check.verdicts.called = answers
    <2>1. /\ check.verdicts.reader = VerifyMessage(sig, "zero", check.delegate, answers)
          /\ check.verdicts.guest = GuestVerifyECDSA(sig, Digest, "sender")
          /\ check.verdicts.called = answers
      BY <1>2
    <2>2. QED
      BY <1>6, <1>7, <2>1
  <1>13. check.verdicts.registry = VerifyMessage(sig, "registry", check.delegate, answers)
    BY <1>2
  <1> HIDE DEF mine, bit
  <1>14. accepted => sig.signer = "sender" /\ sig.over = Digest
    BY <1>4 DEF accepted
  <1>15. check.signedBySdk \/ sig.v >= 27 => sig.v # 0
    BY <1>1, <1>10
  <1>16. QED
    BY <1>8, <1>9, <1>11, <1>12, <1>13, <1>14, <1>15 DEF AcceptedVerifies, sig

LEMMA CheckInvStep == ASSUME CheckInv, [CodecNext]_codecVars PROVE CheckInv'
  <1>1. CASE SignECDSA
    BY <1>1, SignedByTheSdk
  <1>2. CASE Judge
    BY <1>2, JudgedOnce
  <1>3. CASE UNCHANGED check
    BY <1>3 DEF CheckInv
  <1>4. Encode \/ Tamper \/ ReadBack \/ Guard \/ Compose \/ ReadContents \/ UNCHANGED codecVars => UNCHANGED check
    <2>1. Encode \/ Tamper \/ ReadBack => UNCHANGED check
      BY DEF Encode, Tamper, ReadBack
    <2>2. Guard \/ Compose \/ ReadContents => UNCHANGED check
      <3>1. Guard => UNCHANGED check
        BY DEF Guard
      <3>2. Compose => UNCHANGED check
        BY DEF Compose
      <3>3. ReadContents => UNCHANGED check
        BY DEF ReadContents
      <3>4. QED
        BY <3>1, <3>2, <3>3
    <2>3. UNCHANGED codecVars => UNCHANGED check
      BY DEF codecVars
    <2>4. QED
      BY <2>1, <2>2, <2>3
  <1>5. QED
    BY <1>1, <1>2, <1>3, <1>4 DEF CodecNext

THEOREM AcceptedAlwaysVerifies == CodecSpec => []AcceptedVerifies
  <1>1. CodecInit => CheckInv
    BY CheckStarts DEF CodecInit
  <1>2. CheckInv /\ [CodecNext]_codecVars => CheckInv'
    BY CheckInvStep
  <1>3. CheckInv => AcceptedVerifies
    BY VerdictsAgree
  <1>4. QED
    BY <1>1, <1>2, <1>3, PTL DEF CodecSpec
=============================================================================
