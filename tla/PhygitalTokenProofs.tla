------------------------- MODULE PhygitalTokenProofs -------------------------
(***************************************************************************)
(* Proofs about the phygital-token program, for any number of keys,        *)
(* accessories, slots and taps: the role registry first, then the tokens,  *)
(* then that the program implements Ownership, and last the search among   *)
(* the slot hashes, for every window.                                      *)
(***************************************************************************)
EXTENDS PhygitalToken, SlotHashSearch, TLAPS

(***************************************************************************)
(* The registry is absent or names one key for each role.                  *)
(***************************************************************************)
LEMMA ConfigTypeStep == ConfigTypeOK /\ [ConfigNext]_adminConfig => ConfigTypeOK'
<1> SUFFICES ASSUME ConfigTypeOK, [ConfigNext]_adminConfig
             PROVE  ConfigTypeOK'
  OBVIOUS
<1> USE KeyAssumption DEF ConfigTypeOK, Roles, AnyKey, IsAdmin, ConfigExists
<1>1. ASSUME NEW signer \in Pubkeys, CreateConfig(signer)
      PROVE  ConfigTypeOK'
  BY <1>1 DEF CreateConfig
<1>2. ASSUME NEW signer \in Pubkeys, NEW key \in AnyKey, SetAdmin(signer, key)
      PROVE  ConfigTypeOK'
  BY <1>2 DEF SetAdmin, RequireUniqueRoleKey
<1>3. ASSUME NEW signer \in Pubkeys, NEW key \in AnyKey, SetIssuer(signer, key)
      PROVE  ConfigTypeOK'
  BY <1>3 DEF SetIssuer
<1>4. ASSUME NEW signer \in Pubkeys, NEW key \in AnyKey, SetMinter(signer, key)
      PROVE  ConfigTypeOK'
  BY <1>4 DEF SetMinter
<1>5. CASE UNCHANGED adminConfig
  BY <1>5
<1> QED
  BY <1>1, <1>2, <1>3, <1>4, <1>5 DEF ConfigNext

(***************************************************************************)
(* A set_* call keeps the roles apart, because the new key held none.      *)
(***************************************************************************)
LEMMA RolesSeparateStep ==
    ConfigTypeOK /\ RolesSeparate /\ [ConfigNext]_adminConfig => RolesSeparate'
<1> SUFFICES ASSUME ConfigTypeOK, RolesSeparate, [ConfigNext]_adminConfig
             PROVE  RolesSeparate'
  OBVIOUS
<1> USE KeyAssumption DEF ConfigTypeOK, Roles, AnyKey, RolesSeparate, ConfigExists,
                          IsAdmin, IsIssuer, IsMinter, RequireUniqueRoleKey
<1>1. ASSUME NEW signer \in Pubkeys, CreateConfig(signer)
      PROVE  RolesSeparate'
  BY <1>1 DEF CreateConfig
<1>2. ASSUME NEW signer \in Pubkeys, NEW key \in AnyKey, SetAdmin(signer, key)
      PROVE  RolesSeparate'
  BY <1>2 DEF SetAdmin
<1>3. ASSUME NEW signer \in Pubkeys, NEW key \in AnyKey, SetIssuer(signer, key)
      PROVE  RolesSeparate'
  BY <1>3 DEF SetIssuer
<1>4. ASSUME NEW signer \in Pubkeys, NEW key \in AnyKey, SetMinter(signer, key)
      PROVE  RolesSeparate'
  BY <1>4 DEF SetMinter
<1>5. CASE UNCHANGED adminConfig
  BY <1>5
<1> QED
  BY <1>1, <1>2, <1>3, <1>4, <1>5 DEF ConfigNext

(***************************************************************************)
(* The registry is absent or names one key for each role, the admin's      *)
(* being one that can sign: the program is never left without an admin.    *)
(***************************************************************************)
THEOREM ConfigTypeCorrect == ConfigSpec => []ConfigTypeOK
<1>1. ConfigInit => ConfigTypeOK
  BY DEF ConfigInit, ConfigTypeOK
<1> QED
  BY <1>1, ConfigTypeStep, PTL DEF ConfigSpec

(***************************************************************************)
(* No key ever holds two roles, whatever sequence of create_config and     *)
(* set_* calls the admin makes.                                            *)
(***************************************************************************)
THEOREM RolesAlwaysSeparate == ConfigSpec => []RolesSeparate
<1>1. ConfigInit => RolesSeparate
  BY DEF ConfigInit, RolesSeparate, ConfigExists
<1> QED
  BY <1>1, ConfigTypeCorrect, RolesSeparateStep, PTL DEF ConfigSpec

(***************************************************************************)
(* Roles are handed over one at a time, to keys that held none.            *)
(***************************************************************************)
THEOREM RolesAlwaysHandedOver == ConfigSpec => RolesHandedOver
<1> DEFINE HandOver ==
      ConfigExists =>
        /\ ConfigExists'
        /\ \E role \in DOMAIN adminConfig :
            /\ \A other \in DOMAIN adminConfig \ {role} :
                adminConfig'[other] = adminConfig[other]
            /\ \A held \in DOMAIN adminConfig :
                adminConfig'[role] \notin {adminConfig[held], DefaultKey}
<1>1. ConfigTypeOK /\ [ConfigNext]_adminConfig => [HandOver]_adminConfig
  <2> SUFFICES ASSUME ConfigTypeOK, ConfigNext, ConfigExists
               PROVE  HandOver
    OBVIOUS
  <2>1. /\ adminConfig \in Roles
        /\ DOMAIN adminConfig = {"admin", "issuer", "minter"}
    BY DEF ConfigTypeOK, ConfigExists, Roles
  <2> USE <2>1, KeyAssumption DEF Roles, AnyKey, ConfigExists, IsAdmin, IsIssuer, IsMinter,
                                  RequireUniqueRoleKey
  <2>2. ASSUME NEW signer \in Pubkeys, NEW key \in AnyKey, SetAdmin(signer, key)
        PROVE  HandOver
    <3>1. /\ adminConfig' \in Roles
          /\ adminConfig'.admin = key
          /\ adminConfig'.issuer = adminConfig.issuer
          /\ adminConfig'.minter = adminConfig.minter
      BY <2>2 DEF SetAdmin
    <3> QED
      BY <2>2, <3>1 DEF SetAdmin
  <2>3. ASSUME NEW signer \in Pubkeys, NEW key \in AnyKey, SetIssuer(signer, key)
        PROVE  HandOver
    <3>1. /\ adminConfig' \in Roles
          /\ adminConfig'.issuer = key
          /\ adminConfig'.admin = adminConfig.admin
          /\ adminConfig'.minter = adminConfig.minter
      BY <2>3 DEF SetIssuer
    <3> QED
      BY <2>3, <3>1 DEF SetIssuer
  <2>4. ASSUME NEW signer \in Pubkeys, NEW key \in AnyKey, SetMinter(signer, key)
        PROVE  HandOver
    <3>1. /\ adminConfig' \in Roles
          /\ adminConfig'.minter = key
          /\ adminConfig'.admin = adminConfig.admin
          /\ adminConfig'.issuer = adminConfig.issuer
      BY <2>4 DEF SetMinter
    <3> QED
      BY <2>4, <3>1 DEF SetMinter
  <2> QED
    BY <2>2, <2>3, <2>4 DEF ConfigNext, CreateConfig
<1> QED
  BY <1>1, ConfigTypeCorrect, PTL DEF ConfigSpec, RolesHandedOver

-----------------------------------------------------------------------------

(***************************************************************************)
(* An accepted assertion leaves a well-typed account.                      *)
(***************************************************************************)
LEMMA AcceptedAssertionType ==
    ASSUME NEW t \in Token, NEW assertion \in Assertion
    PROVE  AcceptAssertion(t, assertion) \in Token
BY DEF AcceptAssertion, Token, Assertion

(***************************************************************************)
(* The slots before this one and this one are before any later one.        *)
(***************************************************************************)
LEMMA SlotsGrow ==
    ASSUME NEW m \in Nat, NEW n \in Nat, m < n, NEW S, S \subseteq 0 .. (m - 1)
    PROVE  S \cup {m} \subseteq 0 .. (n - 1)
OBVIOUS

(***************************************************************************)
(* Every instruction, and every step of the world around the program,      *)
(* keeps the state well typed.                                             *)
(***************************************************************************)
LEMMA TokenTypeStep == TypeOK /\ [Next]_vars => TypeOK'
<1> SUFFICES ASSUME TypeOK, [Next]_vars
             PROVE  TypeOK'
  OBVIOUS
<1> USE KeyAssumption, TokenAssumption
<1>1. ASSUME ChangeRoles
      PROVE  TypeOK'
  <2>1. ConfigTypeOK'
    BY <1>1, ConfigTypeStep DEF TypeOK, ChangeRoles
  <2> QED
    BY <1>1, <2>1 DEF TypeOK, ChangeRoles, tokenVars, chainVars, accessoryVars
<1>2. ASSUME NEW signer \in Pubkeys, NEW identifier \in Identifiers,
             NEW publicKey \in PublicKeys, NEW tokenType \in TokenTypes,
             NEW owner \in AnyKey,
             Initialize(signer, identifier, publicKey, tokenType, owner)
      PROVE  TypeOK'
  <2> DEFINE address == Pda[publicKey]
  <2> DEFINE created == [owner |-> owner, mint |-> DefaultKey, lastSignCount |-> 0,
                         tokenType |-> tokenType, publicKey |-> publicKey,
                         identifier |-> identifier]
  <2>1. created \in Token /\ address \in Addresses
    BY DEF Token, SignCounts
  <2>2. token' = [token EXCEPT ![address] = created]
    BY <1>2 DEF Initialize
  <2>3. incarnation' \in [Addresses -> 0 .. MaxIncarnation]
    BY <1>2, <2>1 DEF Initialize, TypeOK
  <2>4. token' \in [Addresses -> Token \cup {NoToken}]
    BY <2>1, <2>2 DEF TypeOK
  <2> QED
    BY <1>2, <2>3, <2>4 DEF TypeOK, Initialize, chainVars, accessoryVars, ConfigTypeOK
<1>3. ASSUME NEW signer \in Pubkeys, NEW address \in Addresses,
             NEW mint \in Mints \cup {DefaultKey}, AssignMint(signer, address, mint)
      PROVE  TypeOK'
  <2>1. token[address] \in Token
    BY <1>3 DEF AssignMint, Exists, TypeOK
  <2>2. token' \in [Addresses -> Token \cup {NoToken}]
    BY <1>3, <2>1 DEF AssignMint, TypeOK, Token
  <2> QED
    BY <1>3, <2>2 DEF TypeOK, AssignMint, chainVars, accessoryVars, ConfigTypeOK
<1>4. ASSUME NEW signer \in Pubkeys, NEW address \in Addresses,
             ClosePhygitalToken(signer, address)
      PROVE  TypeOK'
  BY <1>4 DEF TypeOK, ClosePhygitalToken, chainVars, accessoryVars, ConfigTypeOK
<1>5. ASSUME NEW recipient \in Pubkeys, NEW address \in Addresses, NEW slotNumber \in Slots,
             NEW assertion \in taps, SetOwner(recipient, address, slotNumber, assertion)
      PROVE  TypeOK'
  <2>1. AcceptAssertion(token[address], assertion) \in Token
    BY <1>5, AcceptedAssertionType DEF SetOwner, Exists, TypeOK
  <2>2. [AcceptAssertion(token[address], assertion) EXCEPT !.owner = recipient] \in Token
    BY <2>1 DEF Token, AnyKey
  <2>3. token' \in [Addresses -> Token \cup {NoToken}]
    BY <1>5, <2>2 DEF SetOwner, TypeOK
  <2> QED
    BY <1>5, <2>3 DEF TypeOK, SetOwner, Spend, chainVars, accessoryVars, ConfigTypeOK
<1>6. ASSUME NEW address \in Addresses, NEW messageHash, NEW rpIds, NEW origins,
             NEW assertion \in taps, Verify(address, messageHash, rpIds, origins, assertion)
      PROVE  TypeOK'
  <2>1. AcceptAssertion(token[address], assertion) \in Token
    BY <1>6, AcceptedAssertionType DEF Verify, Exists, TypeOK
  <2>2. token' \in [Addresses -> Token \cup {NoToken}]
    BY <1>6, <2>1 DEF Verify, TypeOK
  <2> QED
    BY <1>6, <2>2 DEF TypeOK, Verify, Spend, chainVars, accessoryVars, ConfigTypeOK
<1>7. ASSUME NEW signer \in Pubkeys, NEW address \in Addresses, RemoveOwner(signer, address)
      PROVE  TypeOK'
  <2>1. token[address] \in Token
    BY <1>7 DEF RemoveOwner, Exists, TypeOK
  <2>2. token' \in [Addresses -> Token \cup {NoToken}]
    BY <1>7, <2>1 DEF RemoveOwner, TypeOK, Token, AnyKey
  <2> QED
    BY <1>7, <2>2 DEF TypeOK, RemoveOwner, chainVars, accessoryVars, ConfigTypeOK
<1>8. ASSUME NEW next \in Slots, AdvanceSlot(next)
      PROVE  TypeOK'
  <2>1. slotHashes' \subseteq slotHashes \cup {slot}
    BY <1>8 DEF AdvanceSlot, Newest
  <2>2. slot \in Nat /\ next \in Nat /\ slot < next /\ slotHashes \subseteq 0 .. (slot - 1)
    BY <1>8 DEF TypeOK, AdvanceSlot, Slots
  <2>3. slotHashes \cup {slot} \subseteq 0 .. (next - 1)
    BY <2>2, SlotsGrow
  <2> QED
    BY <1>8, <2>1, <2>3 DEF TypeOK, AdvanceSlot, tokenVars, accessoryVars, ConfigTypeOK
<1>9. ASSUME NEW key \in Accessories, NEW challenge \in Challenges, NEW context \in Contexts,
             Tap(key, challenge, context)
      PROVE  TypeOK'
  <2>1. counter[key] + 1 \in SignCounts
    BY <1>9 DEF TypeOK, Tap, SignCounts
  <2>2. taps' \subseteq Assertion /\ taps \subseteq taps'
    BY <1>9, <2>1 DEF TypeOK, Tap, Assertion
  <2>3. counter' \in [Accessories -> SignCounts]
    BY <1>9, <2>1 DEF TypeOK, Tap
  <2>4. accepted' \subseteq [token : Addresses, incarnation : 0 .. MaxIncarnation,
                             assertion : taps']
    BY <1>9, <2>2 DEF TypeOK, Tap, tokenVars
  <2> QED
    BY <1>9, <2>2, <2>3, <2>4 DEF TypeOK, Tap, tokenVars, chainVars, ConfigTypeOK
<1>10. CASE UNCHANGED vars
  BY <1>10 DEF TypeOK, ConfigTypeOK, vars
<1> QED
  BY <1>1, <1>2, <1>3, <1>4, <1>5, <1>6, <1>7, <1>8, <1>9, <1>10
     DEF Next, Issue, UseAssertion, Administer, Environment

(***************************************************************************)
(* Accounts, roles, taps and histories keep their types for ever.          *)
(***************************************************************************)
THEOREM TokenTypeCorrect == Spec => []TypeOK
<1>1. Init => TypeOK
  BY KeyAssumption, TokenAssumption
     DEF Init, TypeOK, ConfigInit, ConfigTypeOK, Slots, SignCounts
<1> QED
  BY <1>1, TokenTypeStep, PTL DEF Spec

-----------------------------------------------------------------------------
(***************************************************************************)
(* What a step does to the assertions an account has accepted: nothing,    *)
(* unless it spends one.                                                   *)
(***************************************************************************)
LEMMA AcceptedByUnchanged ==
    ASSUME NEW address, UNCHANGED <<accepted, incarnation[address]>>
    PROVE  AcceptedBy(address)' = AcceptedBy(address)
BY DEF AcceptedBy

(***************************************************************************)
(* Spending an assertion adds it to those its account accepted, and to no  *)
(* other account's.                                                        *)
(***************************************************************************)
LEMMA AcceptedBySpend ==
    ASSUME NEW address, NEW assertion, NEW other,
           Spend(address, assertion), UNCHANGED incarnation
    PROVE  \A tap : tap \in AcceptedBy(other)'
                    <=> (tap \in AcceptedBy(other) \/ (other = address /\ tap = assertion))
<1> DEFINE spent == [token |-> address, incarnation |-> incarnation[address],
                     assertion |-> assertion]
<1>1. accepted' = accepted \cup {spent} /\ incarnation' = incarnation
  BY DEF Spend
<1>2. \A tap : tap \in AcceptedBy(other) <=>
        \E e \in accepted : /\ e.token = other /\ e.incarnation = incarnation[other]
                            /\ tap = e.assertion
  BY DEF AcceptedBy
<1>3. \A tap : tap \in AcceptedBy(other)' <=>
        \E e \in accepted' : /\ e.token = other /\ e.incarnation = incarnation[other]
                             /\ tap = e.assertion
  BY <1>1 DEF AcceptedBy
<1>4. \A tap : (\E e \in accepted' : /\ e.token = other /\ e.incarnation = incarnation[other]
                                     /\ tap = e.assertion)
               <=> \/ \E e \in accepted : /\ e.token = other
                                          /\ e.incarnation = incarnation[other]
                                          /\ tap = e.assertion
                   \/ other = address /\ tap = assertion
  <2>1. /\ spent.token = address
        /\ spent.incarnation = incarnation[address]
        /\ spent.assertion = assertion
    OBVIOUS
  <2> HIDE DEF spent
  <2> QED
    BY <1>1, <2>1
<1> QED
  BY <1>2, <1>3, <1>4

(***************************************************************************)
(* What an account accepted is an assertion some accessory made.           *)
(***************************************************************************)
LEMMA AcceptedByType ==
    ASSUME TypeOK, NEW address \in Addresses, NEW tap \in AcceptedBy(address)
    PROVE  tap \in taps /\ tap \in Assertion
BY DEF AcceptedBy, TypeOK

(***************************************************************************)
(* The parts of the inductive invariant that are not about types.          *)
(***************************************************************************)
Rest == /\ TapsCounted
        /\ AccountsInPlace
        /\ AcceptedInPlace
        /\ AcceptedCovered
        /\ PermanentOwned
        /\ OwnerNamedByNewestTransfer
        /\ NextTapIsNewer

(***************************************************************************)
(* A step that touches no account and forgets no tap keeps them.           *)
(***************************************************************************)
LEMMA RestOutside ==
    ASSUME TypeOK, Rest, UNCHANGED tokenVars, UNCHANGED accessoryVars
    PROVE  Rest'
BY DEF Rest, TapsCounted, AccountsInPlace, AcceptedInPlace, AcceptedCovered, PermanentOwned,
       OwnerNamedByNewestTransfer, NextTapIsNewer, tokenVars, accessoryVars, Exists, AcceptedBy,
       IsTransfer, Recipient

(***************************************************************************)
(* A tap adds an assertion and raises one count.                           *)
(***************************************************************************)
LEMMA RestTap ==
    ASSUME TypeOK, TypeOK', Rest, NEW key \in Accessories, NEW challenge \in Challenges,
           NEW context \in Contexts, Tap(key, challenge, context)
    PROVE  Rest'
<1> DEFINE made == [key |-> key, signCount |-> counter[key] + 1,
                    challenge |-> challenge, context |-> context]
<1>1. /\ UNCHANGED <<token, incarnation, accepted>>
      /\ taps' = taps \cup {made}
      /\ counter' = [counter EXCEPT ![key] = counter[key] + 1]
      /\ counter \in [Accessories -> Nat]
  BY DEF Tap, tokenVars, TypeOK, SignCounts
<1>2. TapsCounted'
  BY <1>1 DEF Rest, TapsCounted, TypeOK, Assertion, SignCounts
<1>3. NextTapIsNewer'
  <2> SUFFICES ASSUME NEW address \in Addresses, Exists(address)',
                      token[address].lastSignCount > 0
               PROVE  \E tap \in taps' : /\ tap.key = token[address].publicKey
                                         /\ tap.signCount = token[address].lastSignCount
                                         /\ tap.signCount <= counter'[tap.key]
    BY <1>1 DEF NextTapIsNewer
  <2>1. PICK tap \in taps : /\ tap.key = token[address].publicKey
                            /\ tap.signCount = token[address].lastSignCount
    BY <1>1 DEF Rest, NextTapIsNewer, Exists
  <2> QED
    BY <1>1, <1>2, <2>1 DEF TapsCounted
<1> QED
  BY <1>1, <1>2, <1>3
     DEF Rest, AccountsInPlace, AcceptedInPlace, AcceptedCovered, PermanentOwned,
         OwnerNamedByNewestTransfer, Exists, AcceptedBy, IsTransfer, Recipient

(***************************************************************************)
(* A new account starts with a count of zero, no assertion accepted, and   *)
(* an owner exactly if it is Permanent.                                    *)
(***************************************************************************)
LEMMA RestInitialize ==
    ASSUME TypeOK, TypeOK', Rest,
           NEW signer \in Pubkeys, NEW identifier \in Identifiers, NEW publicKey \in PublicKeys,
           NEW tokenType \in TokenTypes, NEW owner \in AnyKey,
           Initialize(signer, identifier, publicKey, tokenType, owner)
    PROVE  Rest'
<1> DEFINE address == Pda[publicKey]
<1> DEFINE created == [owner |-> owner, mint |-> DefaultKey, lastSignCount |-> 0,
                       tokenType |-> tokenType, publicKey |-> publicKey,
                       identifier |-> identifier]
<1>1. /\ address \in Addresses
      /\ ~Exists(address)
      /\ token' = [token EXCEPT ![address] = created]
      /\ incarnation' = [incarnation EXCEPT ![address] = incarnation[address] + 1]
      /\ UNCHANGED <<taps, counter, accepted>>
      /\ tokenType = "Permanent" <=> owner # DefaultKey
  BY TokenAssumption DEF Initialize, accessoryVars
<1>2. /\ token \in [Addresses -> Token \cup {NoToken}]
      /\ incarnation \in [Addresses -> Nat]
      /\ \A e \in accepted : e.token \in Addresses /\ e.incarnation \in Nat
  BY TokenAssumption DEF TypeOK
<1>3. /\ created.owner = owner
      /\ created.lastSignCount = 0
      /\ created.tokenType = tokenType
      /\ created.publicKey = publicKey
  OBVIOUS
<1> HIDE DEF created
<1>4. AcceptedBy(address)' = {}
  <2>1. \A e \in accepted : e.token = address => e.incarnation <= incarnation[address]
    BY DEF Rest, AcceptedInPlace
  <2> QED
    BY <1>1, <1>2, <2>1 DEF AcceptedBy
<1>5. \A other \in Addresses \ {address} :
        /\ AcceptedBy(other)' = AcceptedBy(other)
        /\ token'[other] = token[other]
        /\ Exists(other)' <=> Exists(other)
        /\ incarnation'[other] = incarnation[other]
  BY <1>1, <1>2 DEF AcceptedBy, Exists
<1>6. TapsCounted'
  BY <1>1 DEF Rest, TapsCounted
<1>7. AccountsInPlace'
  BY <1>1, <1>2, <1>3, <1>5 DEF Rest, AccountsInPlace
<1>8. AcceptedInPlace'
  BY <1>1, <1>2 DEF Rest, AcceptedInPlace
<1>9. AcceptedCovered'
  BY <1>4, <1>5 DEF Rest, AcceptedCovered
<1>10. PermanentOwned'
  BY <1>1, <1>2, <1>3, <1>5 DEF Rest, PermanentOwned
<1>11. OwnerNamedByNewestTransfer'
  BY <1>1, <1>2, <1>3, <1>5 DEF Rest, OwnerNamedByNewestTransfer, IsTransfer, Recipient
<1>12. NextTapIsNewer'
  BY <1>1, <1>2, <1>3, <1>5 DEF Rest, NextTapIsNewer
<1> QED
  BY <1>6, <1>7, <1>8, <1>9, <1>10, <1>11, <1>12 DEF Rest

(***************************************************************************)
(* Closing an account leaves the others as they were.                      *)
(***************************************************************************)
LEMMA RestClose ==
    ASSUME TypeOK, Rest, NEW signer \in Pubkeys, NEW address \in Addresses,
           ClosePhygitalToken(signer, address)
    PROVE  Rest'
<1>1. /\ token' = [token EXCEPT ![address] = NoToken]
      /\ UNCHANGED <<taps, counter, accepted, incarnation>>
      /\ token \in [Addresses -> Token \cup {NoToken}]
  BY DEF ClosePhygitalToken, accessoryVars, TypeOK
<1>2. \A other \in Addresses :
        /\ AcceptedBy(other)' = AcceptedBy(other)
        /\ Exists(other)' => Exists(other) /\ token'[other] = token[other]
  BY <1>1 DEF AcceptedBy, Exists
<1> QED
  BY <1>1, <1>2
     DEF Rest, TapsCounted, AccountsInPlace, AcceptedInPlace, AcceptedCovered, PermanentOwned,
         OwnerNamedByNewestTransfer, NextTapIsNewer, IsTransfer, Recipient

(***************************************************************************)
(* assign_mint and remove_owner leave the count, the type and the passkey, *)
(* and the owner or nobody.                                                *)
(***************************************************************************)
LEMMA RestEdit ==
    ASSUME TypeOK, Rest, NEW address \in Addresses, NEW edited \in Token,
           Exists(address), token' = [token EXCEPT ![address] = edited],
           UNCHANGED <<taps, counter, accepted, incarnation>>,
           edited.lastSignCount = token[address].lastSignCount,
           edited.tokenType = token[address].tokenType,
           edited.publicKey = token[address].publicKey,
           \/ edited.owner = token[address].owner
           \/ edited.owner = DefaultKey /\ edited.tokenType # "Permanent"
    PROVE  Rest'
<1>1. token \in [Addresses -> Token \cup {NoToken}]
  BY DEF TypeOK
<1>2. \A other \in Addresses :
        /\ AcceptedBy(other)' = AcceptedBy(other)
        /\ Exists(other)' => /\ Exists(other)
                             /\ token'[other] = IF other = address THEN edited ELSE token[other]
  BY <1>1 DEF AcceptedBy, Exists
<1> QED
  BY <1>1, <1>2
     DEF Rest, TapsCounted, AccountsInPlace, AcceptedInPlace, AcceptedCovered, PermanentOwned,
         OwnerNamedByNewestTransfer, NextTapIsNewer, IsTransfer, Recipient

(***************************************************************************)
(* set_owner and verify: the spent assertion is newer than the account's   *)
(* count, hence than every assertion spent before; if it is a transfer, it *)
(* is the newest one and names the new owner.                              *)
(***************************************************************************)
LEMMA RestSpend ==
    ASSUME TypeOK, Rest, NEW address \in Addresses, NEW assertion \in taps, NEW edited \in Token,
           Exists(address), Acceptable(address, assertion), Spend(address, assertion),
           token' = [token EXCEPT ![address] = edited],
           UNCHANGED <<taps, counter, incarnation>>,
           edited.lastSignCount = assertion.signCount,
           edited.tokenType = token[address].tokenType,
           edited.publicKey = token[address].publicKey,
           \/ ~IsTransfer(assertion) /\ edited.owner = token[address].owner
           \/ /\ IsTransfer(assertion)
              /\ edited.owner = Recipient(assertion)
              /\ edited.owner # DefaultKey
    PROVE  Rest'
<1>1. /\ token \in [Addresses -> Token \cup {NoToken}]
      /\ token[address] \in Token
      /\ token[address].lastSignCount \in Nat
      /\ assertion.signCount \in Nat
      /\ assertion.signCount > token[address].lastSignCount
      /\ assertion.key = token[address].publicKey
  BY DEF TypeOK, Token, Assertion, SignCounts, Exists, Acceptable
<1>2. \A other \in Addresses :
        Exists(other)' => /\ Exists(other)
                          /\ token'[other] = IF other = address THEN edited ELSE token[other]
  BY <1>1 DEF Exists
<1>3. \A other \in Addresses : \A tap :
        tap \in AcceptedBy(other)'
        <=> (tap \in AcceptedBy(other) \/ (other = address /\ tap = assertion))
  BY AcceptedBySpend
<1>4. \A tap \in AcceptedBy(address) :
        tap.signCount \in Nat /\ tap.signCount < assertion.signCount
  <2> TAKE tap \in AcceptedBy(address)
  <2>1. tap.signCount \in Nat
    BY AcceptedByType DEF Assertion, SignCounts
  <2>2. tap.signCount <= token[address].lastSignCount
    BY DEF Rest, AcceptedCovered
  <2> QED
    BY <1>1, <2>1, <2>2
<1>5. TapsCounted'
  BY DEF Rest, TapsCounted
<1>6. AccountsInPlace'
  BY <1>2 DEF Rest, AccountsInPlace
<1>7. AcceptedInPlace'
  <2>1. Pda[assertion.key] = address
    BY <1>1 DEF Rest, AccountsInPlace
  <2>2. incarnation[address] \in Nat
    BY TokenAssumption DEF TypeOK
  <2>3. \A e \in accepted' : \/ e \in accepted
                             \/ /\ e.assertion = assertion
                                /\ e.token = address
                                /\ e.incarnation = incarnation[address]
    BY DEF Spend
  <2> QED
    BY <2>1, <2>2, <2>3 DEF Rest, AcceptedInPlace
<1>8. AcceptedCovered'
  BY <1>1, <1>2, <1>3, <1>4 DEF Rest, AcceptedCovered
<1>9. PermanentOwned'
  BY <1>2 DEF Rest, PermanentOwned
<1>10. OwnerNamedByNewestTransfer'
  <2> SUFFICES ASSUME NEW other \in Addresses, Exists(other)',
                      token'[other].tokenType # "Permanent",
                      token'[other].owner # DefaultKey
               PROVE  \E tap \in AcceptedBy(other)' :
                        /\ IsTransfer(tap)
                        /\ Recipient(tap) = token'[other].owner
                        /\ \A newer \in AcceptedBy(other)' :
                            IsTransfer(newer) => newer.signCount <= tap.signCount
    BY DEF OwnerNamedByNewestTransfer, IsTransfer, Recipient
  <2>1. CASE other = address /\ IsTransfer(assertion)
    <3>1. assertion \in AcceptedBy(other)'
      BY <1>3, <2>1
    <3>2. Recipient(assertion) = token'[other].owner
      BY <1>2, <2>1
    <3>3. \A newer \in AcceptedBy(other)' : newer.signCount <= assertion.signCount
      BY <1>1, <1>3, <1>4, <2>1
    <3> QED
      BY <2>1, <3>1, <3>2, <3>3
  <2>2. CASE ~(other = address /\ IsTransfer(assertion))
    <3>1. /\ Exists(other)
          /\ token[other].tokenType = token'[other].tokenType
          /\ token[other].owner = token'[other].owner
      BY <1>2, <2>2
    <3>2. PICK tap \in AcceptedBy(other) :
            /\ IsTransfer(tap)
            /\ Recipient(tap) = token[other].owner
            /\ \A newer \in AcceptedBy(other) :
                IsTransfer(newer) => newer.signCount <= tap.signCount
      BY <3>1 DEF Rest, OwnerNamedByNewestTransfer
    <3> QED
      BY <1>3, <2>2, <3>1, <3>2
  <2> QED
    BY <2>1, <2>2
<1>11. NextTapIsNewer'
  BY <1>1, <1>2 DEF Rest, NextTapIsNewer, TapsCounted
<1> QED
  BY <1>5, <1>6, <1>7, <1>8, <1>9, <1>10, <1>11 DEF Rest

(***************************************************************************)
(* What set_owner, verify, assign_mint and remove_owner do to the account  *)
(* they are given, in the terms the lemmas above use.                      *)
(***************************************************************************)
LEMMA SetOwnerEffect ==
    ASSUME TypeOK, NEW recipient \in Pubkeys, NEW address \in Addresses, NEW slotNumber \in Slots,
           NEW assertion \in taps, SetOwner(recipient, address, slotNumber, assertion)
    PROVE  \E edited \in Token :
            /\ token' = [token EXCEPT ![address] = edited]
            /\ edited.lastSignCount = assertion.signCount
            /\ edited.tokenType = token[address].tokenType
            /\ edited.publicKey = token[address].publicKey
            /\ edited.identifier = token[address].identifier
            /\ edited.owner = recipient
            /\ recipient # DefaultKey
            /\ IsTransfer(assertion)
            /\ recipient = Recipient(assertion)
<1> DEFINE accepting == AcceptAssertion(token[address], assertion)
<1> DEFINE edited == [accepting EXCEPT !.owner = recipient]
<1>1. token[address] \in Token
  BY DEF SetOwner, Exists, TypeOK
<1>2. accepting \in Token
  BY <1>1, AcceptedAssertionType DEF TypeOK
<1>3. edited \in Token /\ edited.owner = recipient
  BY <1>2 DEF Token, AnyKey
<1>4. /\ edited.lastSignCount = assertion.signCount
      /\ edited.tokenType = token[address].tokenType
      /\ edited.publicKey = token[address].publicKey
      /\ edited.identifier = token[address].identifier
  BY <1>1 DEF Token, AcceptAssertion
<1>5. token' = [token EXCEPT ![address] = edited]
  BY DEF SetOwner
<1>6. IsTransfer(assertion) /\ recipient = Recipient(assertion)
  BY DEF SetOwner, VerifyWebauthnAssertion, SetOwnerChallenge, IsTransfer, Recipient
<1> QED
  BY <1>3, <1>4, <1>5, <1>6, KeyAssumption

(***************************************************************************)
(* verify changes the count of one account, and not who owns it.           *)
(***************************************************************************)
LEMMA VerifyEffect ==
    ASSUME TypeOK, NEW address \in Addresses, NEW messageHash, NEW rpIds, NEW origins,
           NEW assertion \in taps, Verify(address, messageHash, rpIds, origins, assertion)
    PROVE  \E edited \in Token :
            /\ token' = [token EXCEPT ![address] = edited]
            /\ edited.lastSignCount = assertion.signCount
            /\ edited.tokenType = token[address].tokenType
            /\ edited.publicKey = token[address].publicKey
            /\ edited.identifier = token[address].identifier
            /\ edited.owner = token[address].owner
            /\ ~IsTransfer(assertion)
<1> DEFINE edited == AcceptAssertion(token[address], assertion)
<1>1. token[address] \in Token
  BY DEF Verify, Exists, TypeOK
<1>2. edited \in Token
  BY <1>1, AcceptedAssertionType DEF TypeOK
<1>3. /\ edited.lastSignCount = assertion.signCount
      /\ edited.tokenType = token[address].tokenType
      /\ edited.publicKey = token[address].publicKey
      /\ edited.identifier = token[address].identifier
      /\ edited.owner = token[address].owner
  BY <1>1 DEF Token, AcceptAssertion
<1>4. token' = [token EXCEPT ![address] = edited]
  BY DEF Verify
<1>5. ~IsTransfer(assertion)
  BY DEF Verify, VerifyWebauthnAssertion, VerifyChallenge, IsTransfer
<1> QED
  BY <1>2, <1>3, <1>4, <1>5

(***************************************************************************)
(* assign_mint and remove_owner leave the count alone, and change the      *)
(* owner only to nobody.                                                   *)
(***************************************************************************)
LEMMA EditEffect ==
    ASSUME TypeOK, NEW signer \in Pubkeys, NEW address \in Addresses,
           NEW mint \in Mints \cup {DefaultKey},
           AssignMint(signer, address, mint) \/ RemoveOwner(signer, address)
    PROVE  \E edited \in Token :
            /\ token' = [token EXCEPT ![address] = edited]
            /\ edited.lastSignCount = token[address].lastSignCount
            /\ edited.tokenType = token[address].tokenType
            /\ edited.publicKey = token[address].publicKey
            /\ edited.identifier = token[address].identifier
            /\ \/ edited.owner = token[address].owner
               \/ edited.owner = DefaultKey /\ edited.tokenType # "Permanent"
<1>1. token[address] \in Token
  BY DEF AssignMint, RemoveOwner, Exists, TypeOK
<1>2. CASE AssignMint(signer, address, mint)
  <2> DEFINE edited == [token[address] EXCEPT !.mint = mint]
  <2>1. /\ edited \in Token
        /\ edited.lastSignCount = token[address].lastSignCount
        /\ edited.tokenType = token[address].tokenType
        /\ edited.publicKey = token[address].publicKey
        /\ edited.identifier = token[address].identifier
        /\ edited.owner = token[address].owner
    BY <1>1 DEF Token
  <2>2. token' = [token EXCEPT ![address] = edited]
    BY <1>2 DEF AssignMint
  <2> QED
    BY <2>1, <2>2
<1>3. CASE RemoveOwner(signer, address)
  <2> DEFINE edited == [token[address] EXCEPT !.owner = DefaultKey]
  <2>1. /\ edited \in Token
        /\ edited.lastSignCount = token[address].lastSignCount
        /\ edited.tokenType = token[address].tokenType
        /\ edited.publicKey = token[address].publicKey
        /\ edited.identifier = token[address].identifier
        /\ edited.owner = DefaultKey
    BY <1>1 DEF Token, AnyKey
  <2>2. token' = [token EXCEPT ![address] = edited] /\ token[address].tokenType # "Permanent"
    BY <1>3 DEF RemoveOwner
  <2> QED
    BY <2>1, <2>2
<1> QED
  BY <1>2, <1>3

(***************************************************************************)
(* The inductive invariant survives every step.                            *)
(***************************************************************************)
LEMMA InvStep == Inv /\ [Next]_vars => Inv'
<1> SUFFICES ASSUME TypeOK, Rest, TypeOK', [Next]_vars
             PROVE  Rest'
  BY TokenTypeStep DEF Inv, Rest
<1>1. CASE ChangeRoles
  BY <1>1, RestOutside DEF ChangeRoles
<1>2. ASSUME NEW signer \in Pubkeys, NEW identifier \in Identifiers,
             NEW publicKey \in PublicKeys, NEW tokenType \in TokenTypes,
             NEW owner \in AnyKey,
             Initialize(signer, identifier, publicKey, tokenType, owner)
      PROVE  Rest'
  BY <1>2, RestInitialize
<1>3. ASSUME NEW signer \in Pubkeys, NEW address \in Addresses,
             NEW mint \in Mints \cup {DefaultKey},
             AssignMint(signer, address, mint) \/ RemoveOwner(signer, address)
      PROVE  Rest'
  <2>1. Exists(address) /\ UNCHANGED <<taps, counter, accepted, incarnation>>
    BY <1>3 DEF AssignMint, RemoveOwner, accessoryVars
  <2> QED
    BY <1>3, <2>1, EditEffect, RestEdit
<1>4. ASSUME NEW signer \in Pubkeys, NEW address \in Addresses,
             ClosePhygitalToken(signer, address)
      PROVE  Rest'
  BY <1>4, RestClose
<1>5. ASSUME NEW recipient \in Pubkeys, NEW address \in Addresses, NEW slotNumber \in Slots,
             NEW assertion \in taps, SetOwner(recipient, address, slotNumber, assertion)
      PROVE  Rest'
  <2>1. /\ Exists(address)
        /\ Acceptable(address, assertion)
        /\ Spend(address, assertion)
        /\ UNCHANGED <<taps, counter, incarnation>>
    BY <1>5 DEF SetOwner, accessoryVars
  <2> QED
    BY <1>5, <2>1, SetOwnerEffect, RestSpend
<1>6. ASSUME NEW address \in Addresses, NEW messageHash, NEW rpIds, NEW origins,
             NEW assertion \in taps, Verify(address, messageHash, rpIds, origins, assertion)
      PROVE  Rest'
  <2>1. /\ Exists(address)
        /\ Acceptable(address, assertion)
        /\ Spend(address, assertion)
        /\ UNCHANGED <<taps, counter, incarnation>>
    BY <1>6 DEF Verify, accessoryVars
  <2> QED
    BY <1>6, <2>1, VerifyEffect, RestSpend
<1>7. ASSUME NEW next \in Slots, AdvanceSlot(next)
      PROVE  Rest'
  BY <1>7, RestOutside DEF AdvanceSlot
<1>8. ASSUME NEW key \in Accessories, NEW challenge \in Challenges, NEW context \in Contexts,
             Tap(key, challenge, context)
      PROVE  Rest'
  BY <1>8, RestTap
<1>9. CASE UNCHANGED vars
  BY <1>9, RestOutside DEF vars, tokenVars, accessoryVars
<1> QED
  BY <1>1, <1>2, <1>3, <1>4, <1>5, <1>6, <1>7, <1>8, <1>9
     DEF Next, Issue, UseAssertion, Administer, Environment

(***************************************************************************)
(* The inductive invariant holds in every reachable state.                 *)
(***************************************************************************)
THEOREM InvCorrect == Spec => []Inv
<1>1. Init => Inv
  <2> SUFFICES ASSUME Init PROVE Inv
    OBVIOUS
  <2>1. TypeOK
    BY KeyAssumption, TokenAssumption
       DEF Init, TypeOK, ConfigInit, ConfigTypeOK, Slots, SignCounts
  <2> QED
    BY <2>1 DEF Init, Inv, TapsCounted, AccountsInPlace, AcceptedInPlace, AcceptedCovered,
                PermanentOwned, OwnerNamedByNewestTransfer, NextTapIsNewer, Exists, AcceptedBy
<1> QED
  BY <1>1, InvStep, PTL DEF Spec

-----------------------------------------------------------------------------
(***************************************************************************)
(* As far as the registry goes, the program does what AdminConfig says: no *)
(* token instruction, and nothing in the world around it, touches a role.  *)
(***************************************************************************)
THEOREM RegistryImplemented == Spec => ConfigSpec
<1>1. Init => ConfigInit
  BY DEF Init
<1>2. [Next]_vars => [ConfigNext]_adminConfig
  BY DEF Next, vars, ChangeRoles, Issue, UseAssertion, Administer, Environment, Initialize,
         SetOwner, Verify, ClosePhygitalToken, RemoveOwner, AssignMint, AdvanceSlot, Tap
<1> QED
  BY <1>1, <1>2, PTL DEF Spec, ConfigSpec

(***************************************************************************)
(* No key holds two roles, with the token instructions running as well.    *)
(***************************************************************************)
THEOREM ProgramRolesSeparate == Spec => []RolesSeparate
BY RegistryImplemented, RolesAlwaysSeparate, PTL

(***************************************************************************)
(* The owner of a Bearer or Controlled token was named by the newest       *)
(* transfer tap its account accepted.                                      *)
(***************************************************************************)
THEOREM OwnerAlwaysNamed == Spec => []OwnerNamedByNewestTransfer
<1>1. Inv => OwnerNamedByNewestTransfer
  BY DEF Inv
<1> QED
  BY <1>1, InvCorrect, PTL

(***************************************************************************)
(* The count an account records was reached by a tap of its accessory.     *)
(***************************************************************************)
THEOREM NextTapAlwaysNewer == Spec => []NextTapIsNewer
<1>1. Inv => NextTapIsNewer
  BY DEF Inv
<1> QED
  BY <1>1, InvCorrect, PTL

(***************************************************************************)
(* No assertion is ever accepted by two accounts at different addresses,   *)
(* those that were closed since included.                                  *)
(***************************************************************************)
THEOREM AlwaysSpentOnOneToken == Spec => []SpentOnOneToken
<1>1. Inv => SpentOnOneToken
  BY DEF Inv, AcceptedInPlace, SpentOnOneToken
<1> QED
  BY <1>1, InvCorrect, PTL

(***************************************************************************)
(* All a step can do to an account that stays: leave its count and give up *)
(* its owner at most, or spend an assertion newer than its count, by its   *)
(* own passkey, and change the owner only to the one a recent transfer tap *)
(* names.                                                                  *)
(***************************************************************************)
Moved(address) ==
    \E spent \in AcceptedBy(address)' \ AcceptedBy(address) :
        /\ spent \in Assertion
        /\ spent.signCount > token[address].lastSignCount
        /\ spent.key = token[address].publicKey
        /\ \/ token'[address].owner = token[address].owner
           \/ /\ ~IsLocked(token[address])
              /\ spent.context.userPresent
              /\ \E recent \in slotHashes :
                    spent.challenge = SetOwnerChallenge(address, token'[address].owner, recent)

Kept(address) ==
    /\ token'[address].lastSignCount = token[address].lastSignCount
    /\ \/ token'[address].owner = token[address].owner
       \/ /\ token'[address].owner = DefaultKey
          /\ token[address].tokenType # "Permanent"

SameIdentity(address) ==
    /\ token'[address].tokenType = token[address].tokenType
    /\ token'[address].publicKey = token[address].publicKey
    /\ token'[address].identifier = token[address].identifier

(***************************************************************************)
(* An assertion newer than the count of an account was not accepted by it  *)
(* before; once spent, it is.                                              *)
(***************************************************************************)
LEMMA SpentIsNew ==
    ASSUME Inv, NEW address \in Addresses, NEW assertion \in taps, Exists(address),
           Acceptable(address, assertion), Spend(address, assertion), UNCHANGED incarnation
    PROVE  /\ assertion \in AcceptedBy(address)' \ AcceptedBy(address)
           /\ assertion \in Assertion
           /\ assertion.signCount > token[address].lastSignCount
           /\ assertion.key = token[address].publicKey
<1>1. /\ assertion \in Assertion
      /\ token[address] \in Token
  BY DEF Inv, TypeOK, Exists
<1>2. assertion.signCount \in Int /\ token[address].lastSignCount \in Int
  BY <1>1 DEF Assertion, Token, SignCounts
<1>3. /\ assertion.signCount > token[address].lastSignCount
      /\ assertion.key = token[address].publicKey
  BY DEF Acceptable
<1>4. assertion \in AcceptedBy(address)'
  BY AcceptedBySpend
<1>5. assertion \notin AcceptedBy(address)
  BY <1>2, <1>3 DEF Inv, AcceptedCovered
<1> QED
  BY <1>1, <1>3, <1>4, <1>5

(***************************************************************************)
(* Every step of the program leaves an account that stays with its         *)
(* identity, and either keeps or moves it.                                 *)
(***************************************************************************)
LEMMA AccountStep ==
    ASSUME Inv, [Next]_vars, NEW address \in Addresses, SameAccount(address)
    PROVE  SameIdentity(address) /\ (Kept(address) \/ Moved(address))
<1> USE DEF SameAccount
<1>1. ASSUME UNCHANGED token[address]
      PROVE  SameIdentity(address) /\ Kept(address)
  BY <1>1 DEF SameIdentity, Kept
<1>2. TypeOK /\ token \in [Addresses -> Token \cup {NoToken}]
  BY DEF Inv, TypeOK
<1>3. ASSUME NEW other \in Addresses, NEW edited, token' = [token EXCEPT ![other] = edited],
             other # address
      PROVE  SameIdentity(address) /\ Kept(address)
  BY <1>1, <1>2, <1>3
<1>4. ASSUME NEW signer \in Pubkeys, NEW identifier \in Identifiers,
             NEW publicKey \in PublicKeys, NEW tokenType \in TokenTypes,
             NEW owner \in AnyKey,
             Initialize(signer, identifier, publicKey, tokenType, owner)
      PROVE  SameIdentity(address) /\ Kept(address)
  <2>1. Pda[publicKey] \in Addresses /\ Pda[publicKey] # address
    BY <1>4, TokenAssumption DEF Initialize
  <2> QED
    BY <1>4, <2>1, <1>3 DEF Initialize
<1>5. ASSUME NEW signer \in Pubkeys, NEW other \in Addresses, ClosePhygitalToken(signer, other)
      PROVE  SameIdentity(address) /\ Kept(address)
  <2>1. other # address
    BY <1>5, <1>2 DEF ClosePhygitalToken, Exists
  <2> QED
    BY <1>5, <2>1, <1>3 DEF ClosePhygitalToken
<1>6. ASSUME NEW signer \in Pubkeys, NEW other \in Addresses,
             NEW mint \in Mints \cup {DefaultKey},
             AssignMint(signer, other, mint) \/ RemoveOwner(signer, other)
      PROVE  SameIdentity(address) /\ Kept(address)
  <2>1. PICK edited \in Token :
            /\ token' = [token EXCEPT ![other] = edited]
            /\ edited.lastSignCount = token[other].lastSignCount
            /\ edited.tokenType = token[other].tokenType
            /\ edited.publicKey = token[other].publicKey
            /\ edited.identifier = token[other].identifier
            /\ \/ edited.owner = token[other].owner
               \/ edited.owner = DefaultKey /\ edited.tokenType # "Permanent"
    BY <1>6, <1>2, EditEffect
  <2>2. CASE other = address
    BY <2>1, <2>2, <1>2 DEF SameIdentity, Kept
  <2> QED
    BY <2>1, <2>2, <1>3
<1>7. ASSUME NEW recipient \in Pubkeys, NEW other \in Addresses, NEW slotNumber \in Slots,
             NEW assertion \in taps, SetOwner(recipient, other, slotNumber, assertion)
      PROVE  SameIdentity(address) /\ (Kept(address) \/ Moved(address))
  <2>1. PICK edited \in Token :
            /\ token' = [token EXCEPT ![other] = edited]
            /\ edited.tokenType = token[other].tokenType
            /\ edited.publicKey = token[other].publicKey
            /\ edited.identifier = token[other].identifier
            /\ edited.owner = recipient
    BY <1>7, <1>2, SetOwnerEffect
  <2>2. ASSUME other = address
        PROVE  SameIdentity(address) /\ Moved(address)
    <3>1. token'[address] = edited
      BY <2>1, <2>2, <1>2
    <3>2. /\ assertion \in AcceptedBy(address)' \ AcceptedBy(address)
          /\ assertion \in Assertion
          /\ assertion.signCount > token[address].lastSignCount
          /\ assertion.key = token[address].publicKey
      BY <1>7, <2>2, SpentIsNew DEF SetOwner
    <3>3. /\ ~IsLocked(token[address])
          /\ assertion.context.userPresent
          /\ slotNumber \in slotHashes
          /\ assertion.challenge = SetOwnerChallenge(address, token'[address].owner, slotNumber)
      BY <1>7, <2>1, <2>2, <3>1 DEF SetOwner, VerifyWebauthnAssertion
    <3>4. Moved(address)
      BY <3>2, <3>3 DEF Moved
    <3> QED
      BY <2>1, <2>2, <3>1, <3>4 DEF SameIdentity
  <2> QED
    BY <2>1, <2>2, <1>3
<1>8. ASSUME NEW other \in Addresses, NEW messageHash, NEW rpIds, NEW origins,
             NEW assertion \in taps, Verify(other, messageHash, rpIds, origins, assertion)
      PROVE  SameIdentity(address) /\ (Kept(address) \/ Moved(address))
  <2>1. PICK edited \in Token :
            /\ token' = [token EXCEPT ![other] = edited]
            /\ edited.tokenType = token[other].tokenType
            /\ edited.publicKey = token[other].publicKey
            /\ edited.identifier = token[other].identifier
            /\ edited.owner = token[other].owner
    BY <1>8, <1>2, VerifyEffect
  <2>2. ASSUME other = address
        PROVE  SameIdentity(address) /\ Moved(address)
    <3>1. token'[address] = edited
      BY <2>1, <2>2, <1>2
    <3>2. /\ assertion \in AcceptedBy(address)' \ AcceptedBy(address)
          /\ assertion \in Assertion
          /\ assertion.signCount > token[address].lastSignCount
          /\ assertion.key = token[address].publicKey
      BY <1>8, <2>2, SpentIsNew DEF Verify
    <3>3. token'[address].owner = token[address].owner
      BY <2>1, <2>2, <3>1
    <3>4. Moved(address)
      BY <3>2, <3>3 DEF Moved
    <3> QED
      BY <2>1, <2>2, <3>1, <3>4 DEF SameIdentity
  <2> QED
    BY <2>1, <2>2, <1>3
<1>9. ASSUME UNCHANGED token
      PROVE  SameIdentity(address) /\ Kept(address)
  BY <1>1, <1>9
<1>10. CASE ChangeRoles
  BY <1>9, <1>10 DEF ChangeRoles, tokenVars
<1>11. CASE Environment
  BY <1>9, <1>11 DEF Environment, AdvanceSlot, Tap, tokenVars
<1>12. CASE UNCHANGED vars
  BY <1>9, <1>12 DEF vars
<1> QED
  BY <1>4, <1>5, <1>6, <1>7, <1>8, <1>10, <1>11, <1>12
     DEF Next, Issue, UseAssertion, Administer

(***************************************************************************)
(* An account spends each assertion at most once, the newest last.         *)
(***************************************************************************)
THEOREM AlwaysSingleUse == Spec => SingleUse
<1> DEFINE Once ==
      \A address \in Addresses :
        /\ SameAccount(address)
        /\ \/ token'[address].lastSignCount # token[address].lastSignCount
           \/ token'[address].owner \notin {token[address].owner, DefaultKey}
        => \E spent \in AcceptedBy(address)' \ AcceptedBy(address) :
            \A earlier \in AcceptedBy(address) : earlier.signCount < spent.signCount
<1>1. Inv /\ [Next]_vars => [Once]_vars
  <2> SUFFICES ASSUME Inv, [Next]_vars, NEW address \in Addresses, SameAccount(address),
                      \/ token'[address].lastSignCount # token[address].lastSignCount
                      \/ token'[address].owner \notin {token[address].owner, DefaultKey}
               PROVE  \E spent \in AcceptedBy(address)' \ AcceptedBy(address) :
                        \A earlier \in AcceptedBy(address) : earlier.signCount < spent.signCount
    OBVIOUS
  <2>1. Moved(address)
    BY AccountStep DEF Kept
  <2>2. PICK spent \in AcceptedBy(address)' \ AcceptedBy(address) :
            spent \in Assertion /\ spent.signCount > token[address].lastSignCount
    BY <2>1 DEF Moved
  <2>3. token[address].lastSignCount \in Int
    BY DEF Inv, TypeOK, SameAccount, Exists, Token, SignCounts
  <2>4. \A earlier \in AcceptedBy(address) :
            earlier.signCount \in Int /\ earlier.signCount <= token[address].lastSignCount
    BY AcceptedByType DEF Inv, AcceptedCovered, SameAccount, Assertion, SignCounts
  <2>5. spent.signCount \in Int
    BY <2>2 DEF Assertion, SignCounts
  <2>6. \A earlier \in AcceptedBy(address) : earlier.signCount < spent.signCount
    BY <2>2, <2>3, <2>4, <2>5
  <2> QED
    BY <2>6
<1> QED
  BY <1>1, InvCorrect, PTL DEF Spec, SingleUse

(***************************************************************************)
(* A token moves by a tap over this token, this recipient and a recent     *)
(* slot, with the user present.                                            *)
(***************************************************************************)
THEOREM AlwaysTransferAsTapped == Spec => TransferAsTapped
<1> DEFINE AsTapped ==
      \A address \in Addresses :
        /\ SameAccount(address)
        /\ token'[address].owner \notin {token[address].owner, DefaultKey}
        => \E spent \in AcceptedBy(address)' \ AcceptedBy(address) :
            /\ spent.key = token[address].publicKey
            /\ spent.context.userPresent
            /\ \E recent \in slotHashes :
                spent.challenge = SetOwnerChallenge(address, token'[address].owner, recent)
<1>1. Inv /\ [Next]_vars => [AsTapped]_vars
  BY AccountStep DEF Kept, Moved
<1> QED
  BY <1>1, InvCorrect, PTL DEF Spec, TransferAsTapped

(***************************************************************************)
(* A locked token changes hands only by being given up, a Permanent one    *)
(* never, and an account keeps its identity.                               *)
(***************************************************************************)
THEOREM LockedAlwaysStays == Spec => LockedStays
<1> DEFINE Stays ==
      \A address \in Addresses :
        SameAccount(address) =>
            /\ /\ token[address].tokenType # "Bearer"
               /\ token[address].owner # DefaultKey
               => token'[address].owner \in {token[address].owner, DefaultKey}
            /\ token[address].tokenType = "Permanent" =>
                /\ token[address].owner # DefaultKey
                /\ token'[address].owner = token[address].owner
            /\ \A field \in {"tokenType", "publicKey", "identifier"} :
                token'[address][field] = token[address][field]
<1>1. Inv /\ [Next]_vars => [Stays]_vars
  <2> SUFFICES ASSUME Inv, [Next]_vars, NEW address \in Addresses, SameAccount(address)
               PROVE  /\ /\ token[address].tokenType # "Bearer"
                         /\ token[address].owner # DefaultKey
                         => token'[address].owner \in {token[address].owner, DefaultKey}
                      /\ token[address].tokenType = "Permanent" =>
                            /\ token[address].owner # DefaultKey
                            /\ token'[address].owner = token[address].owner
                      /\ \A field \in {"tokenType", "publicKey", "identifier"} :
                            token'[address][field] = token[address][field]
    OBVIOUS
  <2>1. SameIdentity(address) /\ (Kept(address) \/ Moved(address))
    BY AccountStep
  <2>2. /\ token[address].tokenType # "Bearer"
        /\ token[address].owner # DefaultKey
        => token'[address].owner \in {token[address].owner, DefaultKey}
    BY <2>1 DEF Kept, Moved, IsLocked
  <2>3. token[address].tokenType = "Permanent" => token[address].owner # DefaultKey
    BY DEF Inv, PermanentOwned, SameAccount
  <2>4. token[address].tokenType = "Permanent" => token'[address].owner = token[address].owner
    BY <2>1, <2>3 DEF Kept, Moved, IsLocked
  <2>5. \A field \in {"tokenType", "publicKey", "identifier"} :
            token'[address][field] = token[address][field]
    BY <2>1 DEF SameIdentity
  <2> QED
    BY <2>2, <2>3, <2>4, <2>5
<1> QED
  BY <1>1, InvCorrect, PTL DEF Spec, LockedStays

-----------------------------------------------------------------------------
(***************************************************************************)
(* The program keeps the promise of Ownership.                             *)
(***************************************************************************)

(***************************************************************************)
(* The parts of a challenge that asks for a transfer.                      *)
(***************************************************************************)
LEMMA TransferShape ==
    ASSUME NEW challenge \in Challenges, challenge[1] = "transfer"
    PROVE  /\ challenge[2] \in Addresses
           /\ challenge[3] \in Pubkeys
           /\ challenge[4] \in Slots
<1>1. challenge \notin {"verify"} \X MessageHashes
  OBVIOUS
<1>2. challenge \in {"transfer"} \X Addresses \X Pubkeys \X Slots
  BY <1>1 DEF Challenges
<1> QED
  BY <1>2

(***************************************************************************)
(* Taps are made over slots that are past.                                 *)
(***************************************************************************)
LEMMA PastStep == TypeOK /\ TapsOfPast /\ [Next]_vars => TapsOfPast'
<1> SUFFICES ASSUME TypeOK, TapsOfPast, [Next]_vars
             PROVE  TapsOfPast'
  OBVIOUS
<1>1. slot \in Int /\ slotHashes \subseteq 0 .. (slot - 1)
  BY DEF TypeOK, Slots
<1>2. ASSUME UNCHANGED <<taps, slot>>
      PROVE  TapsOfPast'
  BY <1>2 DEF TapsOfPast
<1>3. ASSUME NEW key \in Accessories, NEW challenge \in Challenges, NEW context \in Contexts,
             Tap(key, challenge, context)
      PROVE  TapsOfPast'
  <2> DEFINE tap == [key |-> key, signCount |-> counter[key] + 1,
                     challenge |-> challenge, context |-> context]
  <2>1. taps' = taps \cup {tap} /\ slot' = slot
    BY <1>3 DEF Tap, chainVars
  <2>2. tap.challenge = challenge
    OBVIOUS
  <2>3. challenge[1] = "transfer" => challenge[4] \in 0 .. (slot - 1)
    BY <1>1, <1>3 DEF Tap
  <2>4. challenge[1] = "transfer" => challenge[4] < slot
    BY <1>1, <2>3
  <2>5. IsTransfer(tap) => tap.challenge[4] < slot
    BY <2>2, <2>4 DEF IsTransfer
  <2> QED
    BY <2>1, <2>5 DEF TapsOfPast
<1>4. ASSUME NEW next \in Slots, AdvanceSlot(next)
      PROVE  TapsOfPast'
  <2>1. next \in Int /\ next > slot /\ slot' = next /\ taps' = taps
    BY <1>1, <1>4 DEF AdvanceSlot, Slots, accessoryVars
  <2>2. ASSUME NEW tap \in taps, IsTransfer(tap)
        PROVE  tap.challenge[4] < next
    <3>1. tap.challenge[4] \in Int
      BY <2>2, TransferShape DEF TypeOK, Assertion, IsTransfer, Slots
    <3> QED
      BY <1>1, <2>1, <2>2, <3>1 DEF TapsOfPast
  <2> QED
    BY <2>1, <2>2 DEF TapsOfPast
<1>5. CASE ChangeRoles \/ UNCHANGED vars
  BY <1>2, <1>5 DEF ChangeRoles, vars, chainVars, accessoryVars
<1>6. CASE Issue \/ UseAssertion \/ Administer
  BY <1>2, <1>6 DEF Issue, UseAssertion, Administer, Initialize, SetOwner, Verify,
     ClosePhygitalToken, RemoveOwner, AssignMint, chainVars, accessoryVars
<1> QED
  BY <1>3, <1>4, <1>5, <1>6 DEF Next, Environment

(***************************************************************************)
(* The deed at an address changes as its account does, and no other.       *)
(***************************************************************************)
LEMMA DeedEdited ==
    ASSUME TypeOK, NEW address \in Addresses, NEW edited \in Token,
           token' = [token EXCEPT ![address] = edited]
    PROVE  Deeds' = [Deeds EXCEPT ![address] = DeedOf(edited)]
<1>1. token \in [Addresses -> Token \cup {NoToken}] /\ edited # NoToken
  BY TokenAssumption DEF TypeOK
<1> QED
  BY <1>1 DEF Deeds, Exists

(***************************************************************************)
(* What an account is and what its deed says.                              *)
(***************************************************************************)
LEMMA DeedOfAccount ==
    ASSUME TypeOK, NEW address \in Addresses, Exists(address)
    PROVE  /\ Deeds[address] = DeedOf(token[address])
           /\ Deeds[address] # NoToken
           /\ token[address] \in Token
<1>1. token[address] \in Token
  BY DEF TypeOK, Exists
<1>2. DeedOf(token[address]) \in Deed
  BY <1>1 DEF DeedOf, Deed, Token
<1>3. Deeds[address] = DeedOf(token[address])
  BY DEF Deeds
<1> QED
  BY <1>1, <1>2, <1>3, TokenAssumption

(***************************************************************************)
(* Without taps and slots, no wish comes or lapses.                        *)
(***************************************************************************)
LEMMA WishesStay ==
    ASSUME UNCHANGED <<taps, slotHashes>>
    PROVE  Wishes' = Wishes
BY DEF Wishes, Wishful

(***************************************************************************)
(* The accounts under administration: deeds issued, revoked, given up.     *)
(***************************************************************************)
LEMMA IssueRefines ==
    ASSUME Inv, NEW signer \in Pubkeys, NEW identifier \in Identifiers,
           NEW publicKey \in PublicKeys, NEW tokenType \in TokenTypes, NEW owner \in AnyKey,
           Initialize(signer, identifier, publicKey, tokenType, owner)
    PROVE  Promise!Issue(Pda[publicKey])
<1> DEFINE address == Pda[publicKey]
<1> DEFINE created == [owner |-> owner, mint |-> DefaultKey, lastSignCount |-> 0,
                       tokenType |-> tokenType, publicKey |-> publicKey,
                       identifier |-> identifier]
<1>1. address \in Addresses /\ created \in Token
  BY TokenAssumption DEF Token, SignCounts
<1>2. TypeOK /\ token' = [token EXCEPT ![address] = created]
  BY DEF Inv, Initialize
<1>3. Deeds' = [Deeds EXCEPT ![address] = DeedOf(created)]
  BY <1>1, <1>2, DeedEdited
<1>4. DeedOf(created) = [key |-> publicKey, kind |-> tokenType, owner |-> owner, settled |-> 0]
  BY DEF DeedOf
<1>5. Deeds[address] = NoToken
  BY <1>1 DEF Initialize, Deeds
<1>6. counter' = counter /\ Wishes' = Wishes
  BY WishesStay DEF Initialize, chainVars, accessoryVars
<1>7. tokenType \in Promise!Kinds /\ owner \in Pubkeys \cup {DefaultKey}
  BY DEF Promise!Kinds, TokenTypes, AnyKey
<1>8. tokenType = "Permanent" <=> owner # DefaultKey
  BY DEF Initialize
<1> QED
  BY <1>3, <1>4, <1>5, <1>6, <1>7, <1>8 DEF Promise!Issue

LEMMA CloseRefines ==
    ASSUME Inv, NEW signer \in Pubkeys, NEW address \in Addresses,
           ClosePhygitalToken(signer, address)
    PROVE  Promise!Revoke(address)
<1>1. Exists(address) /\ TypeOK
  BY DEF ClosePhygitalToken, Inv
<1>2. Deeds[address] # NoToken
  BY <1>1, DeedOfAccount
<1>3. token' = [token EXCEPT ![address] = NoToken]
  BY DEF ClosePhygitalToken
<1>4. token \in [Addresses -> Token \cup {NoToken}]
  BY <1>1 DEF TypeOK
<1>5. Deeds' = [Deeds EXCEPT ![address] = NoToken]
  BY <1>3, <1>4 DEF Deeds, Exists
<1>6. counter' = counter /\ Wishes' = Wishes
  BY WishesStay DEF ClosePhygitalToken, chainVars, accessoryVars
<1> QED
  BY <1>2, <1>5, <1>6 DEF Promise!Revoke

LEMMA EditRefines ==
    ASSUME Inv, NEW signer \in Pubkeys, NEW address \in Addresses,
           NEW mint \in Mints \cup {DefaultKey},
           AssignMint(signer, address, mint) \/ RemoveOwner(signer, address)
    PROVE  Promise!GiveUp(address) \/ UNCHANGED <<Deeds, counter, Wishes>>
<1>1. Exists(address) /\ TypeOK
  BY DEF AssignMint, RemoveOwner, Inv
<1>2. PICK edited \in Token :
        /\ token' = [token EXCEPT ![address] = edited]
        /\ edited.lastSignCount = token[address].lastSignCount
        /\ edited.tokenType = token[address].tokenType
        /\ edited.publicKey = token[address].publicKey
        /\ edited.identifier = token[address].identifier
        /\ \/ edited.owner = token[address].owner
           \/ edited.owner = DefaultKey /\ edited.tokenType # "Permanent"
  BY <1>1, EditEffect
<1>3. Deeds' = [Deeds EXCEPT ![address] = DeedOf(edited)]
  BY <1>1, <1>2, DeedEdited
<1>4. Deeds[address] = DeedOf(token[address]) /\ Deeds[address] # NoToken
  BY <1>1, DeedOfAccount
<1>5. counter' = counter /\ Wishes' = Wishes
  BY WishesStay DEF AssignMint, RemoveOwner, chainVars, accessoryVars
<1>6. CASE edited.owner = token[address].owner
  <2>1. DeedOf(edited) = Deeds[address]
    BY <1>2, <1>4, <1>6 DEF DeedOf
  <2>2. Deeds' = Deeds
    BY <1>3, <2>1 DEF Deeds
  <2> QED
    BY <1>5, <2>2
<1>7. CASE edited.owner = DefaultKey /\ edited.tokenType # "Permanent"
  <2>1. DeedOf(edited) = [Deeds[address] EXCEPT !.owner = DefaultKey]
    BY <1>2, <1>4, <1>7 DEF DeedOf
  <2>2. Deeds[address].kind # "Permanent"
    BY <1>2, <1>4, <1>7 DEF DeedOf
  <2> QED
    BY <1>3, <1>4, <1>5, <2>1, <2>2 DEF Promise!GiveUp
<1> QED
  BY <1>2, <1>6, <1>7

(***************************************************************************)
(* set_owner carries out a wish.                                           *)
(***************************************************************************)
LEMMA SetOwnerRefines ==
    ASSUME Inv, NEW recipient \in Pubkeys, NEW address \in Addresses, NEW slotNumber \in Slots,
           NEW assertion \in taps, SetOwner(recipient, address, slotNumber, assertion)
    PROVE  \E wish \in Wishes : Promise!Give(address, wish)
<1> DEFINE wish == [accessory |-> assertion.key, address |-> assertion.challenge[2],
                    recipient |-> assertion.challenge[3], order |-> assertion.signCount]
<1>1. Exists(address) /\ TypeOK
  BY DEF SetOwner, Inv
<1>2. PICK edited \in Token :
        /\ token' = [token EXCEPT ![address] = edited]
        /\ edited.lastSignCount = assertion.signCount
        /\ edited.tokenType = token[address].tokenType
        /\ edited.publicKey = token[address].publicKey
        /\ edited.owner = recipient
  BY <1>1, SetOwnerEffect
<1>3. Deeds' = [Deeds EXCEPT ![address] = DeedOf(edited)]
  BY <1>1, <1>2, DeedEdited
<1>4. Deeds[address] = DeedOf(token[address]) /\ Deeds[address] # NoToken
  BY <1>1, DeedOfAccount
<1>5. assertion.challenge = <<"transfer", address, recipient, slotNumber>>
  BY DEF SetOwner, VerifyWebauthnAssertion, SetOwnerChallenge
<1>6. wish \in Wishes
  <2>1. Wishful(assertion)
    BY <1>5 DEF SetOwner, VerifyWebauthnAssertion, Wishful, IsTransfer
  <2> QED
    BY <2>1 DEF Wishes
<1>7. wish.address = address /\ wish.recipient = recipient
  BY <1>5
<1>8. wish.accessory = Deeds[address].key /\ wish.order > Deeds[address].settled
  BY <1>4 DEF SetOwner, Acceptable, DeedOf
<1>9. ~Promise!Locked(Deeds[address])
  BY <1>4 DEF SetOwner, IsLocked, Promise!Locked, DeedOf
<1>10. DeedOf(edited) =
         [Promise!SettledAt(Deeds[address], wish.order) EXCEPT !.owner = wish.recipient]
  <2> DEFINE given == [key |-> token[address].publicKey, kind |-> token[address].tokenType,
                       owner |-> recipient, settled |-> assertion.signCount]
  <2>1. DeedOf(edited) = given
    BY <1>2 DEF DeedOf
  <2> DEFINE settled == [key |-> token[address].publicKey, kind |-> token[address].tokenType,
                         owner |-> token[address].owner, settled |-> assertion.signCount]
  <2>2. Promise!SettledAt(DeedOf(token[address]), assertion.signCount) = settled
    BY DEF DeedOf, Promise!SettledAt
  <2>3. [settled EXCEPT !.owner = recipient] = given
    OBVIOUS
  <2>4. wish.order = assertion.signCount
    OBVIOUS
  <2> QED
    BY <1>4, <1>7, <2>1, <2>2, <2>4, <2>3
<1>11. counter' = counter /\ Wishes' = Wishes
  BY WishesStay DEF SetOwner, chainVars, accessoryVars
<1>12. Promise!Give(address, wish)
  BY <1>3, <1>4, <1>7, <1>8, <1>9, <1>10, <1>11 DEF Promise!Give
<1> QED
  BY <1>6, <1>12

(***************************************************************************)
(* verify settles what came before.                                        *)
(***************************************************************************)
LEMMA VerifyRefines ==
    ASSUME Inv, NEW address \in Addresses, NEW messageHash, NEW rpIds, NEW origins,
           NEW assertion \in taps, Verify(address, messageHash, rpIds, origins, assertion)
    PROVE  Promise!Settle(address)
<1>1. Exists(address) /\ TypeOK
  BY DEF Verify, Inv
<1>2. PICK edited \in Token :
        /\ token' = [token EXCEPT ![address] = edited]
        /\ edited.lastSignCount = assertion.signCount
        /\ edited.tokenType = token[address].tokenType
        /\ edited.publicKey = token[address].publicKey
        /\ edited.owner = token[address].owner
  BY <1>1, VerifyEffect
<1>3. Deeds' = [Deeds EXCEPT ![address] = DeedOf(edited)]
  BY <1>1, <1>2, DeedEdited
<1>4. /\ Deeds[address] = DeedOf(token[address])
      /\ Deeds[address] # NoToken
      /\ token[address] \in Token
  BY <1>1, DeedOfAccount
<1>5. Deeds[address].key = assertion.key
  BY <1>4 DEF Verify, Acceptable, DeedOf
<1>6. /\ assertion.key \in Accessories
      /\ assertion.signCount <= counter[assertion.key]
  BY DEF Inv, TapsCounted
<1>7. /\ assertion.signCount \in Int
      /\ Deeds[address].settled \in Int
      /\ counter[assertion.key] \in Int
  BY <1>1, <1>4, <1>6 DEF TypeOK, Assertion, Token, SignCounts, DeedOf
<1>8. assertion.signCount > Deeds[address].settled
  BY <1>4 DEF Verify, Acceptable, DeedOf
<1>9. assertion.signCount \in (Deeds[address].settled + 1) .. counter[Deeds[address].key]
  BY <1>5, <1>6, <1>7, <1>8
<1>10. DeedOf(edited) = Promise!SettledAt(Deeds[address], assertion.signCount)
  BY <1>2, <1>4 DEF DeedOf, Promise!SettledAt
<1>11. Deeds' = [Deeds EXCEPT ![address] = Promise!SettledAt(@, assertion.signCount)]
  BY <1>3, <1>10
<1>12. counter' = counter /\ Wishes' = Wishes
  BY WishesStay DEF Verify, chainVars, accessoryVars
<1> QED
  BY <1>4, <1>5, <1>6, <1>9, <1>11, <1>12 DEF Promise!Settle

(***************************************************************************)
(* A tap is the next of its accessory, and may express one wish.           *)
(***************************************************************************)
LEMMA TapRefines ==
    ASSUME Inv, NEW key \in Accessories, NEW challenge \in Challenges, NEW context \in Contexts,
           Tap(key, challenge, context)
    PROVE  Promise!Tap(key)
<1> DEFINE tap == [key |-> key, signCount |-> counter[key] + 1,
                   challenge |-> challenge, context |-> context]
<1> DEFINE wish == [accessory |-> key, address |-> challenge[2],
                    recipient |-> challenge[3], order |-> counter[key] + 1]
<1>1. /\ counter' = [counter EXCEPT ![key] = @ + 1]
      /\ taps' = taps \cup {tap}
      /\ slotHashes' = slotHashes
      /\ token' = token
  BY DEF Tap, chainVars, tokenVars
<1>2. Deeds' = Deeds
  BY <1>1 DEF Deeds, Exists
<1>3. counter'[key] = counter[key] + 1
  BY <1>1 DEF Inv, TypeOK
<1>4. \A t : Wishful(t)' <=> Wishful(t)
  BY <1>1 DEF Wishful
<1>5. CASE ~Wishful(tap)
  <2>1. {t \in taps' : Wishful(t)'} = {t \in taps : Wishful(t)}
    BY <1>1, <1>4, <1>5
  <2>2. Wishes' = Wishes
    BY <2>1 DEF Wishes
  <2> QED
    BY <1>1, <1>2, <2>2 DEF Promise!Tap
<1>6. CASE Wishful(tap)
  <2>1. {t \in taps' : Wishful(t)'} = {t \in taps : Wishful(t)} \cup {tap}
    BY <1>1, <1>4, <1>6
  <2>2. Wishes' = Wishes \cup {wish}
    <3> DEFINE Of(t) == [accessory |-> t.key, address |-> t.challenge[2],
                         recipient |-> t.challenge[3], order |-> t.signCount]
    <3>1. Of(tap) = wish
      OBVIOUS
    <3>2. Wishes = {Of(t) : t \in {t \in taps : Wishful(t)}}
      BY DEF Wishes
    <3>3. Wishes' = {Of(t) : t \in {t \in taps : Wishful(t)} \cup {tap}}
      BY <2>1 DEF Wishes
    <3> HIDE DEF Of
    <3> QED
      BY <3>1, <3>2, <3>3
  <2>3. challenge[1] = "transfer"
    BY <1>6 DEF Wishful, IsTransfer
  <2>4. challenge[2] \in Addresses /\ challenge[3] \in Pubkeys
    BY <2>3, TransferShape
  <2>5. wish = Promise!Wish(key, challenge[2], challenge[3], counter'[key])
    BY <1>3 DEF Promise!Wish
  <2> QED
    BY <1>1, <1>2, <2>2, <2>4, <2>5 DEF Promise!Tap
<1> QED
  BY <1>5, <1>6

(***************************************************************************)
(* As slots pass, wishes lapse.                                            *)
(***************************************************************************)
LEMMA AdvanceRefines ==
    ASSUME Inv, TapsOfPast, NEW next \in Slots, AdvanceSlot(next)
    PROVE  Promise!Lapse
<1>1. /\ slotHashes' \subseteq slotHashes \cup {slot}
      /\ taps' = taps /\ counter' = counter /\ token' = token
  BY DEF AdvanceSlot, Newest, accessoryVars, tokenVars
<1>2. slot \in Int
  BY DEF Inv, TypeOK, Slots
<1>3. Deeds' = Deeds
  BY <1>1 DEF Deeds, Exists
<1>4. ASSUME NEW tap \in taps, Wishful(tap)'
      PROVE  Wishful(tap)
  <2>1. IsTransfer(tap) /\ tap.challenge[4] < slot
    BY <1>4 DEF Wishful, TapsOfPast
  <2>2. tap.challenge[4] # slot
    BY <1>2, <2>1
  <2> QED
    BY <1>1, <1>4, <2>1, <2>2 DEF Wishful
<1>5. {t \in taps' : Wishful(t)'} \subseteq {t \in taps : Wishful(t)}
  BY <1>1, <1>4
<1>6. Wishes' \subseteq Wishes
  BY <1>5 DEF Wishes
<1> QED
  BY <1>1, <1>3, <1>6 DEF Promise!Lapse

(***************************************************************************)
(* Every step of the program and its world is a step of Ownership, or      *)
(* none.                                                                   *)
(***************************************************************************)
LEMMA OwnershipStep == Inv /\ TapsOfPast /\ [Next]_vars => [Promise!Next]_(Promise!vars)
<1> SUFFICES ASSUME Inv, TapsOfPast, [Next]_vars
             PROVE  [Promise!Next]_(Promise!vars)
  OBVIOUS
<1>1. ASSUME UNCHANGED <<token, counter, taps, slotHashes>>
      PROVE  UNCHANGED Promise!vars
  BY <1>1, WishesStay DEF Promise!vars, Deeds, Exists
<1>2. CASE ChangeRoles \/ UNCHANGED vars
  BY <1>1, <1>2 DEF ChangeRoles, vars, tokenVars, chainVars, accessoryVars
<1>3. CASE Issue
  <2>1. PICK publicKey \in PublicKeys : Promise!Issue(Pda[publicKey])
    BY <1>3, IssueRefines DEF Issue
  <2> QED
    BY <2>1, TokenAssumption DEF Promise!Next
<1>4. CASE UseAssertion
  <2>1. PICK address \in Addresses :
            \/ \E wish \in Wishes : Promise!Give(address, wish)
            \/ Promise!Settle(address)
    BY <1>4, SetOwnerRefines, VerifyRefines DEF UseAssertion
  <2> QED
    BY <2>1 DEF Promise!Next
<1>5. CASE Administer
  <2>1. PICK address \in Addresses :
            \/ Promise!Revoke(address)
            \/ Promise!GiveUp(address)
            \/ UNCHANGED <<Deeds, counter, Wishes>>
    BY <1>5, CloseRefines, EditRefines DEF Administer
  <2> QED
    BY <2>1 DEF Promise!Next, Promise!vars
<1>6. CASE Environment
  BY <1>6, TapRefines, AdvanceRefines DEF Environment, Promise!Next
<1> QED
  BY <1>2, <1>3, <1>4, <1>5, <1>6 DEF Next

(***************************************************************************)
(* The program implements Ownership: accounts, sign counts and recent      *)
(* transfer taps are deeds, their order and the wishes.                    *)
(***************************************************************************)
THEOREM OwnershipAlwaysKept == Spec => OwnershipKept
<1>1. Init => Promise!Init
  <2> SUFFICES ASSUME Init
               PROVE  Promise!Init
    OBVIOUS
  <2>1. Deeds = [address \in Addresses |-> NoToken]
    BY DEF Init, Deeds, Exists
  <2>2. Wishes = {}
    BY DEF Init, Wishes
  <2> QED
    BY <2>1, <2>2 DEF Init, Promise!Init
<1>2. Init => TapsOfPast
  BY DEF Init, TapsOfPast
<1>3. Spec => []TapsOfPast
  BY <1>2, PastStep, TokenTypeCorrect, PTL DEF Spec
<1> QED
  BY <1>1, <1>3, OwnershipStep, InvCorrect, PTL DEF Spec, OwnershipKept, Promise!Spec

-----------------------------------------------------------------------------
(* The binary search finds what a lookup would, for every window.          *)

(***************************************************************************)
(* The middle of a range that is not empty lies in it, and either side of  *)
(* it holds at most half of the range.                                     *)
(***************************************************************************)
LEMMA Middle ==
    ASSUME NEW l \in Nat, NEW r \in Nat, l < r, NEW m, m = l + (r - l) \div 2
    PROVE  /\ m \in Nat
           /\ l <= m
           /\ m < r
           /\ 2 * (r - (m + 1)) <= r - l
           /\ 2 * (m - l) <= r - l
OBVIOUS

(***************************************************************************)
(* A probe at an entry of the window either finds the slot or leaves an    *)
(* entry above it on the left and an entry below it on the right.          *)
(***************************************************************************)
LEMMA ProbeStep ==
    ASSUME SearchInv, Probe
    PROVE  /\ mid \in 0 .. count - 1
           /\ left <= mid
           /\ mid < right
           /\ \/ answer' = wanted /\ entry[mid] = wanted /\ UNCHANGED <<left, right>>
              \/ answer' = answer /\ entry[mid] > wanted /\ left' = mid + 1 /\ right' = right
              \/ answer' = answer /\ entry[mid] < wanted /\ left' = left /\ right' = mid
<1>1. left \in Nat /\ right \in Nat /\ left < right /\ right <= count /\ count \in Nat
  BY SearchAssumption DEF SearchInv, SearchTypeOK, Probe
<1>2. mid \in Nat /\ left <= mid /\ mid < right
  BY <1>1, Middle DEF mid
<1> HIDE DEF mid
<1> QED
  BY <1>1, <1>2 DEF Probe, NarrowUp, NarrowDown

(***************************************************************************)
(* The loop invariant is kept by every step.                               *)
(***************************************************************************)
LEMMA SearchInvStep == SearchInv /\ [SearchNext]_searchVars => SearchInv'
<1> SUFFICES ASSUME SearchInv, [SearchNext]_searchVars
             PROVE  SearchInv'
  OBVIOUS
<1> USE SearchAssumption
<1>1. CASE RefuseEmpty \/ GiveUp \/ UNCHANGED searchVars
  BY <1>1 DEF RefuseEmpty, GiveUp, searchVars, SearchInv, SearchTypeOK, RuledOut, SlotHashes
<1>2. CASE Probe
  <2> DEFINE m == mid
  <2>1. /\ m \in 0 .. count - 1
        /\ left <= m
        /\ m < right
        /\ \/ answer' = wanted /\ entry[m] = wanted /\ UNCHANGED <<left, right>>
           \/ answer' = answer /\ entry[m] > wanted /\ left' = m + 1 /\ right' = right
           \/ answer' = answer /\ entry[m] < wanted /\ left' = left /\ right' = m
    BY <1>2, ProbeStep
  <2>2. UNCHANGED <<count, entry, wanted>>
    BY <1>2 DEF Probe
  <2> HIDE DEF m
  <2>3. /\ count \in Nat /\ count <= Capacity
        /\ left \in Nat /\ left <= right /\ right \in Nat /\ right <= count
        /\ wanted \in Nat
        /\ \A i \in 0 .. Capacity - 1 : entry[i] \in Nat
        /\ \A i \in 0 .. count - 1 : \A j \in i + 1 .. count - 1 : entry[i] > entry[j]
        /\ \A i \in 0 .. left - 1 : entry[i] > wanted
        /\ \A i \in right .. count - 1 : entry[i] < wanted
    <3>1. count \in Nat /\ count <= Capacity /\ wanted \in Nat
      BY DEF SearchInv, SearchTypeOK
    <3>2. left \in Nat /\ left <= right /\ right \in Nat /\ right <= count
      BY <3>1 DEF SearchInv, SearchTypeOK, RuledOut
    <3>3. \A i \in 0 .. Capacity - 1 : entry[i] \in Nat
      BY DEF SearchInv, SearchTypeOK
    <3> QED
      BY <3>1, <3>2, <3>3 DEF SearchInv, SearchTypeOK, RuledOut, SlotHashes
  <2>4. SearchTypeOK'
    BY <2>1, <2>2, <2>3 DEF SearchInv, SearchTypeOK, SlotHashes
  <2>5. entry[m] > wanted => \A i \in 0 .. m : entry[i] > wanted
    <3> SUFFICES ASSUME entry[m] > wanted, NEW i \in 0 .. m PROVE entry[i] > wanted
      OBVIOUS
    <3>1. CASE i = m
      BY <3>1
    <3>2. CASE i < m
      BY <2>1, <2>3, <3>2
    <3> QED
      BY <2>1, <3>1, <3>2
  <2>6. entry[m] < wanted => \A i \in m .. count - 1 : entry[i] < wanted
    <3> SUFFICES ASSUME entry[m] < wanted, NEW i \in m .. count - 1 PROVE entry[i] < wanted
      OBVIOUS
    <3>1. CASE i = m
      BY <3>1
    <3>2. CASE i > m
      BY <2>1, <2>3, <3>2
    <3> QED
      BY <2>1, <3>1, <3>2
  <2>7. RuledOut'
    BY <2>1, <2>2, <2>3, <2>5, <2>6 DEF RuledOut
  <2> QED
    BY <2>4, <2>7 DEF SearchInv
<1> QED
  BY <1>1, <1>2 DEF SearchNext

(***************************************************************************)
(* What was ruled out stays ruled out, in a search that is well typed.     *)
(***************************************************************************)
THEOREM SearchInvCorrect == SearchSpec => []SearchInv
<1>1. SearchInit => SearchInv
  BY SearchAssumption DEF SearchInit, SearchInv, SearchTypeOK, RuledOut, SlotHashes
<1> QED
  BY <1>1, SearchInvStep, PTL DEF SearchSpec

(***************************************************************************)
(* The state of the search is always well typed, its bounds inside the     *)
(* window.                                                                 *)
(***************************************************************************)
THEOREM SearchTypeCorrect == SearchSpec => []SearchTypeOK
<1>1. SearchInv => SearchTypeOK
  BY DEF SearchInv
<1> QED
  BY <1>1, SearchInvCorrect, PTL

(***************************************************************************)
(* The binary search implements the lookup: the hash returned is that of   *)
(* the slot asked for, and only a slot outside the window is refused.      *)
(***************************************************************************)
THEOREM SearchIsLookup == SearchSpec => IsLookup
<1> DEFINE window == {entry[i] : i \in 0 .. count - 1}
<1>1. SearchInit => Lookup!Init
  BY DEF SearchInit, Lookup!Init
<1>2. SearchInv /\ [SearchNext]_searchVars => [Lookup!Answer]_<<window, wanted, answer>>
  <2> SUFFICES ASSUME SearchInv, [SearchNext]_searchVars
               PROVE  Lookup!Answer \/ UNCHANGED <<window, wanted, answer>>
    OBVIOUS
  <2>1. UNCHANGED <<count, entry, wanted>>
    BY DEF SearchNext, RefuseEmpty, Probe, GiveUp, searchVars
  <2>2. UNCHANGED window
    BY <2>1
  <2>3. CASE RefuseEmpty
    <3>1. window = {}
      BY <2>3 DEF RefuseEmpty
    <3> QED
      BY <2>1, <2>2, <2>3, <3>1 DEF RefuseEmpty, Lookup!Answer
  <2>4. CASE Probe
    <3>1. /\ mid \in 0 .. count - 1
          /\ \/ answer' = wanted /\ entry[mid] = wanted
             \/ answer' = answer
      BY <2>4, ProbeStep
    <3>2. CASE answer' = wanted /\ entry[mid] = wanted
      <4>1. wanted \in window
        BY <3>1, <3>2
      <4> QED
        BY <2>1, <2>2, <2>4, <3>2, <4>1 DEF Lookup!Answer, Probe
    <3> QED
      BY <2>1, <2>2, <3>1, <3>2
  <2>5. CASE GiveUp
    <3>1. \A i \in 0 .. count - 1 : entry[i] # wanted
      BY <2>5, SearchAssumption DEF GiveUp, SearchInv, SearchTypeOK, RuledOut
    <3>2. wanted \notin window
      BY <3>1
    <3> QED
      BY <2>1, <2>2, <2>5, <3>2 DEF GiveUp, Lookup!Answer
  <2> QED
    BY <2>1, <2>2, <2>3, <2>4, <2>5 DEF SearchNext, searchVars
<1> QED
  BY <1>1, <1>2, SearchInvCorrect, PTL DEF SearchSpec, IsLookup, Lookup!Spec

(***************************************************************************)
(* A probe that does not answer halves the search, so that a window of n   *)
(* entries takes at most 1 + log2(n) probes.                               *)
(***************************************************************************)
THEOREM ProbesHalve == SearchSpec => Halves
<1>1. SearchInv /\ [SearchNext]_searchVars => [answer' = Pending => 2 * (right' - left') <= right - left]_searchVars
  <2> SUFFICES ASSUME SearchInv, SearchNext, answer' = Pending
               PROVE  2 * (right' - left') <= right - left
    OBVIOUS
  <2>1. Probe
    BY SearchAssumption DEF SearchNext, RefuseEmpty, GiveUp
  <2>2. left \in Nat /\ right \in Nat /\ left < right /\ wanted \in Nat
    BY <2>1, SearchAssumption DEF SearchInv, SearchTypeOK, Probe
  <2>3. /\ 2 * (right - (mid + 1)) <= right - left
        /\ 2 * (mid - left) <= right - left
    BY <2>2, Middle DEF mid
  <2> HIDE DEF mid
  <2>4. \/ left' = mid + 1 /\ right' = right
        \/ left' = left /\ right' = mid
    BY <2>1, <2>2, ProbeStep, SearchAssumption
  <2> QED
    BY <2>3, <2>4
<1> QED
  BY <1>1, SearchInvCorrect, PTL DEF SearchSpec, Halves
=============================================================================
