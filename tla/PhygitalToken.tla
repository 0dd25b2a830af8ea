---------------------------- MODULE PhygitalToken ----------------------------
(***************************************************************************)
(* The phygital-token program: one account per physical accessory, changed *)
(* by its six token instructions, and the world those instructions depend  *)
(* on: the role registry (AdminConfig), the runtime's clock and SlotHashes *)
(* sysvar, and the accessories, whose taps produce WebAuthn assertions.    *)
(*                                                                         *)
(* Whoever submits a transaction is trusted with nothing: every assertion  *)
(* an accessory ever produced may be submitted at any later time, in any   *)
(* order and any number of times.  What submitters cannot do is sign for   *)
(* somebody else: the precompile vouches for the key and message of an     *)
(* assertion, so the assertions that reach the program are those in taps.  *)
(* Hashes are modelled as free constructors.                               *)
(***************************************************************************)
EXTENDS AdminConfig, Integers, FiniteSets

CONSTANTS
    PublicKeys,         \* passkeys: compressed points, prefix byte included
    Accessories,        \* those whose private key a chip holds
    Addresses,          \* token PDAs, one for each x coordinate
    Pda,                \* the address derived from the x of a passkey
    Identifiers,        \* the issuer's names for accessories
    Mints,              \* keys a token's mint may be set to
    MessageHashes,      \* what callers of verify ask an accessory to sign
    RpIds, Origins,     \* where a tap can be requested
    Contexts,           \* type, user-present flag, rpId and origin of taps
    Window,             \* entries the SlotHashes sysvar keeps (512)
    NoToken,            \* no account at the address
    MaxSignCount,       \* bound: an accessory's largest count (u32::MAX)
    MaxSlot,            \* bound: the last slot
    MaxIncarnation      \* bound: accounts created at one address

TokenTypes == {"Permanent", "Bearer", "Controlled"}

SignCounts == 0 .. MaxSignCount

Slots == 0 .. MaxSlot

Token == [owner : AnyKey, mint : Mints \cup {DefaultKey},
          lastSignCount : SignCounts, tokenType : TokenTypes,
          publicKey : PublicKeys, identifier : Identifiers]

(* What Ownership keeps of an account. *)
Deed == [key : PublicKeys, kind : TokenTypes, owner : AnyKey, settled : SignCounts]

ASSUME TokenAssumption ==
    /\ Accessories \subseteq PublicKeys
    /\ Pda \in [PublicKeys -> Addresses]
    /\ Contexts \subseteq [type : {"webauthn.get", "webauthn.create"},
                           userPresent : BOOLEAN, rpId : RpIds, origin : Origins]
    /\ Window \in Nat \ {0}
    /\ MaxSignCount \in Nat
    /\ MaxSlot \in Nat \ {0}
    /\ MaxIncarnation \in Nat
    /\ NoToken \notin Token \cup Deed

VARIABLES
    token,          \* the account at each address
    slot,           \* the slot being executed
    slotHashes,     \* the slots whose hash the SlotHashes sysvar holds
    counter,        \* each accessory's WebAuthn sign count
    taps,           \* every assertion made so far
    incarnation,    \* history: accounts created at each address so far
    accepted        \* history: the assertions each account accepted

tokenVars == <<token, incarnation, accepted>>
chainVars == <<slot, slotHashes>>
accessoryVars == <<counter, taps>>
vars == <<adminConfig, token, slot, slotHashes, counter, taps, incarnation, accepted>>

(***************************************************************************)
(* The challenges.  Each starts with its own domain tag.                   *)
(***************************************************************************)
SetOwnerChallenge(address, recipient, slotNumber) ==
    <<"transfer", address, recipient, slotNumber>>

VerifyChallenge(messageHash) == <<"verify", messageHash>>

Challenges ==
    ({"transfer"} \X Addresses \X Pubkeys \X Slots) \cup ({"verify"} \X MessageHashes)

Assertion == [key : PublicKeys, signCount : SignCounts,
              challenge : Challenges, context : Contexts]

IsTransfer(assertion) == assertion.challenge[1] = "transfer"

Recipient(assertion) == assertion.challenge[3]

Exists(address) == token[address] # NoToken

\* Faulty variant of the next definition: Controlled tokens never lock.
IsLockedIfPermanent(t) == t.tokenType = "Permanent" /\ t.owner # DefaultKey

IsLocked(t) == t.tokenType # "Bearer" /\ t.owner # DefaultKey

-----------------------------------------------------------------------------
(* The clock and the SlotHashes sysvar. *)

Newest(S, n) == {s \in S : Cardinality({t \in S : t > s}) < n}

(***************************************************************************)
(* The block of this slot is complete and its hash recorded; the next one  *)
(* is produced in a later slot, the slots between being skipped.  The      *)
(* sysvar keeps the newest Window entries.                                 *)
(***************************************************************************)
AdvanceSlot(next) ==
    /\ next \in (slot + 1) .. MaxSlot
    /\ slot' = next
    /\ slotHashes' = Newest(slotHashes \cup {slot}, Window)
    /\ UNCHANGED <<adminConfig, tokenVars, accessoryVars>>

(* The accessories. *)

(***************************************************************************)
(* A tap: the chip advances its count and signs the challenge it is given, *)
(* whoever asks.  A hash can only be asked for once its slot is over.      *)
(***************************************************************************)
Tap(key, challenge, context) ==
    /\ counter[key] < MaxSignCount
    /\ IF challenge[1] = "transfer" THEN challenge[4] \in slotHashes ELSE TRUE
    /\ counter' = [counter EXCEPT ![key] = @ + 1]
    /\ taps' = taps \cup {[key |-> key, signCount |-> counter[key] + 1,
                           challenge |-> challenge, context |-> context]}
    /\ UNCHANGED <<adminConfig, chainVars, tokenVars>>

-----------------------------------------------------------------------------
(* The token instructions. *)

(***************************************************************************)
(* initialize: the issuer creates the account at the address of a passkey. *)
(* Exactly the Permanent tokens start with an owner; the count starts at   *)
(* zero, the mint unset.                                                   *)
(***************************************************************************)
Initialize(signer, identifier, publicKey, tokenType, owner) ==
    LET address == Pda[publicKey] IN
    /\ IsIssuer(signer)
    /\ ~Exists(address)
    /\ tokenType = "Permanent" <=> owner # DefaultKey
    /\ incarnation[address] < MaxIncarnation
    /\ token' = [token EXCEPT ![address] =
                    [owner |-> owner, mint |-> DefaultKey, lastSignCount |-> 0,
                     tokenType |-> tokenType, publicKey |-> publicKey,
                     identifier |-> identifier]]
    /\ incarnation' = [incarnation EXCEPT ![address] = @ + 1]
    /\ UNCHANGED <<adminConfig, chainVars, accessoryVars, accepted>>

AssignMint(signer, address, mint) ==
    /\ IsMinter(signer)
    /\ Exists(address)
    /\ token' = [token EXCEPT ![address].mint = mint]
    /\ UNCHANGED <<adminConfig, chainVars, accessoryVars, incarnation, accepted>>

(***************************************************************************)
(* close_phygital_token: the account is deleted, its sign count with it.   *)
(***************************************************************************)
ClosePhygitalToken(signer, address) ==
    /\ IsAdmin(signer)
    /\ Exists(address)
    /\ token' = [token EXCEPT ![address] = NoToken]
    /\ UNCHANGED <<adminConfig, chainVars, accessoryVars, incarnation, accepted>>

\* Faulty variants of the next definition: a silent assertion, any challenge will do.
VerifyWebauthnAssertionSilent(assertion, challenge, rpIds, origins) ==
    /\ assertion.context.type = "webauthn.get"
    /\ assertion.challenge = challenge
    /\ assertion.context.origin \in origins
    /\ assertion.context.rpId \in rpIds

VerifyWebauthnAssertionUnbound(assertion, challenge, rpIds, origins) ==
    /\ assertion.context.type = "webauthn.get"
    /\ assertion.context.origin \in origins
    /\ assertion.context.userPresent
    /\ assertion.context.rpId \in rpIds

(***************************************************************************)
(* What set_owner and verify ask of an assertion.  An option the caller    *)
(* does not give allows every rpId, or every origin.                       *)
(***************************************************************************)
VerifyWebauthnAssertion(assertion, challenge, rpIds, origins) ==
    /\ assertion.context.type = "webauthn.get"
    /\ assertion.challenge = challenge
    /\ assertion.context.origin \in origins
    /\ assertion.context.userPresent
    /\ assertion.context.rpId \in rpIds

\* Faulty variants of the next definition: no count check, no key check.
AcceptableAtAnyCount(address, assertion) ==
    token[address].publicKey = assertion.key

AcceptableFromAnyKey(address, assertion) ==
    assertion.signCount > token[address].lastSignCount

(***************************************************************************)
(* accept_assertion: the assertion is by the token's own passkey and newer *)
(* than the last one accepted, whose count it replaces.                    *)
(***************************************************************************)
Acceptable(address, assertion) ==
    /\ token[address].publicKey = assertion.key
    /\ assertion.signCount > token[address].lastSignCount

\* Faulty variant of the next definition: the count expected next is stored.
AcceptAssertionPlusOne(t, assertion) == [t EXCEPT !.lastSignCount = assertion.signCount + 1]

AcceptAssertion(t, assertion) == [t EXCEPT !.lastSignCount = assertion.signCount]

Spend(address, assertion) ==
    accepted' = accepted \cup {[token |-> address, incarnation |-> incarnation[address],
                                assertion |-> assertion]}

(***************************************************************************)
(* set_owner: the recipient signs the transaction, and a tap that names    *)
(* this token, this recipient and a recent slot makes it the owner.        *)
(***************************************************************************)
SetOwner(recipient, address, slotNumber, assertion) ==
    /\ Exists(address)
    /\ ~IsLocked(token[address])
    /\ slotNumber \in slotHashes
    /\ VerifyWebauthnAssertion(assertion, SetOwnerChallenge(address, recipient, slotNumber),
                               RpIds, Origins)
    /\ Acceptable(address, assertion)
    /\ token' = [token EXCEPT ![address] =
                    [AcceptAssertion(@, assertion) EXCEPT !.owner = recipient]]
    /\ Spend(address, assertion)
    /\ UNCHANGED <<adminConfig, chainVars, accessoryVars, incarnation>>

(***************************************************************************)
(* verify: nobody signs.  The count of any token, locked ones included,    *)
(* follows a tap of its accessory over the caller's message.               *)
(***************************************************************************)
Verify(address, messageHash, rpIds, origins, assertion) ==
    /\ Exists(address)
    /\ VerifyWebauthnAssertion(assertion, VerifyChallenge(messageHash), rpIds, origins)
    /\ Acceptable(address, assertion)
    /\ token' = [token EXCEPT ![address] = AcceptAssertion(@, assertion)]
    /\ Spend(address, assertion)
    /\ UNCHANGED <<adminConfig, chainVars, accessoryVars, incarnation>>

RemoveOwner(signer, address) ==
    /\ Exists(address)
    /\ token[address].owner = signer
    /\ token[address].tokenType # "Permanent"
    /\ token' = [token EXCEPT ![address].owner = DefaultKey]
    /\ UNCHANGED <<adminConfig, chainVars, accessoryVars, incarnation, accepted>>

-----------------------------------------------------------------------------

Init ==
    /\ ConfigInit
    /\ token = [address \in Addresses |-> NoToken]
    /\ slot = 1
    /\ slotHashes = {0}
    /\ counter = [key \in Accessories |-> 0]
    /\ taps = {}
    /\ incarnation = [address \in Addresses |-> 0]
    /\ accepted = {}

ChangeRoles == ConfigNext /\ UNCHANGED <<tokenVars, chainVars, accessoryVars>>

Issue ==
    \E signer \in Pubkeys, identifier \in Identifiers, publicKey \in PublicKeys,
       tokenType \in TokenTypes, owner \in AnyKey :
        Initialize(signer, identifier, publicKey, tokenType, owner)

UseAssertion ==
    \E address \in Addresses, assertion \in taps :
        \/ \E recipient \in Pubkeys, slotNumber \in Slots :
            SetOwner(recipient, address, slotNumber, assertion)
        \/ \E messageHash \in MessageHashes, rpIds \in {RpIds} \cup {{r} : r \in RpIds},
              origins \in SUBSET Origins :
            Verify(address, messageHash, rpIds, origins, assertion)

Administer ==
    \E signer \in Pubkeys, address \in Addresses :
        \/ ClosePhygitalToken(signer, address)
        \/ RemoveOwner(signer, address)
        \/ \E mint \in Mints \cup {DefaultKey} : AssignMint(signer, address, mint)

Environment ==
    \/ \E next \in Slots : AdvanceSlot(next)
    \/ \E key \in Accessories, challenge \in Challenges, context \in Contexts :
        Tap(key, challenge, context)

Next == ChangeRoles \/ Issue \/ UseAssertion \/ Administer \/ Environment

Spec == Init /\ [][Next]_vars

-----------------------------------------------------------------------------

(* The shape of the accounts, the slot hashes, the taps and the histories. *)
TypeOK ==
    /\ ConfigTypeOK
    /\ token \in [Addresses -> Token \cup {NoToken}]
    /\ slot \in Slots
    /\ slotHashes \subseteq 0 .. (slot - 1)
    /\ counter \in [Accessories -> SignCounts]
    /\ taps \subseteq Assertion
    /\ incarnation \in [Addresses -> 0 .. MaxIncarnation]
    /\ accepted \subseteq [token : Addresses, incarnation : 0 .. MaxIncarnation,
                          assertion : taps]

(* The assertions the present account at an address has accepted. *)
AcceptedBy(address) ==
    {e.assertion : e \in {e \in accepted : /\ e.token = address
                                         /\ e.incarnation = incarnation[address]}}

(* A step in which the account at an address stays, and its new record. *)
SameAccount(address) == Exists(address) /\ Exists(address)' /\ UNCHANGED incarnation[address]

(***************************************************************************)
(* Each assertion is accepted at most once by an account, and accepting    *)
(* one rules out all that came before it, whichever instruction they were  *)
(* made for: a step that raises the count or gives the token to a new      *)
(* owner spends an assertion newer than every one spent before.            *)
(***************************************************************************)
SingleUse ==
    [][\A address \in Addresses :
        /\ SameAccount(address)
        /\ \/ token'[address].lastSignCount # token[address].lastSignCount
           \/ token'[address].owner \notin {token[address].owner, DefaultKey}
        => \E spent \in AcceptedBy(address)' \ AcceptedBy(address) :
            \A earlier \in AcceptedBy(address) : earlier.signCount < spent.signCount
      ]_vars

(***************************************************************************)
(* A tap moves a token only as its accessory's holder agreed to: the       *)
(* assertion spent by a change of owner was made for this very token and   *)
(* the new owner, in a tap with the user present, and over a slot hash     *)
(* that is still recent when the transaction executes.                     *)
(***************************************************************************)
TransferAsTapped ==
    [][\A address \in Addresses :
        /\ SameAccount(address)
        /\ token'[address].owner \notin {token[address].owner, DefaultKey}
        => \E spent \in AcceptedBy(address)' \ AcceptedBy(address) :
            /\ spent.key = token[address].publicKey
            /\ spent.context.userPresent
            /\ \E recent \in slotHashes :
                spent.challenge = SetOwnerChallenge(address, token'[address].owner, recent)
      ]_vars

(***************************************************************************)
(* Whoever holds a Bearer or Controlled token was named by a tap of its    *)
(* accessory that this account accepted, and by the newest one: neither    *)
(* verify nor any other instruction ever put somebody else in its place.   *)
(***************************************************************************)
OwnerNamedByNewestTransfer ==
    \A address \in Addresses :
        /\ Exists(address)
        /\ token[address].tokenType # "Permanent"
        /\ token[address].owner # DefaultKey
        => \E tap \in AcceptedBy(address) :
            /\ IsTransfer(tap)
            /\ Recipient(tap) = token[address].owner
            /\ \A other \in AcceptedBy(address) :
                IsTransfer(other) => other.signCount <= tap.signCount

(***************************************************************************)
(* A locked token leaves its owner's hands only when the owner gives it    *)
(* up, and a Permanent one never does; what the issuer chose for an        *)
(* account (type, passkey, identifier) lasts as long as the account.       *)
(***************************************************************************)
LockedStays ==
    [][\A address \in Addresses :
        SameAccount(address) =>
            /\ /\ token[address].tokenType # "Bearer"
               /\ token[address].owner # DefaultKey
               => token'[address].owner \in {token[address].owner, DefaultKey}
            /\ token[address].tokenType = "Permanent" =>
                /\ token[address].owner # DefaultKey
                /\ token'[address].owner = token[address].owner
            /\ \A field \in {"tokenType", "publicKey", "identifier"} :
                token'[address][field] = token[address][field]
      ]_vars

(***************************************************************************)
(* No account outruns its accessory: the recorded count was reached by a   *)
(* tap, so the accessory's next tap is always newer than it.  (A count     *)
(* stored too high would lock the accessory out.)                          *)
(***************************************************************************)
NextTapIsNewer ==
    \A address \in Addresses :
        /\ Exists(address)
        /\ token[address].lastSignCount > 0
        => \E tap \in taps :
            /\ tap.key = token[address].publicKey
            /\ tap.signCount = token[address].lastSignCount
            /\ tap.signCount <= counter[tap.key]

(***************************************************************************)
(* An assertion serves one token: no two accounts ever accept the same     *)
(* one, because an account is found at the address of its passkey.         *)
(***************************************************************************)
SpentOnOneToken ==
    \A e, f \in accepted : e.assertion = f.assertion => e.token = f.token

(***************************************************************************)
(* The promise: each account is a deed, whose order is the sign count; the *)
(* transfer taps over a slot hash that is still recent are the wishes.     *)
(***************************************************************************)
DeedOf(t) ==
    [key |-> t.publicKey, kind |-> t.tokenType, owner |-> t.owner, settled |-> t.lastSignCount]

Deeds == [address \in Addresses |-> IF Exists(address) THEN DeedOf(token[address]) ELSE NoToken]

(* In the browser, with the user present, and not too long ago. *)
Wishful(tap) ==
    /\ IsTransfer(tap)
    /\ tap.challenge[4] \in slotHashes
    /\ tap.context.type = "webauthn.get"
    /\ tap.context.userPresent

Wishes ==
    {[accessory |-> tap.key, address |-> tap.challenge[2], recipient |-> tap.challenge[3],
      order |-> tap.signCount] : tap \in {t \in taps : Wishful(t)}}

Promise == INSTANCE Ownership
    WITH Keys <- PublicKeys, Wallets <- Pubkeys, Nobody <- DefaultKey, NoDeed <- NoToken,
         deed <- Deeds, reached <- counter, wishes <- Wishes

(***************************************************************************)
(* The program keeps the promise of Ownership: an account changes hands by *)
(* the newest wish of its accessory that was carried out, never by one     *)
(* that was overtaken, used, lapsed or for something else, whatever is     *)
(* submitted, by whom and when.                                            *)
(***************************************************************************)
OwnershipKept == Promise!Spec

(***************************************************************************)
(* The inductive invariant: what holds the properties above together.      *)
(***************************************************************************)
TapsCounted ==
    \A tap \in taps :
        tap.key \in Accessories /\ tap.signCount > 0 /\ tap.signCount <= counter[tap.key]

AccountsInPlace ==
    \A address \in Addresses :
        Exists(address) => /\ Pda[token[address].publicKey] = address
                           /\ incarnation[address] > 0

AcceptedInPlace ==
    \A e \in accepted : /\ Pda[e.assertion.key] = e.token
                        /\ e.incarnation <= incarnation[e.token]

TapsOfPast ==
    \A tap \in taps : IsTransfer(tap) => tap.challenge[4] < slot

AcceptedCovered ==
    \A address \in Addresses : \A tap \in AcceptedBy(address) :
        Exists(address) => tap.signCount <= token[address].lastSignCount

PermanentOwned ==
    \A address \in Addresses :
        Exists(address) /\ token[address].tokenType = "Permanent"
        => token[address].owner # DefaultKey

Inv ==
    /\ TypeOK
    /\ TapsCounted
    /\ AccountsInPlace
    /\ AcceptedInPlace
    /\ AcceptedCovered
    /\ PermanentOwned
    /\ OwnerNamedByNewestTransfer
    /\ NextTapIsNewer
=============================================================================
