-------------------------- MODULE ProgramInterface --------------------------
(***************************************************************************)
(* A call from the client to the program and back.  The caller asks the    *)
(* SDK for an instruction and sends it, perhaps behind another program's;  *)
(* the program reads it and accepts or refuses; the client reads the       *)
(* instruction, the event, the error and the accounts that come of it.     *)
(* set_owner and verify take a tap, which travels in an instruction of its *)
(* own: there the SDK also builds the transaction.  The two sides are      *)
(* written apart, in TypeScript (ClientInterface, TapClient) and in Rust   *)
(* (ProgramEntry, Introspection), and agree through nothing but the bytes. *)
(***************************************************************************)
EXTENDS Wire

CONSTANTS
    Wallets,       \* addresses that people sign with or that name a mint
    Keys,          \* the passkeys of accessories
    Identifiers,   \* the chips' keys
    Arrays,        \* the arrays of earlier signatures a caller may start from
    MaxSignatures, \* those the precompile takes (eight, as deployed)
    MaxCalls       \* bound: transactions sent

\* One key at least: a first token is registered.
ASSUME InterfaceAssumption == Keys # {} /\ MaxSignatures \in Nat

C == INSTANCE TapClient
P == INSTANCE Introspection

VARIABLES
    stage,         \* "idle", "sent", "landed" or "failed"
    asked,         \* what the caller asked for last
    instructions,  \* the transaction it was sent in
    log,           \* the event of that transaction
    failure,       \* the instruction that failed, its code, and why
    accounts,      \* the accounts of the programs: address -> data
    before,        \* the accounts when the transaction was sent
    calls          \* transactions sent so far

vars == <<stage, asked, instructions, log, failure, accounts, before, calls>>

Ours == instructions[Len(instructions)]
Elsewhere(program) == IF program = Main THEN Other ELSE Main
Nothing == [stage |-> "nothing"]

----------------------------------------------------------------------------
(* What a caller may ask for.                                              *)

Somebody == CHOOSE w \in Wallets : TRUE

\* By a builder that derives nothing, or by the plugin set up for another
\* deployment, which a call may override.
Ways == {[builders |-> C!Synchronous, call |-> {}, plugin |-> {}],
         [builders |-> C!PhygitalTokenProgram, call |-> {}, plugin |-> {Other}],
         [builders |-> C!PhygitalTokenProgram, call |-> {Main}, plugin |-> {Other}]}

\* The values of an instruction; of initialize, those whose type and owner fit
\* each other: PhygitalToken has the program refuse the rest.
ValuesOf(name) ==
    CASE name = "Initialize" ->
            {v \in [identifier : Identifiers, secp256r1Pubkey : Keys,
                   tokenType : {"Permanent", "Bearer"}, owner : {Somebody, SystemProgram}] :
                v.tokenType = "Permanent" <=> v.owner # SystemProgram}
      [] name = "AssignMint" -> [mint : Wallets]
      [] name = "SetAdmin" -> [newAdmin : Wallets]
      [] name = "SetIssuer" -> [issuer : Wallets]
      [] name = "SetMinter" -> [minter : Wallets]
      [] OTHER -> {[none |-> <<>>]}

\* The accounts a builder leaves to the caller.
Needed(builder) ==
    {builder.accounts[i].name :
        i \in {n \in DOMAIN builder.accounts : builder.accounts[n].default = "none"}}

Given(builder, program, signer, rentRecipient, key, strayConfig) ==
    [name \in Needed(builder) |->
        CASE name = "phygitalToken" -> PhygitalTokenPda(program, key)
          [] name = "adminConfig" ->
                AdminConfigPda(IF strayConfig THEN Elsewhere(program) ELSE program)
          [] name = "rentRecipient" -> rentRecipient
          [] OTHER -> signer]

\* The type of a token goes out as its byte.
OnWire(values) ==
    IF "tokenType" \in DOMAIN values
    THEN [values EXCEPT !.tokenType = C!TypeByte(@)] ELSE values

\* Another program's instruction, with data of its own that begins as ours.
Stranger == Instruction(<<"program", "stranger">>, <<>>, [disc |-> 175, cells |-> <<>>])

\* A choice that only matters to instructions with a given account.
AnyOf(name, account, S) ==
    IF account \in Needed(C!Synchronous[name]) THEN S ELSE {CHOOSE x \in S : TRUE}

\* How an instruction and those it goes with go out: alone, behind or parted
\* by a stranger's, or from a client that leaves out the last account or adds
\* one.
Shapes == {"alone", "behind", "apart", "short", "longer"}
Listed(metas, shape) ==
    CASE shape = "short" -> SubSeq(metas, 1, Len(metas) - 1)
      [] shape = "longer" -> Append(metas, Meta(SystemProgram, {}))
      [] OTHER -> metas
Shaped(with, instruction, shape) ==
    LET last == [instruction EXCEPT !.metas = Listed(@, shape)]
    IN CASE shape = "behind" -> <<Stranger>> \o with \o <<last>>
         [] shape = "apart" -> with \o <<Stranger, last>>
         [] OTHER -> with \o <<last>>

Send(request, builder, with) ==
    /\ stage' = "sent"
    /\ calls' = calls + 1
    /\ asked' = request
    /\ instructions' = Shaped(with, C!Build(builder, request.program, request.given,
                                            OnWire(request.values)), request.shape)
    /\ before' = accounts
    /\ UNCHANGED <<log, failure, accounts>>

MayAsk == stage = "idle" /\ calls < MaxCalls

\* An instruction that takes no tap.
Ask ==
    /\ MayAsk
    /\ \E name \in DOMAIN C!Synchronous \ {"SetOwner", "Verify"}, way \in Ways,
          shape \in Shapes \ {"apart"} :
        \E signer \in Wallets, rentRecipient \in AnyOf(name, "rentRecipient", Wallets),
           key \in AnyOf(name, "phygitalToken", Keys), values \in ValuesOf(name),
           strayConfig \in {FALSE, "adminConfig" \in Needed(way.builders[name])} :
           LET program == C!ProgramOf(way.call, way.plugin)
               builder == way.builders[name]
           IN Send([name |-> name, program |-> program, values |-> values, key |-> key,
                    given |-> Given(builder, program, signer, rentRecipient, key, strayConfig),
                    stray |-> strayConfig, shape |-> shape, tap |-> {}],
                   builder, <<>>)

\* A tap of an accessory: the platform may hide its id, and a second key nobody
\* has may fit the signature.
NobodysKey == <<"key", 2, "nobody">>

\* Addresses have the x-coordinate of a key: accessories differ in it, from one
\* another and from whatever else a signature fits.  An array that a caller
\* gives holds any entries, or none.
ASSUME TapAssumption ==
    /\ \A j, k \in Keys : j[3] = k[3] => j = k
    /\ \A k \in Keys : k # C!Placeholder /\ k[3] # NobodysKey[3]
    /\ \A array \in Arrays :
        LET entries == array.entries
        IN /\ array \in [given : BOOLEAN, entries : Seq({entries[i] : i \in DOMAIN entries})]
           /\ \A i \in DOMAIN entries : entries[i].size \in Nat

Taps(challenge) ==
    LET tap(key, id, candidates) == [id |-> id, signer |-> key, candidates |-> candidates,
                                     challenge |-> challenge]
    IN UNION {{tap(key, key, {key}), tap(key, C!Placeholder, {key}),
               tap(key, C!Placeholder, {key, NobodysKey})} : key \in Keys}

\* The caller's array, to which a tap for another instruction may have been
\* added before.
Existing ==
    LET key == CHOOSE k \in Keys : TRUE
        earlier == [candidates |-> {key}, challenge |-> <<"earlier">>]
    IN Arrays \cup {C!BuildSecp256r1VerifyInstructionFromWebAuthnResponse(
                        key, earlier, array).existing : array \in Arrays}

Tapped(tap, id, existing) == {[tap |-> tap, id |-> id, existing |-> existing]}

\* beginTransfer names an accessory and a recipient, any accessory is tapped,
\* and completeTransfer is called for any wallet.
AskTransfer ==
    /\ MayAsk
    /\ \E key \in Keys, recipient, signer \in Wallets :
        LET session == C!BeginTransfer(key, recipient, <<"slot">>)
        IN \E tap \in Taps(session.challenge) :
            \E id \in C!AuthenticatePasskeyForTransfer(session, tap) :
            \E existing \in Existing, shape \in Shapes :
            \E built \in C!CompleteTransfer(session, id, tap, signer, existing) :
                Send([name |-> "SetOwner", program |-> Main, values |-> built.values,
                      key |-> key, given |-> built.given, stray |-> FALSE, shape |-> shape,
                      tap |-> Tapped(tap, id, existing)],
                     C!GetSetOwnerInstruction, <<built.instruction>>)

\* A tap for verify, from an accessory recognized by a list or on the chain,
\* whose caller says where the precompile instruction will be.
AskVerify ==
    /\ MayAsk
    /\ \E tap \in Taps(C!BuildVerifyChallenge(<<"messageHash">>)), rpc \in BOOLEAN :
        \E id \in C!ResolveCredentialId(tap, IF rpc THEN {} ELSE Keys, rpc, accounts) :
        \E existing \in Existing, shape \in Shapes, relative \in {-1, -2} :
            LET built == C!BuildSecp256r1VerifyInstruction(id, tap, existing, relative)
                args == built.secp256r1VerifyArgs
            IN Send([name |-> "Verify", program |-> Main, key |-> id, stray |-> FALSE,
                     values |-> [verifyArgsRelativeIndex |-> args.verifyArgsRelativeIndex,
                                 signedMessageIndex |-> args.signedMessageIndex,
                                 clientDataJson |-> args.clientDataJson,
                                 messageHash |-> <<"messageHash">>,
                                 expectedRpIdHash |-> <<"rp">>,
                                 expectedOrigins |-> <<"origins">>],
                     given |-> [phygitalToken |-> built.phygitalTokenPda],
                     shape |-> shape, tap |-> Tapped(tap, id, existing)],
                    C!GetVerifyInstruction, <<built.instruction>>)

----------------------------------------------------------------------------
(* What becomes of it.                                                     *)

Fail(index, code, why) ==
    /\ stage' = "failed"
    /\ failure' = [index |-> index, code |-> code, why |-> why]
    /\ UNCHANGED <<asked, instructions, log, accounts, before, calls>>

\* The precompile instructions are checked before any program runs: one that
\* does not verify fails the transaction, with a number that is one of ours.
Verifies(instruction) ==
    instruction.program = Secp256r1Program => P!PrecompileVerifies(instruction.data)
Verified == \A i \in DOMAIN instructions : Verifies(instructions[i])

PrecompileFails ==
    /\ stage = "sent"
    /\ \E i \in DOMAIN instructions :
        /\ ~Verifies(instructions[i])
        /\ Fail(i, P!Code("StaleSignCount"), "precompile")

\* The other program fails, with a number of its own that is one of ours.
StrangerFails ==
    /\ stage = "sent"
    /\ \E i \in DOMAIN instructions :
        /\ instructions[i] = Stranger
        /\ Fail(i, P!Code("StaleSignCount"), "stranger")

\* Anchor refuses before the handler runs.
Refuse ==
    /\ stage = "sent" /\ ~P!Admitted(Ours, accounts)
    /\ Fail(Len(instructions), 3000, "refused")

Locked == P!IsLocked(P!Token(P!Call(Ours), accounts))

TakesTap(name) == name \in {"SetOwner", "Verify"}
TapError == P!TapError(instructions, P!Call(Ours), accounts)

\* The handler returns one of its errors: the lock and what is wrong with the
\* way to the tap are tracked here, the others may always be.
Reject(error) ==
    /\ error \in P!FoundErrors => error = TapError
    /\ P!Call(Ours).name = "SetOwner" => (error = "TokenIsCurrentlyLocked" <=> Locked)
    /\ Fail(Len(instructions), P!Code(error), error)

Accept ==
    /\ stage = "sent" /\ P!Admitted(Ours, accounts)
    /\ P!Call(Ours).name = "SetOwner" => ~Locked
    /\ TakesTap(P!Call(Ours).name) => TapError = "none"
    /\ LET outcome == P!Handle(P!Call(Ours), accounts)
       IN accounts' = outcome.accounts /\ log' = outcome.event
    /\ stage' = "landed"
    /\ UNCHANGED <<asked, instructions, failure, before, calls>>

\* What the programs make of a transaction whose signatures were verified.
Run ==
    \/ StrangerFails
    \/ Refuse
    \/ /\ stage = "sent" /\ P!Admitted(Ours, accounts)
       /\ \E error \in P!Errors[P!Call(Ours).name] : Reject(error)
    \/ Accept

\* The caller is done with it.
Done ==
    /\ stage \in {"landed", "failed"}
    /\ stage' = "idle"
    /\ asked' = Nothing /\ failure' = Nothing
    /\ instructions' = <<>> /\ log' = P!NoEvent /\ before' = <<>>
    /\ UNCHANGED <<accounts, calls>>

\* A registry as create_config leaves it, and a token after initialize.
WithRegistry(program, others) ==
    P!Handle([name |-> "CreateConfig",
              accounts |-> [authority |-> Somebody, adminConfig |-> AdminConfigPda(program)]],
             others).accounts
WithToken(others) ==
    LET key == CHOOSE k \in Keys : TRUE
    IN P!Handle([name |-> "Initialize",
                 accounts |-> [authority |-> Somebody,
                               phygitalToken |-> PhygitalTokenPda(Main, key)],
                 values |-> [identifier |-> CHOOSE i \in Identifiers : TRUE,
                             secp256r1Pubkey |-> key, owner |-> SystemProgram,
                             tokenType |-> P!TypeByte("Controlled")]], others).accounts

\* Nothing yet, or both deployments set up and a first token registered.
Init ==
    /\ stage = "idle" /\ asked = Nothing /\ instructions = <<>>
    /\ log = P!NoEvent /\ failure = Nothing
    /\ accounts \in {<<>>, WithToken(WithRegistry(Main, WithRegistry(Other, <<>>)))}
    /\ before = <<>> /\ calls = 0

Next ==
    \/ Ask
    \/ AskTransfer
    \/ AskVerify
    \/ PrecompileFails
    \/ stage = "sent" /\ Verified /\ Run
    \/ Done

Spec == Init /\ [][Next]_vars

----------------------------------------------------------------------------
(* Properties.                                                             *)

Token(at) == C!FetchPhygitalToken(at, PhygitalTokenPda(asked.program, asked.key))
Config(at) == C!FetchAdminConfig(at, AdminConfigPda(asked.program))
HasConfig == AdminConfigPda(asked.program) \in DOMAIN accounts
HasToken == PhygitalTokenPda(asked.program, asked.key) \in DOMAIN accounts

\* What a caller has to get right: every account there, those of the program
\* called, and a token where one is needed or none where one is created.
AskedWell ==
    /\ asked.shape # "short" /\ ~asked.stray
    /\ CASE asked.name = "CreateConfig" -> ~HasConfig
         [] asked.name \in {"SetAdmin", "SetIssuer", "SetMinter"} -> HasConfig
         [] asked.name \in {"ClosePhygitalToken", "AssignMint"} -> HasConfig /\ HasToken
         [] asked.name = "Initialize" ->
                HasConfig /\ ~HasToken /\ asked.values.secp256r1Pubkey[3] = asked.key[3]
         [] OTHER -> HasToken

\* A call the SDK was asked for well reaches the handler of that name, with
\* every account and value under the name the caller gave it, and any other
\* is refused before a handler runs: the builders' order, rights, defaults
\* and layouts are those of the Rust structs, for each deployment.
ArrivesAsMeant ==
    stage = "sent" =>
        /\ P!Admitted(Ours, accounts) <=> AskedWell
        /\ AskedWell =>
            LET call == P!Call(Ours)
            IN /\ call.name = asked.name /\ call.program = asked.program
               /\ \A n \in DOMAIN asked.given : call.accounts[n] = asked.given[n]
               /\ \A n \in DOMAIN call.values :
                    call.values[n] = IF n = "tokenType" THEN P!TypeByte(asked.values[n])
                                     ELSE asked.values[n]

\* Whoever parses the instructions of a transaction with the client reads the
\* call the program made of them, and nothing where the program found none.
ReadAsRun ==
    stage = "sent" =>
        LET read == C!ParsePhygitalTokenInstruction(Ours)
        IN /\ read.name # "unreadable" <=> P!Legible(Ours)
           /\ P!Legible(Ours) => read = P!Call(Ours)

\* The event a client reads says who acted and what changed: the roles of
\* the registry and the fields of the token before or after the call.
EventTellsChange ==
    stage = "landed" /\ asked.name # "Verify" =>
        LET event == C!ParseEvent(log)
            past == asked.name \in {"ClosePhygitalToken", "RemoveOwner", "SetOwner"}
        IN /\ event.name = asked.name
           /\ \A n \in DOMAIN event.values : event.values[n] =
                CASE n \in {"authority", "rentRecipient", "recipient"} -> asked.given[n]
                  [] n = "admin" -> asked.given.admin
                  [] n = "previousAdmin" -> Config(before).admin
                  [] n = "newAdmin" -> Config(accounts).admin
                  [] n \in {"issuer", "minter"} -> Config(accounts)[n]
                  [] n = "owner" /\ asked.name = "RemoveOwner" -> asked.given.owner
                  [] OTHER -> Token(IF past THEN before ELSE accounts)[n]

\* A failure is taken for an error of the program exactly when the program
\* called returned that error: not another program's number, not another
\* error, and at every deployment.
ErrorsNamedRight ==
    stage = "failed" =>
        \A i \in DOMAIN C!PhygitalTokenErrors :
            LET error == C!PhygitalTokenErrors[i]
            IN C!IsPhygitalTokenError(failure, instructions, error, {asked.program})
                   <=> error = failure.why

\* A tap sent as the SDK says, with the precompile instruction where the
\* caller told the program to look, is the accessory's that was tapped and is
\* found there: its key, its message and the challenge are those expected,
\* whatever id the platform reported.  The precompile lets it pass exactly if
\* the signatures in the caller's array are good and leave room for one more.
\* Sent anywhere else it is not found, and into an array that the caller gave
\* empty it is not written.
TapIsFound ==
    stage = "sent" /\ asked.tap # {} /\ AskedWell =>
        LET sent == CHOOSE t \in asked.tap : TRUE
            earlier == sent.existing.entries
            lost == sent.existing.given /\ earlier = <<>>
            placed == asked.values.verifyArgsRelativeIndex =
                        IF asked.shape = "apart" THEN -2 ELSE -1
        IN /\ sent.id = sent.tap.signer
           /\ Verified <=> /\ ~lost /\ Len(earlier) < MaxSignatures
                           /\ \A i \in DOMAIN earlier :
                                P!SignedBy(earlier[i].signature, earlier[i].publicKey,
                                           earlier[i].message)
           /\ TapError = IF ~placed THEN "InvalidSecp256r1Instruction"
                         ELSE IF lost THEN "SignatureIndexOutOfBounds" ELSE "none"

TokensOfMain == {P!Token([accounts |-> [phygitalToken |-> a]], accounts) :
                    a \in {b \in DOMAIN accounts :
                            b[2] = Main /\ accounts[b].disc = P!PhygitalToken.disc}}

\* What a query for one token may answer: one of the tokens that have what was
\* asked for, which of them is the node's choice, and null only if none has.
OneOf(answers, tokens) ==
    /\ answers # {}
    /\ \A answer \in answers :
        IF tokens = {} THEN answer = {} ELSE \E token \in tokens : answer = {token}

\* The client's queries read the tokens of the main deployment as the program
\* reads them: by owner every token of that owner and no other; by identifier
\* and by mint, which tokens may share, one that has it, and null only where
\* none has; and the client reports a token as locked exactly when set_owner
\* would refuse it so.
AccountsReadTrue ==
    stage = "idle" =>
    /\ \A w \in Wallets \cup {SystemProgram} :
        /\ C!FetchPhygitalTokensByOwner(accounts, w) = {t \in TokensOfMain : t.owner = w}
        /\ OneOf(C!FetchPhygitalTokenByMint(accounts, w), {t \in TokensOfMain : t.mint = w})
    /\ \A k \in Identifiers :
        OneOf(C!FetchPhygitalTokenByIdentifier(accounts, k),
              {t \in TokensOfMain : t.identifier = k})
    /\ \A t \in TokensOfMain : C!IsPhygitalTokenLocked(t) <=> P!IsLocked(t)

----------------------------------------------------------------------------
(* The inductive invariant.                                                *)

Deployments == {Main, Other}
WellFormed(data, layout) == data = P!Encode(layout, P!Decode(layout.fields, data))

\* Every account is the registry or a token of a deployment, at its address.
InPlace(data) ==
    \A a \in DOMAIN data : \E program \in Deployments :
        \/ a = AdminConfigPda(program) /\ WellFormed(data[a], P!AdminConfig)
        \/ /\ \E key \in Keys : a = PhygitalTokenPda(program, key)
           /\ WellFormed(data[a], P!PhygitalToken)

\* What is asked for names accounts of the deployment called, or a registry
\* that is not its own, and every value the program reads.
AskedFor ==
    /\ asked.program \in Deployments /\ asked.name \in DOMAIN P!Entries
    /\ asked.stray => "adminConfig" \in DOMAIN asked.given
    /\ asked.name = "Initialize" => asked.key \in Keys /\ asked.values.secp256r1Pubkey \in Keys
    /\ "phygitalToken" \in DOMAIN asked.given =>
            asked.given.phygitalToken = PhygitalTokenPda(asked.program, asked.key)
    /\ "adminConfig" \in DOMAIN asked.given =>
            asked.given.adminConfig =
                AdminConfigPda(IF asked.stray THEN Elsewhere(asked.program) ELSE asked.program)
    /\ P!Names(P!Entries[asked.name].params) \subseteq DOMAIN asked.values

\* It was sent as a builder made it, last in its transaction.
SentAsBuilt ==
    \E builder \in {C!Synchronous[asked.name], C!PhygitalTokenProgram[asked.name]} :
        LET built == C!Build(builder, asked.program, asked.given, OnWire(asked.values))
        IN /\ DOMAIN asked.given = Needed(builder)
           /\ instructions # <<>>
           /\ Ours = [built EXCEPT !.metas = Listed(@, asked.shape)]

Handled ==
    /\ P!Admitted(Ours, before)
    /\ LET outcome == P!Handle(P!Call(Ours), before)
       IN accounts = outcome.accounts /\ log = outcome.event

\* The precompile or a stranger's instruction failed, or the last one was
\* refused or returned an error of the program.
FailedSo ==
    \/ /\ failure.index \in DOMAIN instructions
       /\ instructions[failure.index] = Stranger
       /\ failure.why = "stranger"
    \/ /\ failure.index \in DOMAIN instructions
       /\ instructions[failure.index].program = Secp256r1Program
       /\ failure.why = "precompile"
    \/ /\ failure.index = Len(instructions)
       /\ failure.why = "refused" /\ failure.code = 3000
    \/ /\ failure.index = Len(instructions)
       /\ \E i \in DOMAIN P!PhygitalError : failure.why = P!PhygitalError[i]
       /\ failure.code = P!Code(failure.why)

Inv ==
    /\ stage \in {"idle", "sent", "landed", "failed"}
    /\ InPlace(accounts)
    /\ stage # "idle" => AskedFor /\ SentAsBuilt /\ InPlace(before)
    /\ stage = "sent" => accounts = before
    /\ stage = "landed" => Handled
    /\ stage = "failed" => FailedSo

\* A token holds the key its address is made of.
KeysHeld(data) ==
    \A program \in Deployments, key \in Keys :
        PhygitalTokenPda(program, key) \in DOMAIN data =>
            P!Decode(P!PhygitalToken.fields, data[PhygitalTokenPda(program, key)]).publicKey = key

\* A tap goes out under the id of the key that made it, over the challenge of
\* the call, in the instruction built of it.
TapSent ==
    \E tap \in Taps(IF asked.name = "SetOwner"
                    THEN C!BuildTransferChallenge(asked.given.phygitalToken,
                                                  asked.given.recipient,
                                                  SlotHash(asked.values.slotNumber))
                    ELSE C!BuildVerifyChallenge(asked.values.messageHash)),
       existing \in Existing :
        LET built == C!BuildSecp256r1VerifyInstructionFromWebAuthnResponse(
                        asked.key, tap, existing)
        IN /\ asked.name \in {"SetOwner", "Verify"} /\ asked.program = Main
           /\ asked.key = tap.signer /\ asked.tap = Tapped(tap, asked.key, existing)
           /\ asked.values.verifyArgsRelativeIndex \in {-1, -2}
           /\ asked.values.signedMessageIndex = built.signedMessageIndex
           /\ asked.values.clientDataJson = built.clientDataJson
           /\ LET builder == IF asked.name = "SetOwner" THEN C!GetSetOwnerInstruction
                             ELSE C!GetVerifyInstruction
              IN instructions = Shaped(<<built.instruction>>,
                                       C!Build(builder, Main, asked.given, OnWire(asked.values)),
                                       asked.shape)

TapInv ==
    /\ Inv
    /\ KeysHeld(accounts)
    /\ stage = "sent" /\ asked.tap # {} => TapSent
=============================================================================
