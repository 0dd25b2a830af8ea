---------------------------- MODULE ProgramEntry ----------------------------
(***************************************************************************)
(* The interface of the phygital-token program as its Rust source declares *)
(* it: the accounts and parameters of each instruction, the checks Anchor  *)
(* derives from them, the account structs, events and errors, and what     *)
(* each handler writes and emits.  Whether a handler accepts what it is    *)
(* given (roles, sign counts, challenges) is modelled in AdminConfig and   *)
(* PhygitalToken; here it may refuse with any of its errors.               *)
(***************************************************************************)
EXTENDS Wire

\* An account: what Anchor checks of it.  "signer" and "writable" are rights,
\* the other checks are addresses.
Account(name, checks) == [name |-> name, checks |-> checks]
Entry(disc, params, accounts) == [disc |-> disc, params |-> params, accounts |-> accounts]

VerifyArgs == <<Field("verifyArgsRelativeIndex", 8), Field("signedMessageIndex", 1),
                Field("clientDataJson", ByteVector)>>
TokenTypes == <<"Permanent", "Bearer", "Controlled">>

CreateConfig ==
    Entry(201, <<>>, <<Account("authority", {"signer", "writable"}),
                       Account("adminConfig", {"writable", "newConfig"}),
                       Account("systemProgram", {"systemProgram"})>>)
SetRole == <<Account("admin", {"signer"}), Account("adminConfig", {"writable", "config"})>>
SetAdmin == Entry(251, <<Field("newAdmin", 32)>>, SetRole)
SetIssuer == Entry(122, <<Field("issuer", 32)>>, SetRole)
SetMinter == Entry(13, <<Field("minter", 32)>>, SetRole)
ClosePhygitalToken ==
    Entry(254, <<>>, <<Account("admin", {"signer"}), Account("rentRecipient", {"writable"}),
                       Account("adminConfig", {"config"}),
                       Account("phygitalToken", {"writable", "token"})>>)
Initialize ==
    Entry(175, <<Field("identifier", 33), Field("secp256r1Pubkey", 33),
                 Field("tokenType", 1), Field("owner", 32)>>,
          <<Account("authority", {"signer", "writable"}), Account("adminConfig", {"config"}),
            Account("phygitalToken", {"writable", "newToken"}),
            Account("systemProgram", {"systemProgram"})>>)
AssignMint ==
    Entry(68, <<Field("mint", 32)>>,
          <<Account("authority", {"signer"}), Account("adminConfig", {"config"}),
            Account("phygitalToken", {"writable", "token"})>>)
SetOwner ==
    Entry(72, VerifyArgs \o <<Field("slotNumber", 8)>>,
          <<Account("recipient", {"signer"}), Account("phygitalToken", {"writable", "token"}),
            Account("slotHashes", {"slotHashes"}),
            Account("instructionsSysvar", {"instructionsSysvar"})>>)
Verify ==
    Entry(133, VerifyArgs \o <<Field("messageHash", 32), Field("expectedRpIdHash", Option32),
                               Field("expectedOrigins", OptionStrings)>>,
          <<Account("phygitalToken", {"writable", "token"}),
            Account("instructionsSysvar", {"instructionsSysvar"})>>)
RemoveOwner ==
    Entry(153, <<>>, <<Account("owner", {"signer", "writable"}),
                       Account("phygitalToken", {"writable", "token"})>>)

\* lib.rs: the instructions of the program.
Entries ==
    [CreateConfig |-> CreateConfig, SetAdmin |-> SetAdmin, SetIssuer |-> SetIssuer,
     SetMinter |-> SetMinter, ClosePhygitalToken |-> ClosePhygitalToken,
     Initialize |-> Initialize, AssignMint |-> AssignMint, SetOwner |-> SetOwner,
     Verify |-> Verify, RemoveOwner |-> RemoveOwner]

----------------------------------------------------------------------------
(* Account structs, events and errors.                                     *)

AdminConfig == Layout(156, <<Field("bump", 1), Field("admin", 32), Field("issuer", 32),
                             Field("minter", 32)>>)
PhygitalToken ==
    Layout(123, <<Field("owner", 32), Field("mint", 32), Field("lastSignCount", 4),
                  Field("tokenType", 1), Field("bump", 1), Field("publicKey", 33),
                  Field("identifier", 33)>>)
TypeByte(type) == <<"byte", (CHOOSE i \in DOMAIN TokenTypes : TokenTypes[i] = type) - 1>>
IsLocked(token) == token.tokenType # TypeByte("Bearer") /\ token.owner # SystemProgram

CreateConfigEvent == Layout(107, <<Field("authority", 32)>>)
SetAdminEvent == Layout(240, <<Field("previousAdmin", 32), Field("newAdmin", 32)>>)
SetIssuerEvent == Layout(74, <<Field("admin", 32), Field("issuer", 32)>>)
SetMinterEvent == Layout(8, <<Field("admin", 32), Field("minter", 32)>>)
InitializeEvent ==
    Layout(206, <<Field("authority", 32), Field("publicKey", 33), Field("identifier", 33),
                  Field("owner", 32), Field("tokenType", 1)>>)
RemoveOwnerEvent ==
    Layout(246, <<Field("owner", 32), Field("publicKey", 33), Field("identifier", 33)>>)
ClosePhygitalTokenEvent ==
    Layout(185, <<Field("admin", 32), Field("rentRecipient", 32), Field("publicKey", 33),
                  Field("identifier", 33), Field("owner", 32), Field("mint", 32)>>)
AssignMintEvent ==
    Layout(232, <<Field("publicKey", 33), Field("authority", 32), Field("identifier", 33),
                  Field("mint", 32)>>)
SetOwnerEvent ==
    Layout(229, <<Field("recipient", 32), Field("owner", 32), Field("publicKey", 33),
                  Field("identifier", 33)>>)

PhygitalError ==
    <<"InvalidSecp256r1Instruction", "SignatureIndexOutOfBounds", "InvalidSignatureOffsets",
      "InvalidSecp256r1PublicKey", "Secp256r1PubkeyMismatch", "OwnerMismatch",
      "InvalidSlotHash", "StaleSignCount", "ClientDataHashMismatch",
      "InvalidSysvarDataFormat", "TokenIsCurrentlyLocked", "UnableToParseClientData",
      "ChallengeHashMismatch", "InvalidAuthenticatorData", "UserPresenceNotVerified",
      "RpIdMismatch", "OriginMismatch", "UnauthorizedAuthority", "UnauthorizedAdmin",
      "KeyAlreadyExists", "PermanentOwnerRequired", "PermanentOwnerImmutable",
      "ClientDataTypeMismatch">>

\* The errors of an assertion, from verify_webauthn_assertion and
\* accept_assertion, and those of each instruction.
AssertionErrors ==
    {"InvalidSecp256r1Instruction", "SignatureIndexOutOfBounds", "InvalidSignatureOffsets",
     "InvalidSecp256r1PublicKey", "Secp256r1PubkeyMismatch", "StaleSignCount",
     "ClientDataHashMismatch", "InvalidSysvarDataFormat", "UnableToParseClientData",
     "ChallengeHashMismatch", "InvalidAuthenticatorData", "UserPresenceNotVerified",
     "ClientDataTypeMismatch"}
Errors ==
    [CreateConfig |-> {}, SetAdmin |-> {"UnauthorizedAdmin", "KeyAlreadyExists"},
     SetIssuer |-> {"UnauthorizedAdmin", "KeyAlreadyExists"},
     SetMinter |-> {"UnauthorizedAdmin", "KeyAlreadyExists"},
     ClosePhygitalToken |-> {"UnauthorizedAdmin"},
     Initialize |-> {"UnauthorizedAuthority", "PermanentOwnerRequired"},
     AssignMint |-> {"UnauthorizedAuthority"},
     SetOwner |-> {"TokenIsCurrentlyLocked", "InvalidSlotHash"} \cup AssertionErrors,
     Verify |-> {"RpIdMismatch", "OriginMismatch"} \cup AssertionErrors,
     RemoveOwner |-> {"OwnerMismatch", "PermanentOwnerImmutable"}]
Code(error) == 5999 + CHOOSE i \in DOMAIN PhygitalError : PhygitalError[i] = error

----------------------------------------------------------------------------
\* Anchor's side of an instruction: find the handler, read its parameters,
\* check its accounts.
Meets(check, meta, program, values, accounts) ==
    CASE check \in {"signer", "writable"} -> check \in meta.rights
      [] check = "newConfig" -> /\ meta.address = AdminConfigPda(program)
                                /\ meta.address \notin DOMAIN accounts
      [] check = "config" -> /\ meta.address = AdminConfigPda(program)
                             /\ meta.address \in DOMAIN accounts
      [] check = "newToken" -> /\ meta.address = PhygitalTokenPda(program, values.secp256r1Pubkey)
                               /\ meta.address \notin DOMAIN accounts
      [] check = "token" -> /\ meta.address \in DOMAIN accounts
                            /\ accounts[meta.address].disc = PhygitalToken.disc
                            /\ meta.address[2] = program
      [] check = "systemProgram" -> meta.address = SystemProgram
      [] check = "slotHashes" -> meta.address = SlotHashes
      [] check = "instructionsSysvar" -> meta.address = InstructionsSysvar

Known(data) == \E name \in DOMAIN Entries : Entries[name].disc = data.disc
Handler(data) == CHOOSE name \in DOMAIN Entries : Entries[name].disc = data.disc
Legible(instruction) ==
    /\ Known(instruction.data)
    /\ Readable(Entries[Handler(instruction.data)].params, instruction.data)
    /\ Len(instruction.metas) >= Len(Entries[Handler(instruction.data)].accounts)

\* The call a handler gets: its Context and its parameters, by name.
Call(instruction) ==
    LET entry == Entries[Handler(instruction.data)]
        place(name) == CHOOSE i \in DOMAIN entry.accounts : entry.accounts[i].name = name
    IN [name |-> Handler(instruction.data), program |-> instruction.program,
        accounts |-> [name \in Names(entry.accounts) |-> instruction.metas[place(name)].address],
        values |-> Decode(entry.params, instruction.data)]

Admitted(instruction, accounts) ==
    /\ Legible(instruction)
    /\ LET entry == Entries[Handler(instruction.data)]
       IN \A i \in DOMAIN entry.accounts : \A check \in entry.accounts[i].checks :
             Meets(check, instruction.metas[i], instruction.program,
                   Call(instruction).values, accounts)

----------------------------------------------------------------------------
(* The handlers: the accounts after them and the event they emit.          *)

Outcome(accounts, event) == [accounts |-> accounts, event |-> event]
NoEvent == [disc |-> 0, cells |-> <<>>]
Put(accounts, address, data) ==
    [a \in DOMAIN accounts \cup {address} |-> IF a = address THEN data ELSE accounts[a]]
Token(call, accounts) == Decode(PhygitalToken.fields, accounts[call.accounts.phygitalToken])
PutToken(call, accounts, token) ==
    Put(accounts, call.accounts.phygitalToken, Encode(PhygitalToken, token))
Config(call, accounts) == Decode(AdminConfig.fields, accounts[call.accounts.adminConfig])
PutConfig(call, accounts, config) ==
    Put(accounts, call.accounts.adminConfig, Encode(AdminConfig, config))
Accepted(token) == [token EXCEPT !.lastSignCount = <<"count", @[2] + 1>>]

HandleCreateConfig(call, accounts) ==
    Outcome(PutConfig(call, accounts,
                      [bump |-> <<"bump">>, admin |-> call.accounts.authority,
                       issuer |-> SystemProgram, minter |-> SystemProgram]),
            Encode(CreateConfigEvent, call.accounts))

HandleSetAdmin(call, accounts) ==
    LET config == Config(call, accounts)
    IN Outcome(PutConfig(call, accounts, [config EXCEPT !.admin = call.values.newAdmin]),
               Encode(SetAdminEvent, [previousAdmin |-> config.admin,
                                      newAdmin |-> call.values.newAdmin]))

HandleSetIssuer(call, accounts) ==
    Outcome(PutConfig(call, accounts,
                      [Config(call, accounts) EXCEPT !.issuer = call.values.issuer]),
            Encode(SetIssuerEvent, [admin |-> call.accounts.admin,
                                    issuer |-> call.values.issuer]))

HandleSetMinter(call, accounts) ==
    Outcome(PutConfig(call, accounts,
                      [Config(call, accounts) EXCEPT !.minter = call.values.minter]),
            Encode(SetMinterEvent, [admin |-> call.accounts.admin,
                                    minter |-> call.values.minter]))

HandleInitialize(call, accounts) ==
    LET v == call.values
    IN Outcome(PutToken(call, accounts,
                        [owner |-> v.owner, mint |-> SystemProgram,
                         lastSignCount |-> <<"count", 0>>, tokenType |-> v.tokenType,
                         bump |-> <<"bump">>, publicKey |-> v.secp256r1Pubkey,
                         identifier |-> v.identifier]),
               Encode(InitializeEvent,
                      [authority |-> call.accounts.authority, publicKey |-> v.secp256r1Pubkey,
                       identifier |-> v.identifier, owner |-> v.owner,
                       tokenType |-> v.tokenType]))

HandleAssignMint(call, accounts) ==
    LET token == [Token(call, accounts) EXCEPT !.mint = call.values.mint]
    IN Outcome(PutToken(call, accounts, token),
               Encode(AssignMintEvent,
                      [publicKey |-> token.publicKey, authority |-> call.accounts.authority,
                       identifier |-> token.identifier, mint |-> token.mint]))

HandleSetOwner(call, accounts) ==
    LET token == Accepted(Token(call, accounts))
    IN Outcome(PutToken(call, accounts, [token EXCEPT !.owner = call.accounts.recipient]),
               Encode(SetOwnerEvent,
                      [recipient |-> call.accounts.recipient, owner |-> token.owner,
                       publicKey |-> token.publicKey, identifier |-> token.identifier]))

HandleVerify(call, accounts) ==
    Outcome(PutToken(call, accounts, Accepted(Token(call, accounts))), NoEvent)

HandleRemoveOwner(call, accounts) ==
    LET token == Token(call, accounts)
    IN Outcome(PutToken(call, accounts, [token EXCEPT !.owner = SystemProgram]),
               Encode(RemoveOwnerEvent,
                      [owner |-> call.accounts.owner, publicKey |-> token.publicKey,
                       identifier |-> token.identifier]))

HandleClosePhygitalToken(call, accounts) ==
    LET token == Token(call, accounts)
    IN Outcome([a \in DOMAIN accounts \ {call.accounts.phygitalToken} |-> accounts[a]],
               Encode(ClosePhygitalTokenEvent,
                      [admin |-> call.accounts.admin,
                       rentRecipient |-> call.accounts.rentRecipient,
                       publicKey |-> token.publicKey, identifier |-> token.identifier,
                       owner |-> token.owner, mint |-> token.mint]))

Handle(call, accounts) ==
    CASE call.name = "CreateConfig" -> HandleCreateConfig(call, accounts)
      [] call.name = "SetAdmin" -> HandleSetAdmin(call, accounts)
      [] call.name = "SetIssuer" -> HandleSetIssuer(call, accounts)
      [] call.name = "SetMinter" -> HandleSetMinter(call, accounts)
      [] call.name = "ClosePhygitalToken" -> HandleClosePhygitalToken(call, accounts)
      [] call.name = "Initialize" -> HandleInitialize(call, accounts)
      [] call.name = "AssignMint" -> HandleAssignMint(call, accounts)
      [] call.name = "SetOwner" -> HandleSetOwner(call, accounts)
      [] call.name = "Verify" -> HandleVerify(call, accounts)
      [] call.name = "RemoveOwner" -> HandleRemoveOwner(call, accounts)
=============================================================================
