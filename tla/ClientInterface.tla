--------------------------- MODULE ClientInterface ---------------------------
(***************************************************************************)
(* The generated half of the client SDK: how it lays out the data and the  *)
(* accounts of each instruction, what it fills in when the caller leaves   *)
(* an account out, how it reads back instructions, events, errors and      *)
(* accounts, and the queries the SDK builds on it.  The text of messages   *)
(* and the type-level half of the files are left out.                      *)
(***************************************************************************)
EXTENDS Wire

\* An account of a builder: the rights it asks for, and what the builder puts
\* there when the caller gives nothing.
Account(name, rights) == [name |-> name, rights |-> rights, default |-> "none"]
AccountOr(name, rights, default) ==
    [name |-> name, rights |-> rights, default |-> default]
Builder(layout, accounts) == [layout |-> layout, accounts |-> accounts]

Secp256r1Pubkey(name) == Field(name, 33)
Secp256r1VerifyArgs ==
    <<Field("verifyArgsRelativeIndex", 8), Field("signedMessageIndex", 1),
      Field("clientDataJson", ByteVector)>>
PhygitalTokenType == <<"Permanent", "Bearer", "Controlled">>
TypeByte(type) ==
    <<"byte", (CHOOSE i \in DOMAIN PhygitalTokenType : PhygitalTokenType[i] = type) - 1>>

----------------------------------------------------------------------------
(* Instructions: data, the builder that derives the registry's address, the *)
(* one that does not, and the accounts in the order the parser names them.  *)

InitializeData ==
    Layout(175, <<Secp256r1Pubkey("identifier"), Secp256r1Pubkey("secp256r1Pubkey"),
                  Field("tokenType", 1), Field("owner", 32)>>)
GetInitializeInstructionAsync ==
    Builder(InitializeData,
            <<Account("authority", {"signer", "writable"}),
              AccountOr("adminConfig", {}, "adminConfigPda"),
              Account("phygitalToken", {"writable"}),
              AccountOr("systemProgram", {}, "systemProgram")>>)
GetInitializeInstruction ==
    Builder(InitializeData,
            <<Account("authority", {"signer", "writable"}), Account("adminConfig", {}),
              Account("phygitalToken", {"writable"}),
              AccountOr("systemProgram", {}, "systemProgram")>>)
ParsedInitialize == <<"authority", "adminConfig", "phygitalToken", "systemProgram">>

AssignMintData == Layout(68, <<Field("mint", 32)>>)
GetAssignMintInstructionAsync ==
    Builder(AssignMintData,
            <<Account("authority", {"signer"}), AccountOr("adminConfig", {}, "adminConfigPda"),
              Account("phygitalToken", {"writable"})>>)
GetAssignMintInstruction ==
    Builder(AssignMintData,
            <<Account("authority", {"signer"}), Account("adminConfig", {}),
              Account("phygitalToken", {"writable"})>>)
ParsedAssignMint == <<"authority", "adminConfig", "phygitalToken">>

ClosePhygitalTokenData == Layout(254, <<>>)
GetClosePhygitalTokenInstructionAsync ==
    Builder(ClosePhygitalTokenData,
            <<Account("admin", {"signer"}), Account("rentRecipient", {"writable"}),
              AccountOr("adminConfig", {}, "adminConfigPda"),
              Account("phygitalToken", {"writable"})>>)
GetClosePhygitalTokenInstruction ==
    Builder(ClosePhygitalTokenData,
            <<Account("admin", {"signer"}), Account("rentRecipient", {"writable"}),
              Account("adminConfig", {}), Account("phygitalToken", {"writable"})>>)
ParsedClosePhygitalToken == <<"admin", "rentRecipient", "adminConfig", "phygitalToken">>

CreateConfigData == Layout(201, <<>>)
GetCreateConfigInstructionAsync ==
    Builder(CreateConfigData,
            <<Account("authority", {"signer", "writable"}),
              AccountOr("adminConfig", {"writable"}, "adminConfigPda"),
              AccountOr("systemProgram", {}, "systemProgram")>>)
GetCreateConfigInstruction ==
    Builder(CreateConfigData,
            <<Account("authority", {"signer", "writable"}), Account("adminConfig", {"writable"}),
              AccountOr("systemProgram", {}, "systemProgram")>>)
ParsedCreateConfig == <<"authority", "adminConfig", "systemProgram">>

SetAdminData == Layout(251, <<Field("newAdmin", 32)>>)
GetSetAdminInstructionAsync ==
    Builder(SetAdminData, <<Account("admin", {"signer"}),
                            AccountOr("adminConfig", {"writable"}, "adminConfigPda")>>)
GetSetAdminInstruction ==
    Builder(SetAdminData, <<Account("admin", {"signer"}), Account("adminConfig", {"writable"})>>)
ParsedSetAdmin == <<"admin", "adminConfig">>

SetIssuerData == Layout(122, <<Field("issuer", 32)>>)
GetSetIssuerInstructionAsync ==
    Builder(SetIssuerData, <<Account("admin", {"signer"}),
                             AccountOr("adminConfig", {"writable"}, "adminConfigPda")>>)
GetSetIssuerInstruction ==
    Builder(SetIssuerData, <<Account("admin", {"signer"}), Account("adminConfig", {"writable"})>>)
ParsedSetIssuer == <<"admin", "adminConfig">>

SetMinterData == Layout(13, <<Field("minter", 32)>>)
GetSetMinterInstructionAsync ==
    Builder(SetMinterData, <<Account("admin", {"signer"}),
                             AccountOr("adminConfig", {"writable"}, "adminConfigPda")>>)
GetSetMinterInstruction ==
    Builder(SetMinterData, <<Account("admin", {"signer"}), Account("adminConfig", {"writable"})>>)
ParsedSetMinter == <<"admin", "adminConfig">>

RemoveOwnerData == Layout(153, <<>>)
GetRemoveOwnerInstruction ==
    Builder(RemoveOwnerData, <<Account("owner", {"signer", "writable"}),
                               Account("phygitalToken", {"writable"})>>)
ParsedRemoveOwner == <<"owner", "phygitalToken">>

SetOwnerData == Layout(72, Secp256r1VerifyArgs \o <<Field("slotNumber", 8)>>)
GetSetOwnerInstruction ==
    Builder(SetOwnerData,
            <<Account("recipient", {"signer"}), Account("phygitalToken", {"writable"}),
              AccountOr("slotHashes", {}, "slotHashes"),
              AccountOr("instructionsSysvar", {}, "instructionsSysvar")>>)
ParsedSetOwner == <<"recipient", "phygitalToken", "slotHashes", "instructionsSysvar">>

VerifyData ==
    Layout(133, Secp256r1VerifyArgs \o
                <<Field("messageHash", 32), Field("expectedRpIdHash", Option32),
                  Field("expectedOrigins", OptionStrings)>>)
GetVerifyInstruction ==
    Builder(VerifyData, <<Account("phygitalToken", {"writable"}),
                          AccountOr("instructionsSysvar", {}, "instructionsSysvar")>>)
ParsedVerify == <<"phygitalToken", "instructionsSysvar">>

----------------------------------------------------------------------------
\* Faulty variant of the next definition: the registry of the main deployment.
DefaultAddressOfMain(default, program) ==
    CASE default = "adminConfigPda" -> AdminConfigPda(Main)
      [] default = "systemProgram" -> SystemProgram
      [] default = "slotHashes" -> SlotHashes
      [] default = "instructionsSysvar" -> InstructionsSysvar

\* What a builder makes of the accounts and values the caller gives it.
DefaultAddress(default, program) ==
    CASE default = "adminConfigPda" -> AdminConfigPda(program)
      [] default = "systemProgram" -> SystemProgram
      [] default = "slotHashes" -> SlotHashes
      [] default = "instructionsSysvar" -> InstructionsSysvar

Build(builder, program, given, values) ==
    Instruction(
        program,
        [i \in DOMAIN builder.accounts |->
            LET a == builder.accounts[i]
            IN Meta(IF a.name \in DOMAIN given THEN given[a.name]
                    ELSE DefaultAddress(a.default, program), a.rights)],
        Encode(builder.layout, values))

\* phygitalTokenProgram: the plugin's methods take the derived builders where
\* there are some, and a call's program before the plugin's.
PhygitalTokenProgram ==
    [Initialize |-> GetInitializeInstructionAsync,
     AssignMint |-> GetAssignMintInstructionAsync,
     ClosePhygitalToken |-> GetClosePhygitalTokenInstructionAsync,
     CreateConfig |-> GetCreateConfigInstructionAsync,
     SetAdmin |-> GetSetAdminInstructionAsync,
     SetIssuer |-> GetSetIssuerInstructionAsync,
     SetMinter |-> GetSetMinterInstructionAsync,
     RemoveOwner |-> GetRemoveOwnerInstruction,
     SetOwner |-> GetSetOwnerInstruction,
     Verify |-> GetVerifyInstruction]
Synchronous ==
    [Initialize |-> GetInitializeInstruction,
     AssignMint |-> GetAssignMintInstruction,
     ClosePhygitalToken |-> GetClosePhygitalTokenInstruction,
     CreateConfig |-> GetCreateConfigInstruction,
     SetAdmin |-> GetSetAdminInstruction,
     SetIssuer |-> GetSetIssuerInstruction,
     SetMinter |-> GetSetMinterInstruction,
     RemoveOwner |-> GetRemoveOwnerInstruction,
     SetOwner |-> GetSetOwnerInstruction,
     Verify |-> GetVerifyInstruction]
Coalesce(S, default) == IF S = {} THEN default ELSE CHOOSE p \in S : TRUE
ProgramOf(instructionConfig, config) == Coalesce(instructionConfig, Coalesce(config, Main))

----------------------------------------------------------------------------
(* Reading instructions back.                                              *)

\* Which instruction, event or account some data is, by its discriminator;
\* "unknown" where the code throws.
LookUp(table, data) ==
    IF \E name \in DOMAIN table : table[name] = data.disc
    THEN CHOOSE name \in DOMAIN table : table[name] = data.disc ELSE "unknown"

IdentifyPhygitalTokenInstruction(data) ==
    LookUp([AssignMint |-> 68, ClosePhygitalToken |-> 254, CreateConfig |-> 201,
            Initialize |-> 175, RemoveOwner |-> 153, SetAdmin |-> 251, SetIssuer |-> 122,
            SetMinter |-> 13, SetOwner |-> 72, Verify |-> 133], data)

Parsed == [Initialize |-> ParsedInitialize, AssignMint |-> ParsedAssignMint,
           ClosePhygitalToken |-> ParsedClosePhygitalToken,
           CreateConfig |-> ParsedCreateConfig, SetAdmin |-> ParsedSetAdmin,
           SetIssuer |-> ParsedSetIssuer, SetMinter |-> ParsedSetMinter,
           RemoveOwner |-> ParsedRemoveOwner, SetOwner |-> ParsedSetOwner,
           Verify |-> ParsedVerify]

\* Accounts by name, in the order they come; whatever follows is ignored.
NameAccounts(names, metas) ==
    [name \in {names[i] : i \in DOMAIN names} |->
        metas[CHOOSE i \in DOMAIN names : names[i] = name].address]

\* Faulty variant of the next definition: no account may follow.
CompleteExactly(names, metas) == Len(metas) = Len(names)

\* Every account the parser names is there.
Complete(names, metas) == Len(metas) >= Len(names)

ParsePhygitalTokenInstruction(instruction) ==
    LET name == IdentifyPhygitalTokenInstruction(instruction.data)
        fields == Synchronous[name].layout.fields
    IN IF \/ name = "unknown"
          \/ ~Complete(Parsed[name], instruction.metas)
          \/ ~Readable(fields, instruction.data)
       THEN [name |-> "unreadable"]
       ELSE [name |-> name, program |-> instruction.program,
             accounts |-> NameAccounts(Parsed[name], instruction.metas),
             values |-> Decode(fields, instruction.data)]

----------------------------------------------------------------------------
(* Events.                                                                 *)

AssignMintEvent ==
    Layout(232, <<Secp256r1Pubkey("publicKey"), Field("authority", 32),
                  Secp256r1Pubkey("identifier"), Field("mint", 32)>>)
ClosePhygitalTokenEvent ==
    Layout(185, <<Field("admin", 32), Field("rentRecipient", 32),
                  Secp256r1Pubkey("publicKey"), Secp256r1Pubkey("identifier"),
                  Field("owner", 32), Field("mint", 32)>>)
CreateConfigEvent == Layout(107, <<Field("authority", 32)>>)
InitializeEvent ==
    Layout(206, <<Field("authority", 32), Secp256r1Pubkey("publicKey"),
                  Secp256r1Pubkey("identifier"), Field("owner", 32), Field("tokenType", 1)>>)
RemoveOwnerEvent ==
    Layout(246, <<Field("owner", 32), Secp256r1Pubkey("publicKey"),
                  Secp256r1Pubkey("identifier")>>)
SetAdminEvent == Layout(240, <<Field("previousAdmin", 32), Field("newAdmin", 32)>>)
SetIssuerEvent == Layout(74, <<Field("admin", 32), Field("issuer", 32)>>)
SetMinterEvent == Layout(8, <<Field("admin", 32), Field("minter", 32)>>)
\* Faulty variant of the next definition: the owner before comes first.
SetOwnerEventOwnerFirst ==
    Layout(229, <<Field("owner", 32), Field("recipient", 32),
                  Secp256r1Pubkey("publicKey"), Secp256r1Pubkey("identifier")>>)

SetOwnerEvent ==
    Layout(229, <<Field("recipient", 32), Field("owner", 32),
                  Secp256r1Pubkey("publicKey"), Secp256r1Pubkey("identifier")>>)

IdentifyPhygitalTokenEvent(data) ==
    LookUp([AssignMint |-> 232, ClosePhygitalToken |-> 185, CreateConfig |-> 107,
            Initialize |-> 206, RemoveOwner |-> 246, SetAdmin |-> 240, SetIssuer |-> 74,
            SetMinter |-> 8, SetOwner |-> 229], data)

Events == [AssignMint |-> AssignMintEvent, ClosePhygitalToken |-> ClosePhygitalTokenEvent,
           CreateConfig |-> CreateConfigEvent, Initialize |-> InitializeEvent,
           RemoveOwner |-> RemoveOwnerEvent, SetAdmin |-> SetAdminEvent,
           SetIssuer |-> SetIssuerEvent, SetMinter |-> SetMinterEvent,
           SetOwner |-> SetOwnerEvent]

ParseEvent(data) ==
    LET name == IdentifyPhygitalTokenEvent(data)
    IN IF name = "unknown" THEN [name |-> "unreadable"]
       ELSE [name |-> name, values |-> Decode(Events[name].fields, data)]

----------------------------------------------------------------------------
(* Errors: the constants in the order of their codes, from 6000, under the *)
(* names the program gives them.                                           *)

PhygitalTokenErrors ==
    <<"InvalidSecp256r1Instruction", "SignatureIndexOutOfBounds", "InvalidSignatureOffsets",
      "InvalidSecp256r1PublicKey", "Secp256r1PubkeyMismatch", "OwnerMismatch",
      "InvalidSlotHash", "StaleSignCount", "ClientDataHashMismatch",
      "InvalidSysvarDataFormat", "TokenIsCurrentlyLocked", "UnableToParseClientData",
      "ChallengeHashMismatch", "InvalidAuthenticatorData", "UserPresenceNotVerified",
      "RpIdMismatch", "OriginMismatch", "UnauthorizedAuthority", "UnauthorizedAdmin",
      "KeyAlreadyExists", "PermanentOwnerRequired", "PermanentOwnerImmutable",
      "ClientDataTypeMismatch">>
Code(error) == 5999 + CHOOSE i \in DOMAIN PhygitalTokenErrors : PhygitalTokenErrors[i] = error

\* Faulty variant of the next definition: whichever program was called.
IsPhygitalTokenErrorOfAny(failure, instructions, error, config) ==
    failure.code = Code(error)

\* An error names the instruction of the transaction that failed; it is the
\* program's own only if that instruction called the program.
IsPhygitalTokenError(failure, instructions, error, config) ==
    /\ instructions[failure.index].program = Coalesce(config, Main)
    /\ failure.code = Code(error)

----------------------------------------------------------------------------
(* Accounts.                                                               *)

PhygitalToken ==
    Layout(123, <<Field("owner", 32), Field("mint", 32), Field("lastSignCount", 4),
                  Field("tokenType", 1), Field("bump", 1),
                  Secp256r1Pubkey("publicKey"), Secp256r1Pubkey("identifier")>>)
GetPhygitalTokenSize == 144
AdminConfig ==
    Layout(156, <<Field("bump", 1), Field("admin", 32), Field("issuer", 32),
                  Field("minter", 32)>>)
IdentifyPhygitalTokenAccount(data) == LookUp([AdminConfig |-> 156, PhygitalToken |-> 123], data)

FetchPhygitalToken(accounts, address) == Decode(PhygitalToken.fields, accounts[address])
FetchAdminConfig(accounts, address) == Decode(AdminConfig.fields, accounts[address])

\* utils/metadata.ts: getProgramAccounts with a size and the bytes at an
\* offset; the token decoded from each account found.
OwnerOffset == 8
MintOffset == OwnerOffset + 32
\* Faulty variant of the next definition: the byte of the bump is forgotten.
IdentifierOffsetWithoutBump == MintOffset + 32 + 4 + 1 + 33

IdentifierOffset == MintOffset + 32 + 4 + 1 + 1 + 33
ScanAt(accounts, offset, value) ==
    {FetchPhygitalToken(accounts, a) :
        a \in {b \in DOMAIN accounts : /\ b[2] = Main
                                        /\ Size(accounts[b].cells) = GetPhygitalTokenSize
                                        /\ Memcmp(accounts[b], offset, value)}}
FetchPhygitalTokensByOwner(accounts, owner) == ScanAt(accounts, OwnerOffset, owner)

\* The answers a query for one token may give, each the set of what it returns:
\* the first account found, in whatever order the node lists them, or null.
FirstOf(found) == IF found = {} THEN {{}} ELSE {{token} : token \in found}
FetchPhygitalTokenByIdentifier(accounts, identifier) ==
    FirstOf(ScanAt(accounts, IdentifierOffset, identifier))
FetchPhygitalTokenByMint(accounts, mint) == FirstOf(ScanAt(accounts, MintOffset, mint))

\* utils/lock.ts
IsPhygitalTokenLocked(token) ==
    /\ token.tokenType # TypeByte("Bearer")
    /\ token.owner # SystemProgram
=============================================================================
