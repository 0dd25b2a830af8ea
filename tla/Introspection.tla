---------------------------- MODULE Introspection ----------------------------
(***************************************************************************)
(* How the program finds a tap in the transaction that calls it: the       *)
(* precompile instruction at a relative index, one entry of its table of   *)
(* offsets, the key and the message these lead to, and whether the message *)
(* answers the challenge expected.  Offsets are bytes, as in the program.  *)
(* The layout of the Instructions sysvar is the runtime's, and is taken as *)
(* the transaction itself; so is the precompile, which checks the          *)
(* signatures before any program runs and which the program relies upon.   *)
(***************************************************************************)
EXTENDS ProgramEntry

CONSTANT MaxSignatures   \* the triples a precompile instruction may hold

CurrentInstruction == 65535
MinMessageLen == 37 + 32

BuildSetOwnerChallenge(phygitalToken, recipient, slotHash) ==
    <<"transfer", phygitalToken, recipient, slotHash>>
BuildVerifyChallenge(messageHash) == <<"phygital-token/verify/v1", messageHash>>

\* The precompile instruction, if there is one at that place.
RelativeInstruction(transaction, current, relative) ==
    {transaction[i] : i \in {current + relative} \cap DOMAIN transaction}

Sole(S) == CHOOSE x \in S : TRUE
NumSignatures(data) == Sole(Slice(data.cells, 0, 1))

\* Entry i (from 0) of the table; field n of its seven.
TableField(data, i, n) == Sole(Slice(data.cells, 2 + 14 * i + 2 * n, 2))
SelfContained(data, i) == \A n \in {1, 3, 6} : TableField(data, i, n) = CurrentInstruction
SignatureData(data, i) == Slice(data.cells, TableField(data, i, 0), 64)
PublicKeyData(data, i) == Slice(data.cells, TableField(data, i, 2), 33)
MessageData(data, i) == Slice(data.cells, TableField(data, i, 4), TableField(data, i, 5))

\* The precompile itself (SIMD-0075), which is not the program's: it takes some
\* triples (eight at most), each of them a signature over the message by the key.
SignedBy(signature, key, message) ==
    signature[1] = "signature" /\ key \in signature[2] /\ message = signature[3]
PrecompileVerifies(data) ==
    /\ NumSignatures(data) \in 1 .. MaxSignatures
    /\ \A i \in 0 .. NumSignatures(data) - 1 :
        /\ SelfContained(data, i)
        /\ \E signature \in SignatureData(data, i), key \in PublicKeyData(data, i),
              message \in MessageData(data, i) : SignedBy(signature, key, message)

\* signed_public_key_and_message: why not, or "none".
EntryError(data, i) ==
    IF i >= NumSignatures(data) THEN "SignatureIndexOutOfBounds"
    ELSE IF ~SelfContained(data, i) THEN "InvalidSignatureOffsets"
    ELSE IF PublicKeyData(data, i) = {} THEN "InvalidSecp256r1PublicKey"
    ELSE IF MessageData(data, i) = {} \/ TableField(data, i, 5) < MinMessageLen
    THEN "InvalidSignatureOffsets"
    ELSE "none"

\* The message ends with the hash of the client data it was made over.
Covers(message, clientDataJson) == message = <<"authenticator data", clientDataJson>>

\* verify_webauthn_assertion and accept_assertion, as far as the transaction
\* decides; the rest of the assertion is in PhygitalToken.
AssertionError(transaction, current, args, challenge, publicKey) ==
    LET precompile == {ix \in RelativeInstruction(transaction, current,
                                                  args.verifyArgsRelativeIndex) :
                        ix.program = Secp256r1Program}
        data == Sole(precompile).data
        i == args.signedMessageIndex
    IN IF args.clientDataJson[2] # challenge THEN "ChallengeHashMismatch"
       ELSE IF precompile = {} THEN "InvalidSecp256r1Instruction"
       ELSE IF EntryError(data, i) # "none" THEN EntryError(data, i)
       ELSE IF ~Covers(Sole(MessageData(data, i)), args.clientDataJson)
       THEN "ClientDataHashMismatch"
       ELSE IF Sole(PublicKeyData(data, i)) # publicKey THEN "Secp256r1PubkeyMismatch"
       ELSE "none"

FoundErrors == {"ChallengeHashMismatch", "InvalidSecp256r1Instruction",
                "SignatureIndexOutOfBounds", "InvalidSignatureOffsets",
                "InvalidSecp256r1PublicKey", "ClientDataHashMismatch",
                "Secp256r1PubkeyMismatch"}

\* What set_owner and verify find of their tap; the last instruction calls.
TapError(transaction, call, accounts) ==
    LET challenge == IF call.name = "SetOwner"
                     THEN BuildSetOwnerChallenge(call.accounts.phygitalToken,
                                                 call.accounts.recipient,
                                                 SlotHash(call.values.slotNumber))
                     ELSE BuildVerifyChallenge(call.values.messageHash)
    IN AssertionError(transaction, Len(transaction), call.values, challenge,
                      Token(call, accounts).publicKey)
=============================================================================
