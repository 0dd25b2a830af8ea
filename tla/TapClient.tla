------------------------------ MODULE TapClient ------------------------------
(***************************************************************************)
(* The hand-written half of the client SDK: from a tap to the instructions *)
(* that carry it.  A tap is an ECDSA signature by the accessory's passkey; *)
(* the platform may report a placeholder for the passkey's id, which then  *)
(* is recovered from the signature: the key that signed, and at times a    *)
(* second one that nobody has.  Parsing, encodings and the prompt are left *)
(* out.  A function that throws returns the empty set.                     *)
(***************************************************************************)
EXTENDS ClientInterface

Placeholder == <<"placeholder">>

\* What a hash is taken over, as the value itself; a signature holds the keys
\* that it fits and the message it was made over.
ClientDataJson(response) == <<"webauthn.get", response.challenge>>
BuildSecp256r1Message(response) == <<"authenticator data", ClientDataJson(response)>>
MessageSize == 37 + 32

BuildTransferChallenge(phygitalToken, recipient, slotHash) ==
    <<"transfer", phygitalToken, recipient, slotHash>>
BuildVerifyChallenge(messageHash) == <<"phygital-token/verify/v1", messageHash>>

----------------------------------------------------------------------------
(* Whose tap it is.                                                        *)

Only(S) == {x \in S : S = {x}}

\* The candidate with an account at its address, as the account has it; a
\* single candidate is taken as it is.
RecoverSecp256r1PublicKeyWithPhygitalToken(accounts, candidates) ==
    IF Only(candidates) # {} THEN candidates
    ELSE Only({FetchPhygitalToken(accounts, a).publicKey :
                a \in {PhygitalTokenPda(Main, k) : k \in candidates} \cap DOMAIN accounts})

RecoverSecp256r1PublicKeyWithAllowList(allowList, candidates) ==
    Only(candidates \cap allowList)

\* allowList is {} where none is given.
ResolveCredentialId(response, allowList, rpc, accounts) ==
    LET ids == IF response.id # Placeholder THEN {response.id}
               ELSE IF rpc
               THEN RecoverSecp256r1PublicKeyWithPhygitalToken(accounts, response.candidates)
               ELSE RecoverSecp256r1PublicKeyWithAllowList(allowList, response.candidates)
    IN {id \in ids : allowList = {} \/ id \in allowList}

----------------------------------------------------------------------------
(* The precompile instruction.                                             *)

EntrySize(entry) == 33 + 64 + entry.size
CurrentInstruction == 65535     \* the instruction the offsets are in

\* Faulty variant of the next definition: earlier messages are as long as a tap's.
PublicKeyOffsetOfTaps(entries, i) ==
    2 + 14 * Len(entries) + (i - 1) * (33 + 64 + MessageSize)

\* Where the key of entry i stands: the offset runs on from the end of the table,
\* entry after entry.
PublicKeyOffset(entries, i) ==
    LET after[n \in 0 .. Len(entries)] ==
            IF n = 0 THEN 2 + 14 * Len(entries) ELSE after[n - 1] + EntrySize(entries[n])
    IN after[i - 1]

\* Faulty variant of the next definition: the signature is looked for at the key.
SignatureOffsetsAtKey(entries, i) ==
    LET key == PublicKeyOffset(entries, i)
    IN <<<<2, key>>, <<2, CurrentInstruction>>, <<2, key>>, <<2, CurrentInstruction>>,
         <<2, key + 33 + 64>>, <<2, entries[i].size>>, <<2, CurrentInstruction>>>>

SignatureOffsets(entries, i) ==
    LET key == PublicKeyOffset(entries, i)
    IN <<<<2, key + 33>>, <<2, CurrentInstruction>>, <<2, key>>, <<2, CurrentInstruction>>,
         <<2, key + 33 + 64>>, <<2, entries[i].size>>, <<2, CurrentInstruction>>>>

Payload(entry) ==
    <<<<33, entry.publicKey>>, <<64, entry.signature>>, <<entry.size, entry.message>>>>

\* What a loop over the entries writes, the same number of cells for each.
RowByRow(rows, length) ==
    [c \in 1 .. length * Len(rows) |-> rows[1 + ((c - 1) \div length)][1 + ((c - 1) % length)]]

Secp256r1VerifyInstructionData(entries) ==
    [disc  |-> 0,
     cells |-> <<<<1, Len(entries)>>, <<1, 0>>>>
               \o RowByRow([i \in DOMAIN entries |-> SignatureOffsets(entries, i)], 7)
               \o RowByRow([i \in DOMAIN entries |-> Payload(entries[i])], 3)]
GetSecp256r1VerifyInstruction(entries) ==
    Instruction(Secp256r1Program, <<>>, Secp256r1VerifyInstructionData(entries))

\* An array of earlier entries is appended to, unless it is empty.
NoArray == [given |-> FALSE, entries |-> <<>>]
BuildSecp256r1VerifyInstructionFromWebAuthnResponse(publicKey, response, existing) ==
    LET message == BuildSecp256r1Message(response)
        parsed == [publicKey |-> publicKey, message |-> message, size |-> MessageSize,
                   signature |-> <<"signature", response.candidates, message>>]
        pushed == existing.entries # <<>>
        entries == IF pushed THEN Append(existing.entries, parsed)
                   ELSE IF existing.given THEN existing.entries ELSE <<parsed>>
    IN [signedMessageIndex |-> IF pushed THEN Len(existing.entries) ELSE 0,
        instruction |-> GetSecp256r1VerifyInstruction(entries),
        clientDataJson |-> ClientDataJson(response),
        existing |-> [existing EXCEPT !.entries = IF pushed THEN entries ELSE @]]

\* The arguments that tell the program where its tap is.
VerifyArgs(built, relative) ==
    [verifyArgsRelativeIndex |-> relative, signedMessageIndex |-> built.signedMessageIndex,
     clientDataJson |-> built.clientDataJson]

\* What a transfer names before the tap, and after it what set_owner is given.
BeginTransfer(key, recipient, slot) ==
    LET token == PhygitalTokenPda(Main, key)
    IN [secp256r1Pubkey |-> key, phygitalToken |-> token, slotNumber |-> slot,
        recipient |-> recipient,
        challenge |-> BuildTransferChallenge(token, recipient, SlotHash(slot))]

\* A tap of another accessory than the session's is not recognized.
AuthenticatePasskeyForTransfer(session, response) ==
    ResolveCredentialId(response, {session.secp256r1Pubkey}, FALSE, <<>>)

CompleteTransfer(session, id, response, recipient, existing) ==
    LET built == BuildSecp256r1VerifyInstructionFromWebAuthnResponse(id, response, existing)
        args == VerifyArgs(built, -1)
    IN IF recipient # session.recipient THEN {}
       ELSE {[instruction |-> built.instruction,
              given |-> [recipient |-> recipient, phygitalToken |-> session.phygitalToken],
              values |-> [verifyArgsRelativeIndex |-> args.verifyArgsRelativeIndex,
                          signedMessageIndex |-> args.signedMessageIndex,
                          clientDataJson |-> args.clientDataJson,
                          slotNumber |-> session.slotNumber]]}

\* For a program that calls verify; the caller adds what its message was.
BuildSecp256r1VerifyInstruction(id, response, existing, relative) ==
    LET built == BuildSecp256r1VerifyInstructionFromWebAuthnResponse(id, response, existing)
    IN [instruction |-> built.instruction, phygitalTokenPda |-> PhygitalTokenPda(Main, id),
        secp256r1VerifyArgs |-> VerifyArgs(built, relative)]
=============================================================================
