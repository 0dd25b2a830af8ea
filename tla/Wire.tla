-------------------------------- MODULE Wire --------------------------------
(***************************************************************************)
(* What the client and the program of phygital-token exchange: addresses,  *)
(* instructions, and data laid out field after field.  The codecs          *)
(* themselves (Kit's on one side, Borsh and Anchor on the other) are       *)
(* libraries: a field is a cell <<width, value>>, read back only by a      *)
(* reader that counted the same bytes up to it.  A discriminator, the      *)
(* first 8 bytes of data, stands as its first byte: within instructions,   *)
(* events and accounts they all differ there.                              *)
(***************************************************************************)
EXTENDS Integers, Sequences

\* Widths that depend on the data, as codes that no size has: a byte vector,
\* an optional 32-byte value, an optional list of strings.
ByteVector == 1000
Option32 == 1001
OptionStrings == 1002

Field(name, width) == [name |-> name, width |-> width]
Layout(disc, fields) == [disc |-> disc, fields |-> fields]
Names(fields) == {fields[i].name : i \in DOMAIN fields}

\* What a reader gets that lost count of the bytes.
Garbled == <<"garbled">>

Encode(layout, values) ==
    [disc  |-> layout.disc,
     cells |-> [i \in DOMAIN layout.fields |->
                 <<layout.fields[i].width, values[layout.fields[i].name]>>]]

\* Data long enough for the fields read; what follows them is ignored.
Readable(fields, data) == Len(data.cells) >= Len(fields)

Decode(fields, data) ==
    [name \in Names(fields) |->
        LET i == CHOOSE n \in DOMAIN fields : fields[n].name = name
        IN IF \A j \in 1..i : data.cells[j][1] = fields[j].width
           THEN data.cells[i][2] ELSE Garbled]

\* Bytes taken by a sequence of cells; by the data of an account, whose first 8
\* are the discriminator.
Bytes(cells) ==
    LET upTo[n \in 0 .. Len(cells)] == IF n = 0 THEN 0 ELSE upTo[n - 1] + cells[n][1]
    IN upTo[Len(cells)]
Size(cells) == 8 + Bytes(cells)

\* The value found at an offset by a reader that takes so many bytes: none past
\* the end, and no value anybody wrote unless it was written just there.
Slice(cells, offset, width) ==
    LET whole == {i \in DOMAIN cells : /\ cells[i][1] = width
                                       /\ Bytes(SubSeq(cells, 1, i - 1)) = offset}
    IN IF offset + width > Bytes(cells) THEN {}
       ELSE IF whole = {} THEN {Garbled} ELSE {cells[i][2] : i \in whole}

\* memcmp: a value's bytes stand at an offset of an account's data.
Memcmp(data, offset, value) ==
    \E i \in DOMAIN data.cells :
        /\ Size(SubSeq(data.cells, 1, i - 1)) = offset
        /\ data.cells[i][2] = value

\* Addresses.  The default key is the address of the system program.
Main == <<"program", "main">>
Other == <<"program", "other">>
SystemProgram == <<"program", "system">>
SlotHashes == <<"sysvar", "slot_hashes">>
InstructionsSysvar == <<"sysvar", "instructions">>
Secp256r1Program == <<"program", "secp256r1">>
AdminConfigPda(program) == <<"config", program>>
PhygitalTokenPda(program, key) == <<"token", program, key[3]>>

\* A slot and the hash that the SlotHashes sysvar has for it.
SlotHash(slot) == <<"hash", slot>>

\* An instruction names a program, accounts with the rights asked for, data.
Meta(address, rights) == [address |-> address, rights |-> rights]
Instruction(program, metas, data) ==
    [program |-> program, metas |-> metas, data |-> data]
=============================================================================
