----------------------- MODULE ProgramInterfaceProofs -----------------------
(***************************************************************************)
(* The client and the program understand each other: what one side writes  *)
(* the other reads, for any keys, wallets and identifiers, any number of   *)
(* calls, and, of instructions, for whatever their data and accounts are.  *)
(***************************************************************************)
EXTENDS ProgramInterface, SequenceTheorems, WellFoundedInduction, TLAPS

InstructionNames ==
    {"CreateConfig", "SetAdmin", "SetIssuer", "SetMinter", "ClosePhygitalToken", "Initialize",
     "AssignMint", "SetOwner", "Verify", "RemoveOwner"}

Builders(name) == {C!Synchronous[name], C!PhygitalTokenProgram[name]}

(***************************************************************************)
(* Both sides know the same ten instructions.                              *)
(***************************************************************************)
LEMMA NamesMatch ==
    /\ DOMAIN P!Entries = InstructionNames
    /\ DOMAIN C!Synchronous = InstructionNames
    /\ DOMAIN C!Parsed = InstructionNames
<1>1. DOMAIN P!Entries = InstructionNames
  BY DEF P!Entries, InstructionNames
<1>2. DOMAIN C!Synchronous = InstructionNames
  BY DEF C!Synchronous, InstructionNames
<1>3. DOMAIN C!Parsed = InstructionNames
  BY DEF C!Parsed, InstructionNames
<1> QED
  BY <1>1, <1>2, <1>3

(***************************************************************************)
(* A builder lays out the data the program reads, under the discriminator  *)
(* of its handler.                                                         *)
(***************************************************************************)
LEMMA LayoutsMatch ==
    ASSUME NEW name \in InstructionNames, NEW builder \in Builders(name)
    PROVE  /\ builder.layout.disc = P!Entries[name].disc
           /\ builder.layout.fields = P!Entries[name].params
<1> USE DEF Builders, C!Synchronous, C!PhygitalTokenProgram, C!Builder, C!Layout, C!Field,
            C!Secp256r1Pubkey, C!Option32, C!OptionStrings, C!ByteVector, P!Entries, P!Entry,
            P!Field, P!Option32, P!OptionStrings, P!ByteVector, P!VerifyArgs,
            C!Secp256r1VerifyArgs
<1>1. CASE name = "CreateConfig"
  BY <1>1 DEF P!CreateConfig, C!CreateConfigData, C!GetCreateConfigInstruction,
              C!GetCreateConfigInstructionAsync
<1>2. CASE name = "SetAdmin"
  BY <1>2 DEF P!SetAdmin, C!SetAdminData, C!GetSetAdminInstruction,
              C!GetSetAdminInstructionAsync
<1>3. CASE name = "SetIssuer"
  BY <1>3 DEF P!SetIssuer, C!SetIssuerData, C!GetSetIssuerInstruction,
              C!GetSetIssuerInstructionAsync
<1>4. CASE name = "SetMinter"
  BY <1>4 DEF P!SetMinter, C!SetMinterData, C!GetSetMinterInstruction,
              C!GetSetMinterInstructionAsync
<1>5. CASE name = "ClosePhygitalToken"
  BY <1>5 DEF P!ClosePhygitalToken, C!ClosePhygitalTokenData, C!GetClosePhygitalTokenInstruction,
              C!GetClosePhygitalTokenInstructionAsync
<1>6. CASE name = "Initialize"
  BY <1>6 DEF P!Initialize, C!InitializeData, C!GetInitializeInstruction,
              C!GetInitializeInstructionAsync
<1>7. CASE name = "AssignMint"
  BY <1>7 DEF P!AssignMint, C!AssignMintData, C!GetAssignMintInstruction,
              C!GetAssignMintInstructionAsync
<1>8. CASE name = "SetOwner"
  BY <1>8 DEF P!SetOwner, C!SetOwnerData, C!GetSetOwnerInstruction
<1>9. CASE name = "Verify"
  BY <1>9 DEF P!Verify, C!VerifyData, C!GetVerifyInstruction
<1>10. CASE name = "RemoveOwner"
  BY <1>10 DEF P!RemoveOwner, C!RemoveOwnerData, C!GetRemoveOwnerInstruction
<1> QED
  BY <1>1, <1>2, <1>3, <1>4, <1>5, <1>6, <1>7, <1>8, <1>9, <1>10 DEF InstructionNames

(***************************************************************************)
(* The client's parser names the accounts as the program does, in its      *)
(* order, each once.                                                       *)
(***************************************************************************)
LEMMA AccountsMatch ==
    ASSUME NEW name \in InstructionNames
    PROVE  /\ DOMAIN C!Parsed[name] = DOMAIN P!Entries[name].accounts
           /\ Len(C!Parsed[name]) = Len(P!Entries[name].accounts)
           /\ \A i \in DOMAIN C!Parsed[name] :
                C!Parsed[name][i] = P!Entries[name].accounts[i].name
           /\ \A i, j \in DOMAIN C!Parsed[name] :
                C!Parsed[name][i] = C!Parsed[name][j] => i = j
<1> USE DEF C!Parsed, P!Entries, P!Entry, P!Account, P!SetRole
<1>1. CASE name = "CreateConfig"
  BY <1>1 DEF P!CreateConfig, C!ParsedCreateConfig
<1>2. CASE name = "SetAdmin"
  BY <1>2 DEF P!SetAdmin, C!ParsedSetAdmin
<1>3. CASE name = "SetIssuer"
  BY <1>3 DEF P!SetIssuer, C!ParsedSetIssuer
<1>4. CASE name = "SetMinter"
  BY <1>4 DEF P!SetMinter, C!ParsedSetMinter
<1>5. CASE name = "ClosePhygitalToken"
  BY <1>5 DEF P!ClosePhygitalToken, C!ParsedClosePhygitalToken
<1>6. CASE name = "Initialize"
  BY <1>6 DEF P!Initialize, C!ParsedInitialize
<1>7. CASE name = "AssignMint"
  BY <1>7 DEF P!AssignMint, C!ParsedAssignMint
<1>8. CASE name = "SetOwner"
  BY <1>8 DEF P!SetOwner, C!ParsedSetOwner
<1>9. CASE name = "Verify"
  BY <1>9 DEF P!Verify, C!ParsedVerify
<1>10. CASE name = "RemoveOwner"
  BY <1>10 DEF P!RemoveOwner, C!ParsedRemoveOwner
<1> QED
  BY <1>1, <1>2, <1>3, <1>4, <1>5, <1>6, <1>7, <1>8, <1>9, <1>10 DEF InstructionNames

(***************************************************************************)
(* The discriminators tell the handlers apart.                             *)
(***************************************************************************)
LEMMA HandlersTold ==
    /\ \A name, other \in InstructionNames :
         P!Entries[name].disc = P!Entries[other].disc => name = other
    /\ \A name \in InstructionNames : name # "unknown" /\ name # "unreadable"
<1>1. \A name, other \in InstructionNames :
         P!Entries[name].disc = P!Entries[other].disc => name = other
  BY SMTT(30) DEF InstructionNames, P!Entries, P!Entry, P!CreateConfig, P!SetAdmin, P!SetIssuer,
         P!SetMinter, P!ClosePhygitalToken, P!Initialize, P!AssignMint, P!SetOwner, P!Verify,
         P!RemoveOwner
<1> QED
  BY <1>1 DEF InstructionNames

(***************************************************************************)
(* The client finds the name of an instruction where the program finds its *)
(* handler, and no name where it finds none.                               *)
(***************************************************************************)
LEMMA IdentifiedAlike ==
    ASSUME NEW data
    PROVE  /\ P!Known(data) =>
                /\ P!Handler(data) \in InstructionNames
                /\ P!Entries[P!Handler(data)].disc = data.disc
                /\ C!IdentifyPhygitalTokenInstruction(data) = P!Handler(data)
           /\ ~P!Known(data) => C!IdentifyPhygitalTokenInstruction(data) = "unknown"
<1> DEFINE table == [AssignMint |-> 68, ClosePhygitalToken |-> 254, CreateConfig |-> 201,
                     Initialize |-> 175, RemoveOwner |-> 153, SetAdmin |-> 251,
                     SetIssuer |-> 122, SetMinter |-> 13, SetOwner |-> 72, Verify |-> 133]
           found(n) == n \in InstructionNames /\ P!Entries[n].disc = data.disc
<1>1. DOMAIN table = InstructionNames
  BY DEF InstructionNames
<1>2. \A n \in InstructionNames : table[n] = P!Entries[n].disc
  BY SMTT(30) DEF InstructionNames, P!Entries, P!Entry, P!CreateConfig, P!SetAdmin, P!SetIssuer,
         P!SetMinter, P!ClosePhygitalToken, P!Initialize, P!AssignMint, P!SetOwner, P!Verify,
         P!RemoveOwner
<1>3. C!IdentifyPhygitalTokenInstruction(data) =
        IF \E n \in DOMAIN table : table[n] = data.disc
        THEN CHOOSE n \in DOMAIN table : table[n] = data.disc ELSE "unknown"
  BY DEF C!IdentifyPhygitalTokenInstruction, C!LookUp
<1> HIDE DEF table
<1>4. P!Known(data) <=> \E n \in InstructionNames : P!Entries[n].disc = data.disc
  BY NamesMatch DEF P!Known
<1>5. ASSUME P!Known(data)
      PROVE  /\ P!Handler(data) \in InstructionNames
             /\ P!Entries[P!Handler(data)].disc = data.disc
  BY <1>4, <1>5, NamesMatch DEF P!Handler
<1>6. ASSUME P!Known(data)
      PROVE  C!IdentifyPhygitalTokenInstruction(data) = P!Handler(data)
  <2>1. \E n \in DOMAIN table : table[n] = data.disc
    BY <1>1, <1>2, <1>4, <1>6
  <2> DEFINE n == CHOOSE n \in DOMAIN table : table[n] = data.disc
  <2>2. n \in InstructionNames /\ P!Entries[n].disc = data.disc
    BY <1>1, <1>2, <2>1
  <2>3. C!IdentifyPhygitalTokenInstruction(data) = n
    BY <1>3, <2>1
  <2> HIDE DEF n
  <2> QED
    BY <1>5, <1>6, <2>2, <2>3, HandlersTold
<1>7. ASSUME ~P!Known(data)
      PROVE  C!IdentifyPhygitalTokenInstruction(data) = "unknown"
  BY <1>1, <1>2, <1>3, <1>4, <1>7
<1> QED
  BY <1>5, <1>6, <1>7

(***************************************************************************)
(* Whatever an instruction holds, the client reads it exactly when the     *)
(* program does, and reads the call that the program makes of it.          *)
(***************************************************************************)
THEOREM ReadAlike ==
    ASSUME NEW ix
    PROVE  LET read == C!ParsePhygitalTokenInstruction(ix)
           IN /\ read.name # "unreadable" <=> P!Legible(ix)
              /\ P!Legible(ix) => read = P!Call(ix)
<1> DEFINE read == C!ParsePhygitalTokenInstruction(ix)
           name == P!Handler(ix.data)
           entry == P!Entries[name]
<1>1. CASE ~P!Known(ix.data)
  <2>1. C!IdentifyPhygitalTokenInstruction(ix.data) = "unknown"
    BY <1>1, IdentifiedAlike
  <2>2. read = [name |-> "unreadable"]
    BY <2>1 DEF C!ParsePhygitalTokenInstruction
  <2> QED
    BY <1>1, <2>2 DEF P!Legible
<1>2. CASE P!Known(ix.data)
  <2>1. name \in InstructionNames /\ C!IdentifyPhygitalTokenInstruction(ix.data) = name
    BY <1>2, IdentifiedAlike
  <2>2. name # "unknown" /\ name # "unreadable"
    BY <2>1, HandlersTold
  <2>3. C!Synchronous[name].layout.fields = entry.params
    BY <2>1, LayoutsMatch DEF Builders
  <2>4. /\ DOMAIN C!Parsed[name] = DOMAIN entry.accounts
        /\ Len(C!Parsed[name]) = Len(entry.accounts)
        /\ \A i \in DOMAIN C!Parsed[name] : C!Parsed[name][i] = entry.accounts[i].name
        /\ \A i, j \in DOMAIN C!Parsed[name] : C!Parsed[name][i] = C!Parsed[name][j] => i = j
    BY <2>1, AccountsMatch
  <2> HIDE DEF name
  <2>5. P!Legible(ix) <=> /\ Len(ix.data.cells) >= Len(entry.params)
                          /\ Len(ix.metas) >= Len(entry.accounts)
    BY <1>2 DEF P!Legible, P!Readable, name
  <2>6. read = IF P!Legible(ix)
               THEN [name |-> name, program |-> ix.program,
                     accounts |-> C!NameAccounts(C!Parsed[name], ix.metas),
                     values |-> C!Decode(entry.params, ix.data)]
               ELSE [name |-> "unreadable"]
    BY <2>1, <2>2, <2>3, <2>4, <2>5
       DEF C!ParsePhygitalTokenInstruction, C!Complete, C!Readable
  <2>7. C!Decode(entry.params, ix.data) = P!Decode(entry.params, ix.data)
    BY DEF C!Decode, P!Decode, C!Names, P!Names, C!Garbled, P!Garbled
  <2> DEFINE names == C!Parsed[name]
             spot(n) == CHOOSE i \in DOMAIN names : names[i] = n
             place(n) == CHOOSE i \in DOMAIN entry.accounts : entry.accounts[i].name = n
  <2>8. {names[i] : i \in DOMAIN names} = P!Names(entry.accounts)
    BY <2>4 DEF P!Names
  <2>9. ASSUME NEW n \in P!Names(entry.accounts)
        PROVE  spot(n) = place(n)
    <3>1. \E i \in DOMAIN names : names[i] = n
      BY <2>8
    <3>2. spot(n) \in DOMAIN names /\ names[spot(n)] = n
      BY <3>1
    <3>3. \E i \in DOMAIN entry.accounts : entry.accounts[i].name = n
      BY <2>4, <3>1
    <3>4. place(n) \in DOMAIN entry.accounts /\ entry.accounts[place(n)].name = n
      BY <3>3
    <3> HIDE DEF spot, place
    <3> QED
      BY <2>4, <3>2, <3>4
  <2>10. C!NameAccounts(C!Parsed[name], ix.metas) =
            [n \in P!Names(entry.accounts) |-> ix.metas[place(n)].address]
    <3>1. C!NameAccounts(C!Parsed[name], ix.metas) =
            [n \in P!Names(entry.accounts) |-> ix.metas[spot(n)].address]
      BY <2>8 DEF C!NameAccounts
    <3> HIDE DEF spot, place
    <3> QED
      BY <2>9, <3>1
  <2>11. P!Call(ix) = [name |-> name, program |-> ix.program,
                       accounts |-> [n \in P!Names(entry.accounts) |->
                                        ix.metas[place(n)].address],
                       values |-> P!Decode(entry.params, ix.data)]
    BY DEF P!Call, name
  <2> HIDE DEF read, entry, place
  <2>12. P!Legible(ix) => read = P!Call(ix)
    BY <2>6, <2>7, <2>10, <2>11
  <2>13. read.name # "unreadable" <=> P!Legible(ix)
    BY <2>2, <2>6
  <2> QED
    BY <2>12, <2>13 DEF read
<1> QED
  BY <1>1, <1>2

(***************************************************************************)
(* Whoever parses a transaction with the client reads the calls that are   *)
(* made: nothing a caller asks for is read otherwise than it is run.       *)
(***************************************************************************)
THEOREM AlwaysReadAsRun == Spec => []ReadAsRun
<1>1. ReadAsRun
  BY ReadAlike DEF ReadAsRun
<1> QED
  BY <1>1, PTL

----------------------------------------------------------------------------
(* Errors.                                                                 *)

(***************************************************************************)
(* Both sides have the same list of errors, each once; an error has one    *)
(* code on both, and no other failure has its name.                        *)
(***************************************************************************)
LEMMA CodesMatch ==
    /\ C!PhygitalTokenErrors = P!PhygitalError
    /\ DOMAIN P!PhygitalError = 1 .. 23
    /\ \A i, j \in 1 .. 23 : P!PhygitalError[i] = P!PhygitalError[j] => i = j
    /\ \A i \in 1 .. 23 : P!Code(P!PhygitalError[i]) = 5999 + i
    /\ \A i \in 1 .. 23 : C!Code(P!PhygitalError[i]) = 5999 + i
    /\ \A i \in 1 .. 23 : P!PhygitalError[i] # "stranger"
    /\ \A i \in 1 .. 23 : P!PhygitalError[i] # "refused"
    /\ \A i \in 1 .. 23 : P!PhygitalError[i] # "precompile"
<1>1. C!PhygitalTokenErrors = P!PhygitalError
  BY DEF C!PhygitalTokenErrors, P!PhygitalError
<1>2. DOMAIN P!PhygitalError = 1 .. 23
  BY DEF P!PhygitalError
<1>3. \A i, j \in 1 .. 23 : P!PhygitalError[i] = P!PhygitalError[j] => i = j
  BY DEF P!PhygitalError
<1>4. \A i \in 1 .. 23 : P!PhygitalError[i] # "stranger"
  BY DEF P!PhygitalError
<1>5. \A i \in 1 .. 23 : P!PhygitalError[i] # "refused"
  BY DEF P!PhygitalError
<1>8. \A i \in 1 .. 23 : P!PhygitalError[i] # "precompile"
  BY DEF P!PhygitalError
<1>6. \A i \in 1 .. 23 : P!Code(P!PhygitalError[i]) = 5999 + i
  BY <1>2, <1>3 DEF P!Code
<1>7. \A i \in 1 .. 23 : C!Code(P!PhygitalError[i]) = 5999 + i
  BY <1>1, <1>2, <1>3 DEF C!Code
<1> QED
  BY <1>1, <1>2, <1>3, <1>4, <1>5, <1>6, <1>7, <1>8

(***************************************************************************)
(* Strangers' instructions call no deployment of the program.              *)
(***************************************************************************)
LEMMA StrangersProgram ==
    ASSUME NEW program \in Deployments
    PROVE  Stranger.program # program
BY DEF Stranger, Instruction, Deployments, Main, Other

(***************************************************************************)
(* Among failures of a transaction as it was sent, the client tells the    *)
(* errors of the program called from all others.                           *)
(***************************************************************************)
LEMMA ErrorsTold == Inv => ErrorsNamedRight
<1> SUFFICES ASSUME Inv, stage = "failed", NEW n \in DOMAIN P!PhygitalError
             PROVE  LET error == P!PhygitalError[n]
                    IN C!IsPhygitalTokenError(failure, instructions, error, {asked.program})
                           <=> error = failure.why
  BY CodesMatch DEF ErrorsNamedRight
<1> DEFINE error == P!PhygitalError[n]
           named == C!IsPhygitalTokenError(failure, instructions, error, {asked.program})
<1>1. AskedFor /\ SentAsBuilt /\ FailedSo
  BY DEF Inv
<1>2. asked.program \in Deployments
  BY <1>1 DEF AskedFor
<1>3. Ours.program = asked.program
  BY <1>1 DEF SentAsBuilt, C!Build, C!Instruction
<1>0. n \in 1 .. 23
  BY CodesMatch
<1>4. named <=> /\ instructions[failure.index].program = asked.program
                /\ failure.code = 5999 + n
  BY CodesMatch DEF C!IsPhygitalTokenError, C!Coalesce
<1> HIDE DEF named
<1>5. CASE instructions[failure.index] = Stranger /\ failure.why = "stranger"
  BY <1>0, <1>2, <1>4, <1>5, CodesMatch, StrangersProgram DEF named
<1>8. CASE /\ instructions[failure.index].program = Secp256r1Program
           /\ failure.why = "precompile"
  <2>1. Secp256r1Program # asked.program
    BY <1>2 DEF Deployments, Main, Other, Secp256r1Program
  <2> QED
    BY <1>0, <1>4, <1>8, <2>1, CodesMatch DEF named
<1>6. CASE failure.why = "refused" /\ failure.code = 3000
  BY <1>0, <1>4, <1>6, CodesMatch DEF named
<1>7. CASE /\ failure.index = Len(instructions)
           /\ \E i \in DOMAIN P!PhygitalError : failure.why = P!PhygitalError[i]
           /\ failure.code = P!Code(failure.why)
  <2>1. PICK i \in DOMAIN P!PhygitalError : failure.why = P!PhygitalError[i]
    BY <1>7
  <2>2. i \in 1 .. 23 /\ failure.code = 5999 + i
    <3>1. i \in 1 .. 23
      BY CodesMatch
    <3>2. failure.code = P!Code(P!PhygitalError[i])
      BY <1>7, <2>1
    <3> QED
      BY <3>1, <3>2, CodesMatch
  <2>3. named <=> 5999 + i = 5999 + n
    BY <1>0, <1>3, <1>4, <1>7, <2>2 DEF Ours
  <2> QED
    BY <1>0, <2>1, <2>2, <2>3, CodesMatch DEF named
<1> QED
  BY <1>1, <1>5, <1>6, <1>7, <1>8 DEF FailedSo, named

----------------------------------------------------------------------------
(* Instructions as they are built and as they are checked.                 *)

\* An account of a builder passes a check of the program, if the caller gives
\* the right registry and the right token.
Suits(account, check) ==
    \/ check \in {"signer", "writable"} /\ check \in account.rights
    \/ check \in {"systemProgram", "slotHashes", "instructionsSysvar"} /\ account.default = check
    \/ /\ check \in {"config", "newConfig"}
       /\ account.name = "adminConfig" /\ account.default \in {"none", "adminConfigPda"}
    \/ /\ check \in {"token", "newToken"}
       /\ account.name = "phygitalToken" /\ account.default = "none"

AccountsSuit(listed, checked) ==
    /\ DOMAIN listed = 1 .. Len(listed) /\ DOMAIN checked = 1 .. Len(checked)
    /\ Len(listed) = Len(checked) /\ Len(checked) \in Nat \ {0}
    /\ \A i \in DOMAIN checked : listed[i].name = checked[i].name
    /\ \A i \in DOMAIN checked : \A check \in checked[i].checks : Suits(listed[i], check)

(***************************************************************************)
(* Each builder lists the accounts of the Rust struct in its order, asks   *)
(* for the rights that are checked, and fills in what has one right        *)
(* address.                                                                *)
(***************************************************************************)
LEMMA BuildersSuit ==
    ASSUME NEW name \in InstructionNames, NEW builder \in Builders(name)
    PROVE  AccountsSuit(builder.accounts, P!Entries[name].accounts)
<1> DEFINE listed == builder.accounts
           checked == P!Entries[name].accounts
<1>1. CASE name = "CreateConfig"
  <2>1. checked = <<P!Account("authority", {"signer", "writable"}),
                   P!Account("adminConfig", {"writable", "newConfig"}),
                   P!Account("systemProgram", {"systemProgram"})>>
    BY <1>1 DEF P!Entries, P!Entry, P!CreateConfig
  <2>2. \/ listed = <<C!Account("authority", {"signer", "writable"}),
                      C!Account("adminConfig", {"writable"}),
                      C!AccountOr("systemProgram", {}, "systemProgram")>>
        \/ listed = <<C!Account("authority", {"signer", "writable"}),
                      C!AccountOr("adminConfig", {"writable"}, "adminConfigPda"),
                      C!AccountOr("systemProgram", {}, "systemProgram")>>
    BY <1>1 DEF Builders, C!Synchronous, C!PhygitalTokenProgram, C!Builder,
           C!GetCreateConfigInstruction,
           C!GetCreateConfigInstructionAsync
  <2> HIDE DEF listed, checked
  <2>3. /\ DOMAIN listed = 1 .. 3 /\ Len(listed) = 3
        /\ DOMAIN checked = 1 .. 3 /\ Len(checked) = 3
    BY <2>1, <2>2
  <2>4. \A i \in 1 .. 3 : listed[i].name = checked[i].name
    BY <2>1, <2>2 DEF C!Account, C!AccountOr, P!Account
  <2>5. \A i \in 1 .. 3 : \A check \in checked[i].checks : Suits(listed[i], check)
    BY <2>1, <2>2 DEF C!Account, C!AccountOr, P!Account, Suits
  <2> QED
    BY <2>3, <2>4, <2>5 DEF AccountsSuit, listed, checked
<1>2. CASE name = "SetAdmin"
  <2>1. checked = <<P!Account("admin", {"signer"}),
                   P!Account("adminConfig", {"writable", "config"})>>
    BY <1>2 DEF P!Entries, P!Entry, P!SetAdmin, P!SetRole
  <2>2. \/ listed = <<C!Account("admin", {"signer"}), C!Account("adminConfig", {"writable"})>>
        \/ listed = <<C!Account("admin", {"signer"}),
                      C!AccountOr("adminConfig", {"writable"}, "adminConfigPda")>>
    BY <1>2 DEF Builders, C!Synchronous, C!PhygitalTokenProgram, C!Builder,
           C!GetSetAdminInstruction,
           C!GetSetAdminInstructionAsync
  <2> HIDE DEF listed, checked
  <2>3. /\ DOMAIN listed = 1 .. 2 /\ Len(listed) = 2
        /\ DOMAIN checked = 1 .. 2 /\ Len(checked) = 2
    BY <2>1, <2>2
  <2>4. \A i \in 1 .. 2 : listed[i].name = checked[i].name
    BY <2>1, <2>2 DEF C!Account, C!AccountOr, P!Account
  <2>5. \A i \in 1 .. 2 : \A check \in checked[i].checks : Suits(listed[i], check)
    BY <2>1, <2>2 DEF C!Account, C!AccountOr, P!Account, Suits
  <2> QED
    BY <2>3, <2>4, <2>5 DEF AccountsSuit, listed, checked
<1>3. CASE name = "SetIssuer"
  <2>1. checked = <<P!Account("admin", {"signer"}),
                   P!Account("adminConfig", {"writable", "config"})>>
    BY <1>3 DEF P!Entries, P!Entry, P!SetIssuer, P!SetRole
  <2>2. \/ listed = <<C!Account("admin", {"signer"}), C!Account("adminConfig", {"writable"})>>
        \/ listed = <<C!Account("admin", {"signer"}),
                      C!AccountOr("adminConfig", {"writable"}, "adminConfigPda")>>
    BY <1>3 DEF Builders, C!Synchronous, C!PhygitalTokenProgram, C!Builder,
           C!GetSetIssuerInstruction,
           C!GetSetIssuerInstructionAsync
  <2> HIDE DEF listed, checked
  <2>3. /\ DOMAIN listed = 1 .. 2 /\ Len(listed) = 2
        /\ DOMAIN checked = 1 .. 2 /\ Len(checked) = 2
    BY <2>1, <2>2
  <2>4. \A i \in 1 .. 2 : listed[i].name = checked[i].name
    BY <2>1, <2>2 DEF C!Account, C!AccountOr, P!Account
  <2>5. \A i \in 1 .. 2 : \A check \in checked[i].checks : Suits(listed[i], check)
    BY <2>1, <2>2 DEF C!Account, C!AccountOr, P!Account, Suits
  <2> QED
    BY <2>3, <2>4, <2>5 DEF AccountsSuit, listed, checked
<1>4. CASE name = "SetMinter"
  <2>1. checked = <<P!Account("admin", {"signer"}),
                   P!Account("adminConfig", {"writable", "config"})>>
    BY <1>4 DEF P!Entries, P!Entry, P!SetMinter, P!SetRole
  <2>2. \/ listed = <<C!Account("admin", {"signer"}), C!Account("adminConfig", {"writable"})>>
        \/ listed = <<C!Account("admin", {"signer"}),
                      C!AccountOr("adminConfig", {"writable"}, "adminConfigPda")>>
    BY <1>4 DEF Builders, C!Synchronous, C!PhygitalTokenProgram, C!Builder,
           C!GetSetMinterInstruction,
           C!GetSetMinterInstructionAsync
  <2> HIDE DEF listed, checked
  <2>3. /\ DOMAIN listed = 1 .. 2 /\ Len(listed) = 2
        /\ DOMAIN checked = 1 .. 2 /\ Len(checked) = 2
    BY <2>1, <2>2
  <2>4. \A i \in 1 .. 2 : listed[i].name = checked[i].name
    BY <2>1, <2>2 DEF C!Account, C!AccountOr, P!Account
  <2>5. \A i \in 1 .. 2 : \A check \in checked[i].checks : Suits(listed[i], check)
    BY <2>1, <2>2 DEF C!Account, C!AccountOr, P!Account, Suits
  <2> QED
    BY <2>3, <2>4, <2>5 DEF AccountsSuit, listed, checked
<1>5. CASE name = "ClosePhygitalToken"
  <2>1. checked = <<P!Account("admin", {"signer"}), P!Account("rentRecipient", {"writable"}),
                   P!Account("adminConfig", {"config"}),
                   P!Account("phygitalToken", {"writable", "token"})>>
    BY <1>5 DEF P!Entries, P!Entry, P!ClosePhygitalToken
  <2>2. \/ listed = <<C!Account("admin", {"signer"}),
                      C!Account("rentRecipient", {"writable"}), C!Account("adminConfig", {}),
                      C!Account("phygitalToken", {"writable"})>>
        \/ listed = <<C!Account("admin", {"signer"}),
                      C!Account("rentRecipient", {"writable"}),
                      C!AccountOr("adminConfig", {}, "adminConfigPda"),
                      C!Account("phygitalToken", {"writable"})>>
    BY <1>5 DEF Builders, C!Synchronous, C!PhygitalTokenProgram, C!Builder,
           C!GetClosePhygitalTokenInstruction,
           C!GetClosePhygitalTokenInstructionAsync
  <2> HIDE DEF listed, checked
  <2>3. /\ DOMAIN listed = 1 .. 4 /\ Len(listed) = 4
        /\ DOMAIN checked = 1 .. 4 /\ Len(checked) = 4
    BY <2>1, <2>2
  <2>4. \A i \in 1 .. 4 : listed[i].name = checked[i].name
    BY <2>1, <2>2 DEF C!Account, C!AccountOr, P!Account
  <2>5. \A i \in 1 .. 4 : \A check \in checked[i].checks : Suits(listed[i], check)
    BY <2>1, <2>2 DEF C!Account, C!AccountOr, P!Account, Suits
  <2> QED
    BY <2>3, <2>4, <2>5 DEF AccountsSuit, listed, checked
<1>6. CASE name = "Initialize"
  <2>1. checked = <<P!Account("authority", {"signer", "writable"}),
                   P!Account("adminConfig", {"config"}),
                   P!Account("phygitalToken", {"writable", "newToken"}),
                   P!Account("systemProgram", {"systemProgram"})>>
    BY <1>6 DEF P!Entries, P!Entry, P!Initialize
  <2>2. \/ listed = <<C!Account("authority", {"signer", "writable"}),
                      C!Account("adminConfig", {}), C!Account("phygitalToken", {"writable"}),
                      C!AccountOr("systemProgram", {}, "systemProgram")>>
        \/ listed = <<C!Account("authority", {"signer", "writable"}),
                      C!AccountOr("adminConfig", {}, "adminConfigPda"),
                      C!Account("phygitalToken", {"writable"}),
                      C!AccountOr("systemProgram", {}, "systemProgram")>>
    BY <1>6 DEF Builders, C!Synchronous, C!PhygitalTokenProgram, C!Builder,
           C!GetInitializeInstruction,
           C!GetInitializeInstructionAsync
  <2> HIDE DEF listed, checked
  <2>3. /\ DOMAIN listed = 1 .. 4 /\ Len(listed) = 4
        /\ DOMAIN checked = 1 .. 4 /\ Len(checked) = 4
    BY <2>1, <2>2
  <2>4. \A i \in 1 .. 4 : listed[i].name = checked[i].name
    BY <2>1, <2>2 DEF C!Account, C!AccountOr, P!Account
  <2>5. \A i \in 1 .. 4 : \A check \in checked[i].checks : Suits(listed[i], check)
    BY <2>1, <2>2 DEF C!Account, C!AccountOr, P!Account, Suits
  <2> QED
    BY <2>3, <2>4, <2>5 DEF AccountsSuit, listed, checked
<1>7. CASE name = "AssignMint"
  <2>1. checked = <<P!Account("authority", {"signer"}), P!Account("adminConfig", {"config"}),
                   P!Account("phygitalToken", {"writable", "token"})>>
    BY <1>7 DEF P!Entries, P!Entry, P!AssignMint
  <2>2. \/ listed = <<C!Account("authority", {"signer"}), C!Account("adminConfig", {}),
                      C!Account("phygitalToken", {"writable"})>>
        \/ listed = <<C!Account("authority", {"signer"}),
                      C!AccountOr("adminConfig", {}, "adminConfigPda"),
                      C!Account("phygitalToken", {"writable"})>>
    BY <1>7 DEF Builders, C!Synchronous, C!PhygitalTokenProgram, C!Builder,
           C!GetAssignMintInstruction,
           C!GetAssignMintInstructionAsync
  <2> HIDE DEF listed, checked
  <2>3. /\ DOMAIN listed = 1 .. 3 /\ Len(listed) = 3
        /\ DOMAIN checked = 1 .. 3 /\ Len(checked) = 3
    BY <2>1, <2>2
  <2>4. \A i \in 1 .. 3 : listed[i].name = checked[i].name
    BY <2>1, <2>2 DEF C!Account, C!AccountOr, P!Account
  <2>5. \A i \in 1 .. 3 : \A check \in checked[i].checks : Suits(listed[i], check)
    BY <2>1, <2>2 DEF C!Account, C!AccountOr, P!Account, Suits
  <2> QED
    BY <2>3, <2>4, <2>5 DEF AccountsSuit, listed, checked
<1>8. CASE name = "SetOwner"
  <2>1. checked = <<P!Account("recipient", {"signer"}),
                   P!Account("phygitalToken", {"writable", "token"}),
                   P!Account("slotHashes", {"slotHashes"}),
                   P!Account("instructionsSysvar", {"instructionsSysvar"})>>
    BY <1>8 DEF P!Entries, P!Entry, P!SetOwner
  <2>2. listed = <<C!Account("recipient", {"signer"}),
                  C!Account("phygitalToken", {"writable"}),
                  C!AccountOr("slotHashes", {}, "slotHashes"),
                  C!AccountOr("instructionsSysvar", {}, "instructionsSysvar")>>
    BY <1>8 DEF Builders, C!Synchronous, C!PhygitalTokenProgram, C!Builder,
           C!GetSetOwnerInstruction
  <2> HIDE DEF listed, checked
  <2>3. /\ DOMAIN listed = 1 .. 4 /\ Len(listed) = 4
        /\ DOMAIN checked = 1 .. 4 /\ Len(checked) = 4
    BY <2>1, <2>2
  <2>4. \A i \in 1 .. 4 : listed[i].name = checked[i].name
    BY <2>1, <2>2 DEF C!Account, C!AccountOr, P!Account
  <2>5. \A i \in 1 .. 4 : \A check \in checked[i].checks : Suits(listed[i], check)
    BY <2>1, <2>2 DEF C!Account, C!AccountOr, P!Account, Suits
  <2> QED
    BY <2>3, <2>4, <2>5 DEF AccountsSuit, listed, checked
<1>9. CASE name = "Verify"
  <2>1. checked = <<P!Account("phygitalToken", {"writable", "token"}),
                   P!Account("instructionsSysvar", {"instructionsSysvar"})>>
    BY <1>9 DEF P!Entries, P!Entry, P!Verify
  <2>2. listed = <<C!Account("phygitalToken", {"writable"}),
                  C!AccountOr("instructionsSysvar", {}, "instructionsSysvar")>>
    BY <1>9 DEF Builders, C!Synchronous, C!PhygitalTokenProgram, C!Builder,
           C!GetVerifyInstruction
  <2> HIDE DEF listed, checked
  <2>3. /\ DOMAIN listed = 1 .. 2 /\ Len(listed) = 2
        /\ DOMAIN checked = 1 .. 2 /\ Len(checked) = 2
    BY <2>1, <2>2
  <2>4. \A i \in 1 .. 2 : listed[i].name = checked[i].name
    BY <2>1, <2>2 DEF C!Account, C!AccountOr, P!Account
  <2>5. \A i \in 1 .. 2 : \A check \in checked[i].checks : Suits(listed[i], check)
    BY <2>1, <2>2 DEF C!Account, C!AccountOr, P!Account, Suits
  <2> QED
    BY <2>3, <2>4, <2>5 DEF AccountsSuit, listed, checked
<1>10. CASE name = "RemoveOwner"
  <2>1. checked = <<P!Account("owner", {"signer", "writable"}),
                   P!Account("phygitalToken", {"writable", "token"})>>
    BY <1>10 DEF P!Entries, P!Entry, P!RemoveOwner
  <2>2. listed = <<C!Account("owner", {"signer", "writable"}),
                  C!Account("phygitalToken", {"writable"})>>
    BY <1>10 DEF Builders, C!Synchronous, C!PhygitalTokenProgram, C!Builder,
           C!GetRemoveOwnerInstruction
  <2> HIDE DEF listed, checked
  <2>3. /\ DOMAIN listed = 1 .. 2 /\ Len(listed) = 2
        /\ DOMAIN checked = 1 .. 2 /\ Len(checked) = 2
    BY <2>1, <2>2
  <2>4. \A i \in 1 .. 2 : listed[i].name = checked[i].name
    BY <2>1, <2>2 DEF C!Account, C!AccountOr, P!Account
  <2>5. \A i \in 1 .. 2 : \A check \in checked[i].checks : Suits(listed[i], check)
    BY <2>1, <2>2 DEF C!Account, C!AccountOr, P!Account, Suits
  <2> QED
    BY <2>3, <2>4, <2>5 DEF AccountsSuit, listed, checked
<1> QED
  BY <1>1, <1>2, <1>3, <1>4, <1>5, <1>6, <1>7, <1>8, <1>9, <1>10 DEF InstructionNames

\* Fields in a row, each name once.
Laid(fields) ==
    /\ Len(fields) \in Nat /\ DOMAIN fields = 1 .. Len(fields)
    /\ \A i, j \in 1 .. Len(fields) : fields[i].name = fields[j].name => i = j

(***************************************************************************)
(* The parameters of every instruction and the fields of the accounts are  *)
(* laid out so.                                                            *)
(***************************************************************************)
LEMMA ParametersLaid == ASSUME NEW name \in InstructionNames PROVE Laid(P!Entries[name].params)
<1> USE DEF Laid, P!Entries, P!Entry, P!Field, P!VerifyArgs
<1>1. CASE name = "CreateConfig"
  BY <1>1 DEF P!CreateConfig
<1>2. CASE name = "SetAdmin"
  BY <1>2 DEF P!SetAdmin
<1>3. CASE name = "SetIssuer"
  BY <1>3 DEF P!SetIssuer
<1>4. CASE name = "SetMinter"
  BY <1>4 DEF P!SetMinter
<1>5. CASE name = "ClosePhygitalToken"
  BY <1>5 DEF P!ClosePhygitalToken
<1>6. CASE name = "Initialize"
  <2> DEFINE params == P!Entries[name].params
  <2>1. params = <<P!Field("identifier", 33), P!Field("secp256r1Pubkey", 33),
                     P!Field("tokenType", 1), P!Field("owner", 32)>>
    BY <1>6 DEF P!Initialize
  <2> HIDE DEF params
  <2>2. Laid(params)
    BY <2>1
  <2> QED
    BY <2>2 DEF params
<1>7. CASE name = "AssignMint"
  BY <1>7 DEF P!AssignMint
<1>8. CASE name = "SetOwner"
  <2> DEFINE params == P!Entries[name].params
  <2>1. params = <<P!Field("verifyArgsRelativeIndex", 8), P!Field("signedMessageIndex", 1),
                     P!Field("clientDataJson", P!ByteVector), P!Field("slotNumber", 8)>>
    BY <1>8 DEF P!SetOwner
  <2> HIDE DEF params
  <2>2. Laid(params)
    BY <2>1
  <2> QED
    BY <2>2 DEF params
<1>9. CASE name = "Verify"
  <2> DEFINE params == P!Entries[name].params
  <2>1. params = <<P!Field("verifyArgsRelativeIndex", 8), P!Field("signedMessageIndex", 1),
                     P!Field("clientDataJson", P!ByteVector), P!Field("messageHash", 32),
                     P!Field("expectedRpIdHash", P!Option32),
                     P!Field("expectedOrigins", P!OptionStrings)>>
    BY <1>9 DEF P!Verify
  <2> HIDE DEF params
  <2>2. Laid(params)
    BY <2>1
  <2> QED
    BY <2>2 DEF params
<1>10. CASE name = "RemoveOwner"
  BY <1>10 DEF P!RemoveOwner
<1> QED
  BY <1>1, <1>2, <1>3, <1>4, <1>5, <1>6, <1>7, <1>8, <1>9, <1>10 DEF InstructionNames

(***************************************************************************)
(* So are those of the two accounts.                                        *)
(***************************************************************************)
LEMMA AccountsLaid == Laid(P!AdminConfig.fields) /\ Laid(P!PhygitalToken.fields)
BY DEF Laid, P!AdminConfig, P!PhygitalToken, P!Layout, P!Field

(***************************************************************************)
(* The fields of the events and of the two accounts, by name.              *)
(***************************************************************************)
LEMMA FieldNames ==
    /\ P!Names(P!CreateConfigEvent.fields) = {"authority"}
    /\ P!Names(P!SetAdminEvent.fields) = {"previousAdmin", "newAdmin"}
    /\ P!Names(P!SetIssuerEvent.fields) = {"admin", "issuer"}
    /\ P!Names(P!SetMinterEvent.fields) = {"admin", "minter"}
    /\ P!Names(P!ClosePhygitalTokenEvent.fields) =
            {"admin", "rentRecipient", "publicKey", "identifier", "owner", "mint"}
    /\ P!Names(P!InitializeEvent.fields) =
            {"authority", "publicKey", "identifier", "owner", "tokenType"}
    /\ P!Names(P!AssignMintEvent.fields) = {"publicKey", "authority", "identifier", "mint"}
    /\ P!Names(P!SetOwnerEvent.fields) = {"recipient", "owner", "publicKey", "identifier"}
    /\ P!Names(P!RemoveOwnerEvent.fields) = {"owner", "publicKey", "identifier"}
    /\ P!Names(P!AdminConfig.fields) = {"bump", "admin", "issuer", "minter"}
    /\ P!Names(P!PhygitalToken.fields) =
            {"owner", "mint", "lastSignCount", "tokenType", "bump", "publicKey", "identifier"}
<1>1. ASSUME NEW a PROVE P!Names(<<a>>) = {a.name}
  BY DEF P!Names
<1>2. ASSUME NEW a, NEW b PROVE P!Names(<<a, b>>) = {a.name, b.name}
  BY DEF P!Names
<1>3. ASSUME NEW a, NEW b, NEW c PROVE P!Names(<<a, b, c>>) = {a.name, b.name, c.name}
  BY DEF P!Names
<1>4. ASSUME NEW a, NEW b, NEW c, NEW d
      PROVE  P!Names(<<a, b, c, d>>) = {a.name, b.name, c.name, d.name}
  BY DEF P!Names
<1>5. ASSUME NEW a, NEW b, NEW c, NEW d, NEW e
      PROVE  P!Names(<<a, b, c, d, e>>) = {a.name, b.name, c.name, d.name, e.name}
  BY DEF P!Names
<1>6. ASSUME NEW a, NEW b, NEW c, NEW d, NEW e, NEW g
      PROVE  P!Names(<<a, b, c, d, e, g>>) = {a.name, b.name, c.name, d.name, e.name, g.name}
  BY DEF P!Names
<1>7. ASSUME NEW a, NEW b, NEW c, NEW d, NEW e, NEW g, NEW h
      PROVE  P!Names(<<a, b, c, d, e, g, h>>) =
                {a.name, b.name, c.name, d.name, e.name, g.name, h.name}
  BY DEF P!Names
<1> USE DEF P!Field, P!Layout
<1>8. P!Names(P!CreateConfigEvent.fields) = {"authority"}
  BY <1>1 DEF P!CreateConfigEvent
<1>9. P!Names(P!SetAdminEvent.fields) = {"previousAdmin", "newAdmin"}
  BY <1>2 DEF P!SetAdminEvent
<1>10. P!Names(P!SetIssuerEvent.fields) = {"admin", "issuer"}
  BY <1>2 DEF P!SetIssuerEvent
<1>11. P!Names(P!SetMinterEvent.fields) = {"admin", "minter"}
  BY <1>2 DEF P!SetMinterEvent
<1>12. P!Names(P!ClosePhygitalTokenEvent.fields) =
            {"admin", "rentRecipient", "publicKey", "identifier", "owner", "mint"}
  BY <1>6 DEF P!ClosePhygitalTokenEvent
<1>13. P!Names(P!InitializeEvent.fields) =
            {"authority", "publicKey", "identifier", "owner", "tokenType"}
  BY <1>5 DEF P!InitializeEvent
<1>14. P!Names(P!AssignMintEvent.fields) = {"publicKey", "authority", "identifier", "mint"}
  BY <1>4 DEF P!AssignMintEvent
<1>15. P!Names(P!SetOwnerEvent.fields) = {"recipient", "owner", "publicKey", "identifier"}
  BY <1>4 DEF P!SetOwnerEvent
<1>16. P!Names(P!RemoveOwnerEvent.fields) = {"owner", "publicKey", "identifier"}
  BY <1>3 DEF P!RemoveOwnerEvent
<1>17. P!Names(P!AdminConfig.fields) = {"bump", "admin", "issuer", "minter"}
  BY <1>4 DEF P!AdminConfig
<1>18. P!Names(P!PhygitalToken.fields) =
            {"owner", "mint", "lastSignCount", "tokenType", "bump", "publicKey", "identifier"}
  BY <1>7 DEF P!PhygitalToken
<1> QED
  BY <1>8, <1>9, <1>10, <1>11, <1>12, <1>13, <1>14, <1>15, <1>16, <1>17, <1>18

(***************************************************************************)
(* Both sides encode and decode by the same widths.                        *)
(***************************************************************************)
LEMMA SameCodec ==
    /\ \A layout, values : C!Encode(layout, values) = P!Encode(layout, values)
    /\ \A fields, data : C!Decode(fields, data) = P!Decode(fields, data)
    /\ \A fields : C!Names(fields) = P!Names(fields)
BY DEF C!Encode, P!Encode, C!Decode, P!Decode, C!Names, P!Names, C!Garbled, P!Garbled

(***************************************************************************)
(* What is encoded by a layout is read back by it, field by field.         *)
(***************************************************************************)
LEMMA RoundTrip ==
    ASSUME NEW layout, Laid(layout.fields), NEW values
    PROVE  LET data == P!Encode(layout, values)
           IN /\ data.disc = layout.disc
              /\ Len(data.cells) = Len(layout.fields)
              /\ P!Decode(layout.fields, data) = [n \in P!Names(layout.fields) |-> values[n]]
<1> DEFINE data == P!Encode(layout, values)
           fields == layout.fields
           place(n) == CHOOSE i \in DOMAIN fields : fields[i].name = n
<1>1. data.disc = layout.disc
  BY DEF P!Encode
<1>2. data.cells = [i \in 1 .. Len(fields) |-> <<fields[i].width, values[fields[i].name]>>]
  BY DEF P!Encode, Laid
<1>3. Len(data.cells) = Len(fields)
  BY <1>2 DEF Laid
<1>4. \A n \in P!Names(fields) : place(n) \in 1 .. Len(fields) /\ fields[place(n)].name = n
  BY DEF P!Names, Laid
<1> HIDE DEF data, place
<1>5. \A i \in 1 .. Len(fields) :
        data.cells[i][1] = fields[i].width /\ data.cells[i][2] = values[fields[i].name]
  BY <1>2
<1>6. \A n \in P!Names(fields) :
        (IF \A j \in 1 .. place(n) : data.cells[j][1] = fields[j].width
         THEN data.cells[place(n)][2] ELSE P!Garbled) = values[n]
  BY <1>4, <1>5 DEF Laid
<1>7. P!Decode(fields, data) =
        [n \in P!Names(fields) |->
            IF \A j \in 1 .. place(n) : data.cells[j][1] = fields[j].width
            THEN data.cells[place(n)][2] ELSE P!Garbled]
  BY DEF P!Decode, place
<1>8. P!Decode(fields, data) = [n \in P!Names(fields) |-> values[n]]
  BY <1>6, <1>7
<1> QED
  BY <1>1, <1>3, <1>8 DEF data

(***************************************************************************)
(* Addresses of registries and tokens: each names its deployment, and a    *)
(* token its key up to the prefix.                                         *)
(***************************************************************************)
LEMMA AddressesTold ==
    /\ \A p, q : AdminConfigPda(p) = AdminConfigPda(q) => p = q
    /\ \A p, q, k, l : PhygitalTokenPda(p, k) = PhygitalTokenPda(q, l) <=> p = q /\ k[3] = l[3]
    /\ \A p, q, k : AdminConfigPda(p) # PhygitalTokenPda(q, k)
    /\ \A p, k : PhygitalTokenPda(p, k)[2] = p /\ AdminConfigPda(p)[2] = p
    /\ \A p \in Deployments : Elsewhere(p) # p
<1>1. \A p, q : AdminConfigPda(p) = AdminConfigPda(q) => p = q
  BY DEF AdminConfigPda
<1>2. \A p, q, k, l : PhygitalTokenPda(p, k) = PhygitalTokenPda(q, l) <=> p = q /\ k[3] = l[3]
  BY DEF PhygitalTokenPda
<1>3. \A p, q, k : AdminConfigPda(p) # PhygitalTokenPda(q, k)
  BY DEF PhygitalTokenPda, AdminConfigPda
<1>4. \A p, k : PhygitalTokenPda(p, k)[2] = p /\ AdminConfigPda(p)[2] = p
  BY DEF PhygitalTokenPda, AdminConfigPda
<1>5. \A p \in Deployments : Elsewhere(p) # p
  BY DEF Deployments, Elsewhere, Main, Other
<1> QED
  BY <1>1, <1>2, <1>3, <1>4, <1>5

(***************************************************************************)
(* Both sides derive the same addresses and name the same programs.        *)
(***************************************************************************)
LEMMA SameAddresses ==
    /\ \A p : P!AdminConfigPda(p) = AdminConfigPda(p) /\ C!AdminConfigPda(p) = AdminConfigPda(p)
    /\ \A p, k : /\ P!PhygitalTokenPda(p, k) = PhygitalTokenPda(p, k)
                 /\ C!PhygitalTokenPda(p, k) = PhygitalTokenPda(p, k)
    /\ C!SystemProgram = P!SystemProgram /\ C!SlotHashes = P!SlotHashes
    /\ C!InstructionsSysvar = P!InstructionsSysvar
    /\ C!Main = Main /\ P!Main = Main /\ P!Other = Other
BY DEF P!AdminConfigPda, C!AdminConfigPda, AdminConfigPda, P!PhygitalTokenPda,
       C!PhygitalTokenPda, PhygitalTokenPda, C!SystemProgram, P!SystemProgram, C!SlotHashes,
       P!SlotHashes, C!InstructionsSysvar, P!InstructionsSysvar, C!Main, Main, P!Main, P!Other,
       Other

(***************************************************************************)
(* What stands at the address of a registry or a token is one.             *)
(***************************************************************************)
LEMMA InPlaceHolds ==
    ASSUME NEW data, InPlace(data)
    PROVE  /\ \A p : AdminConfigPda(p) \in DOMAIN data =>
                WellFormed(data[AdminConfigPda(p)], P!AdminConfig)
           /\ \A p, k : PhygitalTokenPda(p, k) \in DOMAIN data =>
                WellFormed(data[PhygitalTokenPda(p, k)], P!PhygitalToken)
           /\ \A a \in DOMAIN data :
                data[a].disc = P!PhygitalToken.disc =>
                    /\ WellFormed(data[a], P!PhygitalToken)
                    /\ \E p \in Deployments, k \in Keys : a = PhygitalTokenPda(p, k)
<1>1. \A a \in DOMAIN data : WellFormed(data[a], P!AdminConfig) => data[a].disc = 156
  BY DEF WellFormed, P!Encode, P!AdminConfig, P!Layout
<1>2. P!PhygitalToken.disc = 123
  BY DEF P!PhygitalToken, P!Layout
<1> QED
  BY <1>1, <1>2, AddressesTold DEF InPlace

(***************************************************************************)
(* An instruction that was sent is found to be what was asked for, is      *)
(* read unless it lacks an account, and carries the values given.          *)
(***************************************************************************)
LEMMA SentIsRead ==
    ASSUME AskedFor, SentAsBuilt
    PROVE  /\ asked.name \in InstructionNames /\ Ours.program = asked.program
           /\ P!Known(Ours.data) /\ P!Handler(Ours.data) = asked.name
           /\ P!Legible(Ours) <=> asked.shape # "short"
           /\ P!Call(Ours).name = asked.name /\ P!Call(Ours).program = asked.program
           /\ P!Call(Ours).values = [n \in P!Names(P!Entries[asked.name].params) |->
                                        OnWire(asked.values)[n]]
<1> DEFINE name == asked.name
           entry == P!Entries[name]
           given == asked.given
           values == OnWire(asked.values)
<1>1. name \in InstructionNames
  BY NamesMatch DEF AskedFor
<1>2. PICK builder \in Builders(name) :
        LET built == C!Build(builder, asked.program, given, values)
        IN Ours = [built EXCEPT !.metas = Listed(@, asked.shape)]
  BY DEF SentAsBuilt, Builders
<1> DEFINE metas == C!Build(builder, asked.program, given, values).metas
<1>3. /\ Ours.program = asked.program
      /\ Ours.metas = Listed(metas, asked.shape)
      /\ Ours.data = C!Encode(builder.layout, values)
  BY <1>2 DEF C!Build, C!Instruction
<1>4. builder.layout.disc = entry.disc /\ builder.layout.fields = entry.params
  BY <1>1, LayoutsMatch
<1>5. Laid(builder.layout.fields)
  BY <1>1, <1>4, ParametersLaid
<1> HIDE DEF name, values, given
<1>6. /\ Ours.data.disc = entry.disc
      /\ Len(Ours.data.cells) = Len(entry.params)
      /\ P!Decode(entry.params, Ours.data) = [n \in P!Names(entry.params) |-> values[n]]
  BY <1>3, <1>4, <1>5, SameCodec, RoundTrip
<1>7. P!Known(Ours.data)
  BY <1>1, <1>6, NamesMatch DEF P!Known
<1>8. P!Handler(Ours.data) = name
  BY <1>1, <1>6, <1>7, IdentifiedAlike, HandlersTold
<1>9. /\ Len(metas) = Len(entry.accounts) /\ Len(metas) \in Nat \ {0}
      /\ metas \in Seq(UNION {{metas[i]} : i \in DOMAIN metas})
  <2>1. AccountsSuit(builder.accounts, entry.accounts)
    BY <1>1, BuildersSuit
  <2>2. DOMAIN metas = 1 .. Len(entry.accounts) /\ Len(entry.accounts) \in Nat \ {0}
    BY <2>1 DEF C!Build, C!Instruction, AccountsSuit
  <2>3. metas = [i \in 1 .. Len(entry.accounts) |-> metas[i]]
    BY <2>1 DEF C!Build, C!Instruction, AccountsSuit
  <2> HIDE DEF metas
  <2> QED
    BY <2>2, <2>3
<1> HIDE DEF metas
<1>10. Len(Ours.metas) >= Len(entry.accounts) <=> asked.shape # "short"
  BY <1>3, <1>9 DEF Listed
<1>11. P!Legible(Ours) <=> asked.shape # "short"
  BY <1>5, <1>4, <1>6, <1>7, <1>8, <1>10 DEF P!Legible, P!Readable, Laid
<1>12. /\ P!Call(Ours).name = name /\ P!Call(Ours).program = asked.program
       /\ P!Call(Ours).values = [n \in P!Names(entry.params) |-> values[n]]
  BY <1>3, <1>6, <1>8 DEF P!Call
<1> QED
  BY <1>1, <1>3, <1>7, <1>8, <1>11, <1>12 DEF name, values

(***************************************************************************)
(* Each of its accounts stands where the program expects it, with the      *)
(* rights asked for: the one given, or the default. What is given comes    *)
(* to the handler under its name.                                          *)
(***************************************************************************)
LEMMA SentAccounts ==
    ASSUME AskedFor, SentAsBuilt, asked.shape # "short"
    PROVE  /\ \E builder \in Builders(asked.name) :
                LET listed == builder.accounts
                    checked == P!Entries[asked.name].accounts
                IN /\ AccountsSuit(listed, checked)
                   /\ DOMAIN asked.given = Needed(builder)
                   /\ \A i \in DOMAIN checked :
                        /\ Ours.metas[i].rights = listed[i].rights
                        /\ Ours.metas[i].address =
                                IF listed[i].name \in DOMAIN asked.given
                                THEN asked.given[listed[i].name]
                                ELSE C!DefaultAddress(listed[i].default, asked.program)
           /\ \A n \in DOMAIN asked.given :
                /\ n \in P!Names(P!Entries[asked.name].accounts)
                /\ P!Call(Ours).accounts[n] = asked.given[n]
<1> DEFINE name == asked.name
           entry == P!Entries[name]
           checked == entry.accounts
           given == asked.given
<1>1. name \in InstructionNames /\ P!Handler(Ours.data) = name
  BY SentIsRead
<1>2. PICK builder \in Builders(name) :
        LET built == C!Build(builder, asked.program, given, OnWire(asked.values))
        IN /\ DOMAIN given = Needed(builder)
           /\ Ours = [built EXCEPT !.metas = Listed(@, asked.shape)]
  BY DEF SentAsBuilt, Builders
<1> DEFINE listed == builder.accounts
           metas == C!Build(builder, asked.program, given, OnWire(asked.values)).metas
           address(i) == IF listed[i].name \in DOMAIN given THEN given[listed[i].name]
                         ELSE C!DefaultAddress(listed[i].default, asked.program)
<1>3. AccountsSuit(listed, checked)
  BY <1>1, BuildersSuit
<1>4. metas = [i \in 1 .. Len(checked) |-> C!Meta(address(i), listed[i].rights)]
  BY <1>3 DEF C!Build, C!Instruction, AccountsSuit
<1>5. Ours.metas = Listed(metas, asked.shape)
  BY <1>2 DEF C!Build, C!Instruction
<1> HIDE DEF metas, address, given, name, entry, checked, listed
<1>6. /\ Len(checked) \in Nat /\ Len(metas) = Len(checked)
      /\ DOMAIN checked = 1 .. Len(checked)
  BY <1>3, <1>4 DEF AccountsSuit
<1>7. \A i \in 1 .. Len(checked) : Ours.metas[i] = C!Meta(address(i), listed[i].rights)
  <2>1. CASE asked.shape = "longer"
    <3>1. metas \in Seq({metas[i] : i \in 1 .. Len(checked)})
      BY <1>4, <1>6
    <3>2. Ours.metas = Append(metas, Meta(SystemProgram, {}))
      BY <1>5, <2>1 DEF Listed
    <3>3. \A i \in 1 .. Len(checked) : Ours.metas[i] = metas[i]
      BY <1>6, <3>1, <3>2
    <3> QED
      BY <1>4, <3>3
  <2>2. CASE asked.shape # "longer"
    BY <1>4, <1>5, <2>2 DEF Listed
  <2> QED
    BY <2>1, <2>2
<1>8. \A i \in DOMAIN checked : /\ Ours.metas[i].rights = listed[i].rights
                               /\ Ours.metas[i].address = address(i)
  <2> SUFFICES ASSUME NEW i \in DOMAIN checked
               PROVE  Ours.metas[i].rights = listed[i].rights /\ Ours.metas[i].address = address(i)
    OBVIOUS
  <2>1. Ours.metas[i] = C!Meta(address(i), listed[i].rights)
    BY <1>6, <1>7
  <2> QED
    BY <2>1 DEF C!Meta
<1>9. ASSUME NEW n \in DOMAIN given
      PROVE  /\ n \in P!Names(checked)
             /\ P!Call(Ours).accounts[n] = given[n]
  <2>1. PICK i \in DOMAIN listed : listed[i].name = n
    BY <1>2 DEF Needed, listed
  <2>2. i \in DOMAIN checked /\ checked[i].name = n
    BY <1>3, <2>1 DEF AccountsSuit
  <2>3. \A j \in DOMAIN checked : checked[j].name = n => j = i
    BY <1>1, <2>2, AccountsMatch DEF checked, entry, name
  <2> DEFINE place == CHOOSE j \in DOMAIN checked : checked[j].name = n
  <2>4. place = i
    BY <2>2, <2>3
  <2>5. n \in P!Names(checked)
    BY <2>2 DEF P!Names
  <2>6. P!Call(Ours).accounts[n] = Ours.metas[place].address
    BY <1>1, <2>5 DEF P!Call, checked, entry, name
  <2> QED
    BY <1>8, <2>1, <2>2, <2>4, <2>5, <2>6 DEF address
<1>10. /\ AccountsSuit(listed, checked) /\ DOMAIN given = Needed(builder)
       /\ \A i \in DOMAIN checked :
            /\ Ours.metas[i].rights = listed[i].rights
            /\ Ours.metas[i].address = address(i)
  BY <1>2, <1>3, <1>8 DEF listed
<1> QED
  BY <1>9, <1>10 DEF address, given, name, entry, checked, listed

(***************************************************************************)
(* What each check of the program comes to for such an instruction: that   *)
(* the registry is that of the program called, and that registry and token *)
(* are there, or not yet.                                                  *)
(***************************************************************************)
ChecksOut(check, data) ==
    LET registry == AdminConfigPda(asked.program)
        token == PhygitalTokenPda(asked.program, asked.key)
    IN /\ check \in {"config", "newConfig"} => ~asked.stray
       /\ check = "config" => registry \in DOMAIN data
       /\ check = "newConfig" => registry \notin DOMAIN data
       /\ check = "token" => token \in DOMAIN data
       /\ check = "newToken" => /\ token \notin DOMAIN data
                               /\ P!Call(Ours).values.secp256r1Pubkey[3] = asked.key[3]

LEMMA SentIsChecked ==
    ASSUME AskedFor, SentAsBuilt, asked.shape # "short", NEW data, InPlace(data),
           NEW i \in DOMAIN P!Entries[asked.name].accounts,
           NEW check \in P!Entries[asked.name].accounts[i].checks
    PROVE  P!Meets(check, Ours.metas[i], Ours.program, P!Call(Ours).values, data)
                <=> ChecksOut(check, data)
<1> DEFINE checked == P!Entries[asked.name].accounts
           meta == Ours.metas[i]
           values == P!Call(Ours).values
           program == asked.program
           meets == P!Meets(check, meta, Ours.program, values, data)
<1>1. Ours.program = program /\ program \in Deployments
  BY SentIsRead DEF AskedFor
<1>2. PICK builder \in Builders(asked.name) :
        LET listed == builder.accounts
        IN /\ AccountsSuit(listed, checked)
           /\ DOMAIN asked.given = Needed(builder)
           /\ meta.rights = listed[i].rights
           /\ meta.address = IF listed[i].name \in DOMAIN asked.given
                             THEN asked.given[listed[i].name]
                             ELSE C!DefaultAddress(listed[i].default, program)
  BY SentAccounts
<1> DEFINE account == builder.accounts[i]
<1>3. Suits(account, check) /\ i \in DOMAIN builder.accounts
  BY <1>2 DEF AccountsSuit
<1>4. account.default = "none" => account.name \in DOMAIN asked.given
  BY <1>2, <1>3 DEF Needed
<1> HIDE DEF account, checked
<1>5. CASE check \in {"signer", "writable"}
  BY <1>2, <1>3, <1>5 DEF Suits, P!Meets, ChecksOut, account
<1>6. CASE check \in {"systemProgram", "slotHashes", "instructionsSysvar"}
  <2>1. account.default = check
    BY <1>3, <1>6 DEF Suits
  <2>2. account.name \notin DOMAIN asked.given
    <3>1. \A j \in DOMAIN builder.accounts :
            builder.accounts[j].name = account.name => j = i
      BY <1>2, <1>3, SentIsRead, AccountsMatch DEF AccountsSuit, account, checked
    <3> QED
      BY <1>2, <2>1, <1>6, <3>1 DEF Needed, account
  <2> QED
    BY <1>2, <1>6, <2>1, <2>2, SameAddresses
       DEF P!Meets, ChecksOut, C!DefaultAddress, account
<1>7. CASE check \in {"config", "newConfig"}
  <2>1. account.name = "adminConfig" /\ account.default \in {"none", "adminConfigPda"}
    BY <1>3, <1>7 DEF Suits
  <2>2. meta.address = AdminConfigPda(program) <=> ~asked.stray
    <3>1. CASE "adminConfig" \in DOMAIN asked.given
      BY <1>1, <1>2, <2>1, <3>1, AddressesTold DEF AskedFor, account
    <3>2. CASE "adminConfig" \notin DOMAIN asked.given
      BY <1>2, <1>4, <2>1, <3>2, SameAddresses DEF AskedFor, C!DefaultAddress, account
    <3> QED
      BY <3>1, <3>2
  <2> QED
    BY <1>1, <1>7, <2>2, SameAddresses DEF P!Meets, ChecksOut
<1>8. CASE check \in {"token", "newToken"}
  <2>1. meta.address = PhygitalTokenPda(program, asked.key)
    BY <1>2, <1>3, <1>4, <1>8 DEF Suits, AskedFor, account
  <2>2. CASE check = "token"
    <3>1. meets <=> /\ meta.address \in DOMAIN data
                    /\ data[meta.address].disc = P!PhygitalToken.disc
                    /\ meta.address[2] = program
      BY <1>1, <2>2 DEF P!Meets
    <3>2. meta.address \in DOMAIN data => data[meta.address].disc = P!PhygitalToken.disc
      BY <2>1, InPlaceHolds DEF WellFormed, P!Encode
    <3> QED
      BY <2>1, <2>2, <3>1, <3>2, AddressesTold DEF ChecksOut
  <2>3. CASE check = "newToken"
    <3>1. meets <=> /\ meta.address = PhygitalTokenPda(program, values.secp256r1Pubkey)
                    /\ meta.address \notin DOMAIN data
      BY <1>1, <2>3, SameAddresses DEF P!Meets
    <3> QED
      BY <2>1, <2>3, <3>1, AddressesTold DEF ChecksOut
  <2> QED
    BY <1>8, <2>2, <2>3
<1> QED
  BY <1>3, <1>5, <1>6, <1>7, <1>8 DEF Suits

\* The checks of a registry or a token that an instruction makes.
Checks(name) ==
    LET checked == P!Entries[name].accounts
    IN {c \in {"config", "newConfig", "token", "newToken"} :
            \E i \in DOMAIN checked : c \in checked[i].checks}

(***************************************************************************)
(* Which instructions need a registry or a token, or create one.           *)
(***************************************************************************)
LEMMA ChecksMade ==
    ASSUME NEW name \in InstructionNames
    PROVE  Checks(name) =
             CASE name = "CreateConfig" -> {"newConfig"}
               [] name \in {"SetAdmin", "SetIssuer", "SetMinter"} -> {"config"}
               [] name \in {"ClosePhygitalToken", "AssignMint"} -> {"config", "token"}
               [] name = "Initialize" -> {"config", "newToken"}
               [] OTHER -> {"token"}
<1> DEFINE checked == P!Entries[name].accounts
           need == {"config", "newConfig", "token", "newToken"}
<1>1. CASE name = "CreateConfig"
  <2>1. checked = <<P!Account("authority", {"signer", "writable"}),
                   P!Account("adminConfig", {"writable", "newConfig"}),
                   P!Account("systemProgram", {"systemProgram"})>>
    BY <1>1 DEF P!Entries, P!Entry, P!CreateConfig
  <2> HIDE DEF checked
  <2>2. DOMAIN checked = 1 .. 3
    BY <2>1
  <2>3. /\ checked[1].checks = {"signer", "writable"}
        /\ checked[2].checks = {"writable", "newConfig"}
        /\ checked[3].checks = {"systemProgram"}
    BY <2>1 DEF P!Account
  <2>4. {c \in need : \E i \in 1 .. 3 : c \in checked[i].checks} = {"newConfig"}
    BY <2>3
  <2> QED
    BY <1>1, <2>2, <2>4 DEF Checks, checked
<1>2. CASE name = "SetAdmin"
  <2>1. checked = <<P!Account("admin", {"signer"}),
                   P!Account("adminConfig", {"writable", "config"})>>
    BY <1>2 DEF P!Entries, P!Entry, P!SetAdmin, P!SetRole
  <2> HIDE DEF checked
  <2>2. DOMAIN checked = 1 .. 2
    BY <2>1
  <2>3. /\ checked[1].checks = {"signer"}
        /\ checked[2].checks = {"writable", "config"}
    BY <2>1 DEF P!Account
  <2>4. {c \in need : \E i \in 1 .. 2 : c \in checked[i].checks} = {"config"}
    BY <2>3
  <2> QED
    BY <1>2, <2>2, <2>4 DEF Checks, checked
<1>3. CASE name = "SetIssuer"
  <2>1. checked = <<P!Account("admin", {"signer"}),
                   P!Account("adminConfig", {"writable", "config"})>>
    BY <1>3 DEF P!Entries, P!Entry, P!SetIssuer, P!SetRole
  <2> HIDE DEF checked
  <2>2. DOMAIN checked = 1 .. 2
    BY <2>1
  <2>3. /\ checked[1].checks = {"signer"}
        /\ checked[2].checks = {"writable", "config"}
    BY <2>1 DEF P!Account
  <2>4. {c \in need : \E i \in 1 .. 2 : c \in checked[i].checks} = {"config"}
    BY <2>3
  <2> QED
    BY <1>3, <2>2, <2>4 DEF Checks, checked
<1>4. CASE name = "SetMinter"
  <2>1. checked = <<P!Account("admin", {"signer"}),
                   P!Account("adminConfig", {"writable", "config"})>>
    BY <1>4 DEF P!Entries, P!Entry, P!SetMinter, P!SetRole
  <2> HIDE DEF checked
  <2>2. DOMAIN checked = 1 .. 2
    BY <2>1
  <2>3. /\ checked[1].checks = {"signer"}
        /\ checked[2].checks = {"writable", "config"}
    BY <2>1 DEF P!Account
  <2>4. {c \in need : \E i \in 1 .. 2 : c \in checked[i].checks} = {"config"}
    BY <2>3
  <2> QED
    BY <1>4, <2>2, <2>4 DEF Checks, checked
<1>5. CASE name = "ClosePhygitalToken"
  <2>1. checked = <<P!Account("admin", {"signer"}), P!Account("rentRecipient", {"writable"}),
                   P!Account("adminConfig", {"config"}),
                   P!Account("phygitalToken", {"writable", "token"})>>
    BY <1>5 DEF P!Entries, P!Entry, P!ClosePhygitalToken
  <2> HIDE DEF checked
  <2>2. DOMAIN checked = 1 .. 4
    BY <2>1
  <2>3. /\ checked[1].checks = {"signer"}
        /\ checked[2].checks = {"writable"}
        /\ checked[3].checks = {"config"}
        /\ checked[4].checks = {"writable", "token"}
    BY <2>1 DEF P!Account
  <2>4. {c \in need : \E i \in 1 .. 4 : c \in checked[i].checks} = {"config", "token"}
    BY <2>3
  <2> QED
    BY <1>5, <2>2, <2>4 DEF Checks, checked
<1>6. CASE name = "Initialize"
  <2>1. checked = <<P!Account("authority", {"signer", "writable"}),
                   P!Account("adminConfig", {"config"}),
                   P!Account("phygitalToken", {"writable", "newToken"}),
                   P!Account("systemProgram", {"systemProgram"})>>
    BY <1>6 DEF P!Entries, P!Entry, P!Initialize
  <2> HIDE DEF checked
  <2>2. DOMAIN checked = 1 .. 4
    BY <2>1
  <2>3. /\ checked[1].checks = {"signer", "writable"}
        /\ checked[2].checks = {"config"}
        /\ checked[3].checks = {"writable", "newToken"}
        /\ checked[4].checks = {"systemProgram"}
    BY <2>1 DEF P!Account
  <2>4. {c \in need : \E i \in 1 .. 4 : c \in checked[i].checks} = {"config", "newToken"}
    BY <2>3
  <2> QED
    BY <1>6, <2>2, <2>4 DEF Checks, checked
<1>7. CASE name = "AssignMint"
  <2>1. checked = <<P!Account("authority", {"signer"}), P!Account("adminConfig", {"config"}),
                   P!Account("phygitalToken", {"writable", "token"})>>
    BY <1>7 DEF P!Entries, P!Entry, P!AssignMint
  <2> HIDE DEF checked
  <2>2. DOMAIN checked = 1 .. 3
    BY <2>1
  <2>3. /\ checked[1].checks = {"signer"}
        /\ checked[2].checks = {"config"}
        /\ checked[3].checks = {"writable", "token"}
    BY <2>1 DEF P!Account
  <2>4. {c \in need : \E i \in 1 .. 3 : c \in checked[i].checks} = {"config", "token"}
    BY <2>3
  <2> QED
    BY <1>7, <2>2, <2>4 DEF Checks, checked
<1>8. CASE name = "SetOwner"
  <2>1. checked = <<P!Account("recipient", {"signer"}),
                   P!Account("phygitalToken", {"writable", "token"}),
                   P!Account("slotHashes", {"slotHashes"}),
                   P!Account("instructionsSysvar", {"instructionsSysvar"})>>
    BY <1>8 DEF P!Entries, P!Entry, P!SetOwner
  <2> HIDE DEF checked
  <2>2. DOMAIN checked = 1 .. 4
    BY <2>1
  <2>3. /\ checked[1].checks = {"signer"}
        /\ checked[2].checks = {"writable", "token"}
        /\ checked[3].checks = {"slotHashes"}
        /\ checked[4].checks = {"instructionsSysvar"}
    BY <2>1 DEF P!Account
  <2>4. {c \in need : \E i \in 1 .. 4 : c \in checked[i].checks} = {"token"}
    BY <2>3
  <2> QED
    BY <1>8, <2>2, <2>4 DEF Checks, checked
<1>9. CASE name = "Verify"
  <2>1. checked = <<P!Account("phygitalToken", {"writable", "token"}),
                   P!Account("instructionsSysvar", {"instructionsSysvar"})>>
    BY <1>9 DEF P!Entries, P!Entry, P!Verify
  <2> HIDE DEF checked
  <2>2. DOMAIN checked = 1 .. 2
    BY <2>1
  <2>3. /\ checked[1].checks = {"writable", "token"}
        /\ checked[2].checks = {"instructionsSysvar"}
    BY <2>1 DEF P!Account
  <2>4. {c \in need : \E i \in 1 .. 2 : c \in checked[i].checks} = {"token"}
    BY <2>3
  <2> QED
    BY <1>9, <2>2, <2>4 DEF Checks, checked
<1>10. CASE name = "RemoveOwner"
  <2>1. checked = <<P!Account("owner", {"signer", "writable"}),
                   P!Account("phygitalToken", {"writable", "token"})>>
    BY <1>10 DEF P!Entries, P!Entry, P!RemoveOwner
  <2> HIDE DEF checked
  <2>2. DOMAIN checked = 1 .. 2
    BY <2>1
  <2>3. /\ checked[1].checks = {"signer", "writable"}
        /\ checked[2].checks = {"writable", "token"}
    BY <2>1 DEF P!Account
  <2>4. {c \in need : \E i \in 1 .. 2 : c \in checked[i].checks} = {"token"}
    BY <2>3
  <2> QED
    BY <1>10, <2>2, <2>4 DEF Checks, checked
<1> QED
  BY <1>1, <1>2, <1>3, <1>4, <1>5, <1>6, <1>7, <1>8, <1>9, <1>10 DEF InstructionNames

(***************************************************************************)
(* The program admits an instruction that was sent when no account is      *)
(* missing and each of its own accounts checks out.                        *)
(***************************************************************************)
LEMMA AdmittedIf ==
    ASSUME AskedFor, SentAsBuilt, NEW data, InPlace(data)
    PROVE  P!Admitted(Ours, data) <=>
             /\ asked.shape # "short"
             /\ \A check \in Checks(asked.name) : ChecksOut(check, data)
<1> DEFINE checked == P!Entries[asked.name].accounts
<1>1. P!Handler(Ours.data) = asked.name /\ (P!Legible(Ours) <=> asked.shape # "short")
  BY SentIsRead
<1>2. CASE asked.shape = "short"
  BY <1>1, <1>2 DEF P!Admitted
<1>3. CASE asked.shape # "short"
  <2>1. P!Admitted(Ours, data) <=>
          \A i \in DOMAIN checked : \A check \in checked[i].checks :
            P!Meets(check, Ours.metas[i], Ours.program, P!Call(Ours).values, data)
    BY <1>1, <1>3 DEF P!Admitted
  <2>2. \A i \in DOMAIN checked : \A check \in checked[i].checks :
          P!Meets(check, Ours.metas[i], Ours.program, P!Call(Ours).values, data)
              <=> ChecksOut(check, data)
    BY <1>3, SentIsChecked
  <2>3. (\A i \in DOMAIN checked : \A check \in checked[i].checks : ChecksOut(check, data))
          <=> \A check \in Checks(asked.name) : ChecksOut(check, data)
    BY DEF Checks, ChecksOut
  <2> QED
    BY <1>3, <2>1, <2>2, <2>3
<1> QED
  BY <1>2, <1>3

(***************************************************************************)
(* Values go out as they were given, the type of a token as its byte.      *)
(***************************************************************************)
LEMMA ValuesOnWire ==
    ASSUME NEW values, NEW n \in DOMAIN values
    PROVE  OnWire(values)[n] = IF n = "tokenType" THEN P!TypeByte(values[n]) ELSE values[n]
<1>1. C!TypeByte(values["tokenType"]) = P!TypeByte(values["tokenType"])
  BY DEF C!TypeByte, P!TypeByte, C!PhygitalTokenType, P!TokenTypes
<1> QED
  BY <1>1 DEF OnWire

(***************************************************************************)
(* What names no registry is not sent with another's.                      *)
(***************************************************************************)
LEMMA NotAstray ==
    ASSUME AskedFor, SentAsBuilt, asked.shape # "short",
           asked.name \in {"SetOwner", "Verify", "RemoveOwner"}
    PROVE  ~asked.stray
<1>1. "adminConfig" \notin P!Names(P!Entries[asked.name].accounts)
  <2>1. CASE asked.name = "SetOwner"
    <3> DEFINE checked == P!Entries[asked.name].accounts
    <3>1. checked = <<P!Account("recipient", {"signer"}),
                     P!Account("phygitalToken", {"writable", "token"}),
                     P!Account("slotHashes", {"slotHashes"}),
                     P!Account("instructionsSysvar", {"instructionsSysvar"})>>
      BY <2>1 DEF P!Entries, P!Entry, P!SetOwner
    <3> HIDE DEF checked
    <3> QED
      BY <3>1 DEF P!Names, P!Account, checked
  <2>2. CASE asked.name = "Verify"
    <3> DEFINE checked == P!Entries[asked.name].accounts
    <3>1. checked = <<P!Account("phygitalToken", {"writable", "token"}),
                     P!Account("instructionsSysvar", {"instructionsSysvar"})>>
      BY <2>2 DEF P!Entries, P!Entry, P!Verify
    <3> HIDE DEF checked
    <3> QED
      BY <3>1 DEF P!Names, P!Account, checked
  <2>3. CASE asked.name = "RemoveOwner"
    <3> DEFINE checked == P!Entries[asked.name].accounts
    <3>1. checked = <<P!Account("owner", {"signer", "writable"}),
                     P!Account("phygitalToken", {"writable", "token"})>>
      BY <2>3 DEF P!Entries, P!Entry, P!RemoveOwner
    <3> HIDE DEF checked
    <3> QED
      BY <3>1 DEF P!Names, P!Account, checked
  <2> QED
    BY <2>1, <2>2, <2>3
<1> QED
  BY <1>1, SentAccounts DEF AskedFor

(***************************************************************************)
(* A call that was asked for well is admitted and reaches its handler with *)
(* what was given, and no other call is admitted.                          *)
(***************************************************************************)
LEMMA Arrives == Inv => ArrivesAsMeant
<1> SUFFICES ASSUME Inv, stage = "sent"
             PROVE  /\ P!Admitted(Ours, accounts) <=> AskedWell
                    /\ AskedWell =>
                        LET call == P!Call(Ours)
                        IN /\ call.name = asked.name /\ call.program = asked.program
                           /\ \A n \in DOMAIN asked.given : call.accounts[n] = asked.given[n]
                           /\ \A n \in DOMAIN call.values :
                                call.values[n] =
                                    IF n = "tokenType" THEN P!TypeByte(asked.values[n])
                                    ELSE asked.values[n]
  BY DEF ArrivesAsMeant
<1> DEFINE call == P!Call(Ours)
           params == P!Entries[asked.name].params
<1>1. AskedFor /\ SentAsBuilt /\ InPlace(accounts)
  BY DEF Inv
<1>2. /\ asked.name \in InstructionNames
      /\ call.name = asked.name /\ call.program = asked.program
      /\ call.values = [n \in P!Names(params) |-> OnWire(asked.values)[n]]
  BY <1>1, SentIsRead
<1> HIDE DEF call
<1>3. \A n \in P!Names(params) :
        /\ n \in DOMAIN call.values
        /\ call.values[n] = IF n = "tokenType" THEN P!TypeByte(asked.values[n])
                           ELSE asked.values[n]
  BY <1>1, <1>2, ValuesOnWire DEF AskedFor
<1>4. AskedWell => asked.shape # "short"
  BY DEF AskedWell
<1>5. P!Admitted(Ours, accounts) <=> AskedWell
  <2>1. P!Admitted(Ours, accounts) <=>
          /\ asked.shape # "short"
          /\ \A check \in Checks(asked.name) : ChecksOut(check, accounts)
    BY <1>1, AdmittedIf
  <2>2. CASE asked.shape = "short"
    BY <1>4, <2>1, <2>2
  <2>3. CASE asked.shape # "short"
    <3>1. CASE asked.name = "CreateConfig"
      <4>1. Checks(asked.name) = {"newConfig"}
        BY <1>2, <3>1, ChecksMade
      <4> QED
        BY <2>1, <2>3, <3>1, <4>1 DEF ChecksOut, AskedWell, HasConfig
    <3>2. CASE asked.name \in {"SetAdmin", "SetIssuer", "SetMinter"}
      <4>1. Checks(asked.name) = {"config"}
        BY <1>2, <3>2, ChecksMade
      <4> QED
        BY <2>1, <2>3, <3>2, <4>1 DEF ChecksOut, AskedWell, HasConfig
    <3>3. CASE asked.name \in {"ClosePhygitalToken", "AssignMint"}
      <4>1. Checks(asked.name) = {"config", "token"}
        BY <1>2, <3>3, ChecksMade
      <4> QED
        BY <2>1, <2>3, <3>3, <4>1 DEF ChecksOut, AskedWell, HasConfig, HasToken
    <3>4. CASE asked.name = "Initialize"
      <4>1. Checks(asked.name) = {"config", "newToken"}
        BY <1>2, <3>4, ChecksMade
      <4>2. "secp256r1Pubkey" \in P!Names(params)
        BY <3>4 DEF P!Names, P!Entries, P!Entry, P!Field, P!Initialize
      <4>3. call.values["secp256r1Pubkey"] = asked.values["secp256r1Pubkey"]
        BY <1>3, <4>2
      <4> QED
        BY <2>1, <2>3, <3>4, <4>1, <4>3 DEF ChecksOut, AskedWell, HasConfig, HasToken, call
    <3>5. CASE asked.name \in {"SetOwner", "Verify", "RemoveOwner"}
      <4>1. Checks(asked.name) = {"token"}
        BY <1>2, <3>5, ChecksMade
      <4>2. ~asked.stray
        BY <1>1, <2>3, <3>5, NotAstray
      <4> QED
        BY <2>1, <2>3, <3>5, <4>1, <4>2 DEF ChecksOut, AskedWell, HasToken
    <3> QED
      BY <1>2, <3>1, <3>2, <3>3, <3>4, <3>5 DEF InstructionNames
  <2> QED
    BY <2>2, <2>3
<1>6. asked.shape # "short" =>
        \A n \in DOMAIN asked.given : call.accounts[n] = asked.given[n]
  BY <1>1, SentAccounts DEF call
<1> QED
  BY <1>2, <1>3, <1>4, <1>5, <1>6 DEF call

----------------------------------------------------------------------------
(* The inductive invariant.                                                *)

(***************************************************************************)
(* What a layout encodes is an account of that layout.                     *)
(***************************************************************************)
LEMMA EncodedWell ==
    ASSUME NEW values
    PROVE  /\ WellFormed(P!Encode(P!AdminConfig, values), P!AdminConfig)
           /\ WellFormed(P!Encode(P!PhygitalToken, values), P!PhygitalToken)
<1> SUFFICES ASSUME NEW layout, Laid(layout.fields)
             PROVE  WellFormed(P!Encode(layout, values), layout)
  BY AccountsLaid
<1> DEFINE read == [n \in P!Names(layout.fields) |-> values[n]]
<1>1. P!Decode(layout.fields, P!Encode(layout, values)) = read
  BY RoundTrip
<1>2. \A i \in DOMAIN layout.fields : read[layout.fields[i].name] = values[layout.fields[i].name]
  BY DEF P!Names
<1> HIDE DEF read
<1>3. P!Encode(layout, read) = P!Encode(layout, values)
  BY <1>2 DEF P!Encode
<1> QED
  BY <1>1, <1>3 DEF WellFormed

(***************************************************************************)
(* Accounts stay in place when a registry or a token is written at its     *)
(* address, and when an account is deleted.                                *)
(***************************************************************************)
LEMMA WrittenInPlace ==
    ASSUME NEW data, InPlace(data), NEW address, NEW values
    PROVE  /\ (\E p \in Deployments : address = AdminConfigPda(p))
                => InPlace(P!Put(data, address, P!Encode(P!AdminConfig, values)))
           /\ (\E p \in Deployments, k \in Keys : address = PhygitalTokenPda(p, k))
                => InPlace(P!Put(data, address, P!Encode(P!PhygitalToken, values)))
           /\ InPlace([a \in DOMAIN data \ {address} |-> data[a]])
<1>1. ASSUME NEW p \in Deployments, address = AdminConfigPda(p)
      PROVE  InPlace(P!Put(data, address, P!Encode(P!AdminConfig, values)))
  BY <1>1, EncodedWell DEF InPlace, P!Put
<1>2. ASSUME NEW p \in Deployments, NEW k \in Keys, address = PhygitalTokenPda(p, k)
      PROVE  InPlace(P!Put(data, address, P!Encode(P!PhygitalToken, values)))
  BY <1>2, EncodedWell DEF InPlace, P!Put
<1>3. InPlace([a \in DOMAIN data \ {address} |-> data[a]])
  BY DEF InPlace
<1> QED
  BY <1>1, <1>2, <1>3

(***************************************************************************)
(* A token that is read back is what was written, its key included.        *)
(***************************************************************************)
LEMMA TokenReadBack ==
    ASSUME NEW token
    PROVE  P!Decode(P!PhygitalToken.fields, P!Encode(P!PhygitalToken, token)).publicKey
                = token.publicKey
<1>1. P!Decode(P!PhygitalToken.fields, P!Encode(P!PhygitalToken, token)) =
        [n \in P!Names(P!PhygitalToken.fields) |-> token[n]]
  BY AccountsLaid, RoundTrip
<1>2. "publicKey" \in P!Names(P!PhygitalToken.fields)
  BY FieldNames
<1> QED
  BY <1>1, <1>2

(***************************************************************************)
(* Tokens hold the keys of their addresses when a registry or such a token *)
(* is written, and when an account is deleted.                             *)
(***************************************************************************)
LEMMA WrittenHolds ==
    ASSUME NEW data, KeysHeld(data), NEW address, NEW values
    PROVE  /\ (\E p \in Deployments : address = AdminConfigPda(p))
                => KeysHeld(P!Put(data, address, P!Encode(P!AdminConfig, values)))
           /\ (\E p \in Deployments, k \in Keys :
                    address = PhygitalTokenPda(p, k) /\ values.publicKey = k)
                => KeysHeld(P!Put(data, address, P!Encode(P!PhygitalToken, values)))
           /\ KeysHeld([a \in DOMAIN data \ {address} |-> data[a]])
<1>1. ASSUME NEW p \in Deployments, address = AdminConfigPda(p)
      PROVE  KeysHeld(P!Put(data, address, P!Encode(P!AdminConfig, values)))
  <2>1. \A q, k : PhygitalTokenPda(q, k) # address
    BY <1>1, AddressesTold
  <2> QED
    BY <2>1 DEF KeysHeld, P!Put
<1>2. ASSUME NEW p \in Deployments, NEW k \in Keys, address = PhygitalTokenPda(p, k),
             values.publicKey = k
      PROVE  KeysHeld(P!Put(data, address, P!Encode(P!PhygitalToken, values)))
  <2> DEFINE written == P!Encode(P!PhygitalToken, values)
             after == P!Put(data, address, written)
  <2>1. P!Decode(P!PhygitalToken.fields, written).publicKey = k
    BY <1>2, TokenReadBack
  <2> HIDE DEF written
  <2>2. /\ DOMAIN after = DOMAIN data \cup {address}
        /\ \A a \in DOMAIN after : after[a] = IF a = address THEN written ELSE data[a]
    BY DEF P!Put
  <2> HIDE DEF after
  <2>3. ASSUME NEW q \in Deployments, NEW key \in Keys, PhygitalTokenPda(q, key) \in DOMAIN after
        PROVE  P!Decode(P!PhygitalToken.fields, after[PhygitalTokenPda(q, key)]).publicKey = key
    <3>1. CASE PhygitalTokenPda(q, key) = address
      <4>1. key[3] = k[3]
        BY <1>2, <3>1, AddressesTold
      <4>2. key = k
        BY <4>1, TapAssumption
      <4>3. after[PhygitalTokenPda(q, key)] = written
        BY <2>2, <2>3, <3>1
      <4> QED
        BY <2>1, <4>2, <4>3
    <3>2. CASE PhygitalTokenPda(q, key) # address
      <4>1. /\ PhygitalTokenPda(q, key) \in DOMAIN data
            /\ after[PhygitalTokenPda(q, key)] = data[PhygitalTokenPda(q, key)]
        BY <2>2, <2>3, <3>2
      <4> QED
        BY <4>1 DEF KeysHeld
    <3> QED
      BY <3>1, <3>2
  <2> QED
    BY <2>3 DEF KeysHeld, after, written
<1>3. KeysHeld([a \in DOMAIN data \ {address} |-> data[a]])
  BY DEF KeysHeld
<1> QED
  BY <1>1, <1>2, <1>3

(***************************************************************************)
(* An admitted call is handled at the registry of the deployment called    *)
(* and at the token it was asked for.                                      *)
(***************************************************************************)
LEMMA HandledAt ==
    ASSUME AskedFor, SentAsBuilt, NEW data, InPlace(data), P!Admitted(Ours, data)
    PROVE  /\ asked.shape # "short"
           /\ \A check \in Checks(asked.name) : ChecksOut(check, data)
           /\ Checks(asked.name) \cap {"config", "newConfig"} # {} =>
                P!Call(Ours).accounts.adminConfig = AdminConfigPda(asked.program)
           /\ Checks(asked.name) \cap {"token", "newToken"} # {} =>
                P!Call(Ours).accounts.phygitalToken = PhygitalTokenPda(asked.program, asked.key)
<1> DEFINE checked == P!Entries[asked.name].accounts
           call == P!Call(Ours)
<1>1. asked.shape # "short" /\ \A check \in Checks(asked.name) : ChecksOut(check, data)
  BY AdmittedIf
<1>2. /\ asked.name \in InstructionNames /\ P!Handler(Ours.data) = asked.name
      /\ Ours.program = asked.program
  BY SentIsRead
<1>3. PICK builder \in Builders(asked.name) :
        LET listed == builder.accounts
        IN /\ AccountsSuit(listed, checked)
           /\ DOMAIN asked.given = Needed(builder)
           /\ \A i \in DOMAIN checked :
                Ours.metas[i].address =
                    IF listed[i].name \in DOMAIN asked.given
                    THEN asked.given[listed[i].name]
                    ELSE C!DefaultAddress(listed[i].default, asked.program)
  BY <1>1, SentAccounts
<1> HIDE DEF checked, call
<1>4. ASSUME NEW i \in DOMAIN checked
      PROVE  call.accounts[checked[i].name] = Ours.metas[i].address
  <2> DEFINE place == CHOOSE j \in DOMAIN checked : checked[j].name = checked[i].name
  <2>1. \A j \in DOMAIN checked : checked[j].name = checked[i].name => j = i
    BY SMTT(30), <1>2, AccountsMatch DEF checked
  <2>2. place = i
    BY <2>1
  <2>3. checked[i].name \in P!Names(checked)
    BY SMTT(30) DEF P!Names
  <2>4. call.accounts[checked[i].name] = Ours.metas[place].address
    BY <1>2, <2>3 DEF P!Call, call, checked
  <2> QED
    BY <2>2, <2>4
<1>5. ASSUME NEW check \in Checks(asked.name) \cap {"config", "newConfig"}
      PROVE  call.accounts.adminConfig = AdminConfigPda(asked.program)
  <2>1. PICK i \in DOMAIN checked : check \in checked[i].checks
    BY <1>5 DEF Checks, checked
  <2>2. checked[i].name = "adminConfig"
    BY <1>3, <1>5, <2>1 DEF AccountsSuit, Suits
  <2>3. P!Meets(check, Ours.metas[i], Ours.program, P!Call(Ours).values, data)
    BY <1>2, <2>1 DEF P!Admitted, checked
  <2>4. Ours.metas[i].address = AdminConfigPda(asked.program)
    BY <1>2, <1>5, <2>3, SameAddresses DEF P!Meets
  <2> QED
    BY <1>4, <2>2, <2>4
<1>6. ASSUME NEW check \in Checks(asked.name) \cap {"token", "newToken"}
      PROVE  call.accounts.phygitalToken = PhygitalTokenPda(asked.program, asked.key)
  <2>1. PICK i \in DOMAIN checked : check \in checked[i].checks
    BY <1>6 DEF Checks, checked
  <2>2. /\ checked[i].name = "phygitalToken" /\ builder.accounts[i].name = "phygitalToken"
        /\ builder.accounts[i].default = "none" /\ i \in DOMAIN builder.accounts
    BY <1>3, <1>6, <2>1 DEF AccountsSuit, Suits
  <2>3. "phygitalToken" \in DOMAIN asked.given
    BY <1>3, <2>2 DEF Needed
  <2>4. Ours.metas[i].address = PhygitalTokenPda(asked.program, asked.key)
    BY <1>3, <2>2, <2>3 DEF AskedFor
  <2> QED
    BY <1>4, <2>2, <2>4
<1> QED
  BY <1>1, <1>5, <1>6 DEF call

\* What may become of the accounts: a registry written at its address, a token
\* at its own with the key it is made of, if all had theirs, or one deleted.
Written(data, after) ==
    \/ \E p \in Deployments : \E values :
            after = P!Put(data, AdminConfigPda(p), P!Encode(P!AdminConfig, values))
    \/ \E p \in Deployments, k \in Keys : \E values :
            /\ KeysHeld(data) => values.publicKey = k
            /\ after = P!Put(data, PhygitalTokenPda(p, k), P!Encode(P!PhygitalToken, values))
    \/ \E address : after = [a \in DOMAIN data \ {address} |-> data[a]]

(***************************************************************************)
(* Handling a call writes one registry or one token, which keeps its key,  *)
(* or deletes one account.                                                 *)
(***************************************************************************)
LEMMA HandlingWrites ==
    ASSUME AskedFor, SentAsBuilt, NEW data, InPlace(data), P!Admitted(Ours, data)
    PROVE  Written(data, P!Handle(P!Call(Ours), data).accounts)
<1> DEFINE call == P!Call(Ours)
           registry == call.accounts.adminConfig
           token == call.accounts.phygitalToken
           after == P!Handle(call, data).accounts
<1>1. call.name = asked.name /\ asked.name \in InstructionNames
  BY SentIsRead
<1>2. /\ \A check \in Checks(asked.name) : ChecksOut(check, data)
      /\ Checks(asked.name) \cap {"config", "newConfig"} # {} =>
            registry = AdminConfigPda(asked.program)
      /\ Checks(asked.name) \cap {"token", "newToken"} # {} =>
            token = PhygitalTokenPda(asked.program, asked.key)
  BY HandledAt
<1>3. asked.program \in Deployments /\ (asked.name = "Initialize" => asked.key \in Keys)
  BY DEF AskedFor
<1>4. ASSUME asked.name \in {"CreateConfig", "SetAdmin", "SetIssuer", "SetMinter"}
      PROVE  \E p \in Deployments : registry = AdminConfigPda(p)
  <2>1. Checks(asked.name) \cap {"config", "newConfig"} # {}
    BY <1>1, <1>4, ChecksMade
  <2> QED
    BY <1>2, <1>3, <2>1
<1>5. ASSUME asked.name \in {"AssignMint", "SetOwner", "Verify", "RemoveOwner"}
      PROVE  \E p \in Deployments, k \in Keys :
                /\ token = PhygitalTokenPda(p, k)
                /\ KeysHeld(data) => P!Token(call, data).publicKey = k
  <2>1. "token" \in Checks(asked.name)
    BY <1>1, <1>5, ChecksMade
  <2>2. token = PhygitalTokenPda(asked.program, asked.key) /\ token \in DOMAIN data
    BY <1>2, <2>1 DEF ChecksOut
  <2>3. PICK p \in Deployments, k \in Keys : token = PhygitalTokenPda(p, k)
    BY <2>2, AddressesTold DEF InPlace
  <2>4. KeysHeld(data) => P!Token(call, data).publicKey = k
    BY <2>2, <2>3 DEF KeysHeld, P!Token
  <2> QED
    BY <2>3, <2>4
<1>6. ASSUME asked.name = "Initialize"
      PROVE  \E p \in Deployments, k \in Keys :
                token = PhygitalTokenPda(p, k) /\ call.values.secp256r1Pubkey = k
  <2>1. Checks(asked.name) = {"config", "newToken"}
    BY <1>1, <1>6, ChecksMade
  <2>2. /\ token = PhygitalTokenPda(asked.program, asked.key)
        /\ call.values.secp256r1Pubkey[3] = asked.key[3]
    BY <1>2, <2>1 DEF ChecksOut
  <2>3. "secp256r1Pubkey" \in P!Names(P!Entries[asked.name].params)
    BY <1>6 DEF P!Names, P!Entries, P!Entry, P!Field, P!Initialize
  <2>4. call.values.secp256r1Pubkey = asked.values.secp256r1Pubkey
    <3>1. /\ call.values = [n \in P!Names(P!Entries[asked.name].params) |-> OnWire(asked.values)[n]]
          /\ "secp256r1Pubkey" \in DOMAIN asked.values
      BY <2>3, SentIsRead DEF AskedFor
    <3> QED
      BY <2>3, <3>1, ValuesOnWire
  <2>5. call.values.secp256r1Pubkey = asked.key
    BY <1>3, <1>6, <2>2, <2>4, TapAssumption DEF AskedFor
  <2> QED
    BY <1>3, <1>6, <2>2, <2>5
<1> SUFFICES Written(data, after)
  OBVIOUS
<1> HIDE DEF call, after
<1>7. \A a, b, c :
        LET was == P!Token(call, data)
        IN /\ [was EXCEPT !.mint = a].publicKey = was.publicKey
           /\ [was EXCEPT !.owner = a].publicKey = was.publicKey
           /\ [was EXCEPT !.lastSignCount = a].publicKey = was.publicKey
           /\ [[was EXCEPT !.lastSignCount = b] EXCEPT !.owner = c].publicKey = was.publicKey
  <2>1. "publicKey" \in DOMAIN P!Token(call, data)
    BY FieldNames DEF P!Token, P!Decode
  <2> QED
    BY <2>1
<1>8. CASE asked.name = "CreateConfig"
  <2>1. P!Handle(call, data) = P!HandleCreateConfig(call, data)
    BY <1>1, <1>8 DEF P!Handle
  <2>2. \E values : after = P!Put(data, registry, P!Encode(P!AdminConfig, values))
    BY <2>1 DEF after, P!HandleCreateConfig, P!Outcome, P!PutConfig
  <2> QED
    BY <1>4, <1>8, <2>2 DEF Written
<1>9. CASE asked.name = "SetAdmin"
  <2>1. P!Handle(call, data) = P!HandleSetAdmin(call, data)
    BY <1>1, <1>9 DEF P!Handle
  <2>2. \E values : after = P!Put(data, registry, P!Encode(P!AdminConfig, values))
    BY <2>1 DEF after, P!HandleSetAdmin, P!Outcome, P!PutConfig
  <2> QED
    BY <1>4, <1>9, <2>2 DEF Written
<1>10. CASE asked.name = "SetIssuer"
  <2>1. P!Handle(call, data) = P!HandleSetIssuer(call, data)
    BY <1>1, <1>10 DEF P!Handle
  <2>2. \E values : after = P!Put(data, registry, P!Encode(P!AdminConfig, values))
    BY <2>1 DEF after, P!HandleSetIssuer, P!Outcome, P!PutConfig
  <2> QED
    BY <1>4, <1>10, <2>2 DEF Written
<1>11. CASE asked.name = "SetMinter"
  <2>1. P!Handle(call, data) = P!HandleSetMinter(call, data)
    BY <1>1, <1>11 DEF P!Handle
  <2>2. \E values : after = P!Put(data, registry, P!Encode(P!AdminConfig, values))
    BY <2>1 DEF after, P!HandleSetMinter, P!Outcome, P!PutConfig
  <2> QED
    BY <1>4, <1>11, <2>2 DEF Written
<1>12. CASE asked.name = "Initialize"
  <2> DEFINE value == [owner |-> call.values.owner, mint |-> P!SystemProgram,
                       lastSignCount |-> <<"count", 0>>, tokenType |-> call.values.tokenType,
                       bump |-> <<"bump">>, publicKey |-> call.values.secp256r1Pubkey,
                       identifier |-> call.values.identifier]
  <2>1. P!Handle(call, data) = P!HandleInitialize(call, data)
    BY <1>1, <1>12 DEF P!Handle
  <2>2. after = P!Put(data, token, P!Encode(P!PhygitalToken, value))
    BY <2>1 DEF after, P!HandleInitialize, P!Outcome, P!PutToken
  <2>3. value.publicKey = call.values.secp256r1Pubkey
    OBVIOUS
  <2> HIDE DEF value
  <2> QED
    BY <1>6, <1>12, <2>2, <2>3 DEF Written
<1>13. CASE asked.name = "AssignMint"
  <2> DEFINE value == [P!Token(call, data) EXCEPT !.mint = call.values.mint]
  <2>1. P!Handle(call, data) = P!HandleAssignMint(call, data)
    BY <1>1, <1>13 DEF P!Handle
  <2>2. after = P!Put(data, token, P!Encode(P!PhygitalToken, value))
    BY <2>1 DEF after, P!HandleAssignMint, P!Outcome, P!PutToken
  <2>3. value.publicKey = P!Token(call, data).publicKey
    BY <1>7
  <2> HIDE DEF value
  <2> QED
    BY <1>5, <1>13, <2>2, <2>3 DEF Written
<1>14. CASE asked.name = "SetOwner"
  <2> DEFINE value == [P!Accepted(P!Token(call, data)) EXCEPT !.owner = call.accounts.recipient]
  <2>1. P!Handle(call, data) = P!HandleSetOwner(call, data)
    BY <1>1, <1>14 DEF P!Handle
  <2>2. after = P!Put(data, token, P!Encode(P!PhygitalToken, value))
    BY <2>1 DEF after, P!HandleSetOwner, P!Outcome, P!PutToken
  <2>3. value.publicKey = P!Token(call, data).publicKey
    BY <1>7 DEF P!Accepted
  <2> HIDE DEF value
  <2> QED
    BY <1>5, <1>14, <2>2, <2>3 DEF Written
<1>15. CASE asked.name = "Verify"
  <2> DEFINE value == P!Accepted(P!Token(call, data))
  <2>1. P!Handle(call, data) = P!HandleVerify(call, data)
    BY <1>1, <1>15 DEF P!Handle
  <2>2. after = P!Put(data, token, P!Encode(P!PhygitalToken, value))
    BY <2>1 DEF after, P!HandleVerify, P!Outcome, P!PutToken
  <2>3. value.publicKey = P!Token(call, data).publicKey
    BY <1>7 DEF P!Accepted
  <2> HIDE DEF value
  <2> QED
    BY <1>5, <1>15, <2>2, <2>3 DEF Written
<1>16. CASE asked.name = "RemoveOwner"
  <2> DEFINE value == [P!Token(call, data) EXCEPT !.owner = P!SystemProgram]
  <2>1. P!Handle(call, data) = P!HandleRemoveOwner(call, data)
    BY <1>1, <1>16 DEF P!Handle
  <2>2. after = P!Put(data, token, P!Encode(P!PhygitalToken, value))
    BY <2>1 DEF after, P!HandleRemoveOwner, P!Outcome, P!PutToken
  <2>3. value.publicKey = P!Token(call, data).publicKey
    BY <1>7
  <2> HIDE DEF value
  <2> QED
    BY <1>5, <1>16, <2>2, <2>3 DEF Written
<1>17. CASE asked.name = "ClosePhygitalToken"
  <2>1. P!Handle(call, data) = P!HandleClosePhygitalToken(call, data)
    BY <1>1, <1>17 DEF P!Handle
  <2>2. after = [a \in DOMAIN data \ {token} |-> data[a]]
    BY <2>1 DEF after, P!HandleClosePhygitalToken, P!Outcome
  <2> QED
    BY <2>2 DEF Written
<1> QED
  BY <1>1, <1>8, <1>9, <1>10, <1>11, <1>12, <1>13, <1>14, <1>15, <1>16, <1>17
     DEF InstructionNames

(***************************************************************************)
(* Handling it leaves every account in place.                              *)
(***************************************************************************)
LEMMA HandlingKeeps ==
    ASSUME AskedFor, SentAsBuilt, NEW data, InPlace(data), P!Admitted(Ours, data)
    PROVE  InPlace(P!Handle(P!Call(Ours), data).accounts)
<1> DEFINE after == P!Handle(P!Call(Ours), data).accounts
<1>1. Written(data, after)
  BY HandlingWrites
<1> HIDE DEF after
<1>2. ASSUME NEW p \in Deployments, NEW values,
             after = P!Put(data, AdminConfigPda(p), P!Encode(P!AdminConfig, values))
      PROVE  InPlace(after)
  BY <1>2, WrittenInPlace
<1>3. ASSUME NEW p \in Deployments, NEW k \in Keys, NEW values,
             KeysHeld(data) => values.publicKey = k,
             after = P!Put(data, PhygitalTokenPda(p, k), P!Encode(P!PhygitalToken, values))
      PROVE  InPlace(after)
  BY <1>3, WrittenInPlace
<1>4. ASSUME NEW address, after = [a \in DOMAIN data \ {address} |-> data[a]]
      PROVE  InPlace(after)
  BY <1>4, WrittenInPlace
<1>5. InPlace(after)
  BY <1>1, <1>2, <1>3, <1>4 DEF Written
<1> QED
  BY <1>5 DEF after

(***************************************************************************)
(* And every token with the key of its address.                            *)
(***************************************************************************)
LEMMA HandlingHolds ==
    ASSUME AskedFor, SentAsBuilt, NEW data, InPlace(data), P!Admitted(Ours, data), KeysHeld(data)
    PROVE  KeysHeld(P!Handle(P!Call(Ours), data).accounts)
<1> DEFINE after == P!Handle(P!Call(Ours), data).accounts
<1>1. Written(data, after)
  BY HandlingWrites
<1> HIDE DEF after
<1>2. ASSUME NEW p \in Deployments, NEW values,
             after = P!Put(data, AdminConfigPda(p), P!Encode(P!AdminConfig, values))
      PROVE  KeysHeld(after)
  BY <1>2, WrittenHolds
<1>3. ASSUME NEW p \in Deployments, NEW k \in Keys, NEW values,
             KeysHeld(data) => values.publicKey = k,
             after = P!Put(data, PhygitalTokenPda(p, k), P!Encode(P!PhygitalToken, values))
      PROVE  KeysHeld(after)
  BY <1>3, WrittenHolds
<1>4. ASSUME NEW address, after = [a \in DOMAIN data \ {address} |-> data[a]]
      PROVE  KeysHeld(after)
  BY <1>4, WrittenHolds
<1>5. KeysHeld(after)
  BY <1>1, <1>2, <1>3, <1>4 DEF Written
<1> QED
  BY <1>5 DEF after

(***************************************************************************)
(* A sequence that something follows ends as that does.                    *)
(***************************************************************************)
LEMMA EndsAs ==
    ASSUME NEW S, NEW s \in Seq(S), NEW t \in Seq(S), t # <<>>
    PROVE  /\ s \o t \in Seq(S) /\ s \o t # <<>>
           /\ (s \o t)[Len(s \o t)] = t[Len(t)]
<1>1. Len(t) \in Nat \ {0} /\ Len(s) \in Nat
  OBVIOUS
<1>2. s \o t \in Seq(S) /\ Len(s \o t) = Len(s) + Len(t)
  OBVIOUS
<1>3. (s \o t)[Len(s) + Len(t)] = t[Len(t)]
  BY <1>1
<1>4. s \o t # <<>>
  BY <1>1, <1>2
<1> QED
  BY <1>2, <1>3, <1>4

(***************************************************************************)
(* However an instruction and the one it may go with go out, the last of   *)
(* them is that instruction, with the accounts of the shape.               *)
(***************************************************************************)
LEMMA LastOfShaped ==
    ASSUME NEW with, with = <<>> \/ (\E first : with = <<first>>), NEW instruction, NEW shape
    PROVE  LET sent == Shaped(with, instruction, shape)
           IN /\ sent # <<>>
              /\ sent[Len(sent)] = [instruction EXCEPT !.metas = Listed(@, shape)]
<1> DEFINE last == [instruction EXCEPT !.metas = Listed(@, shape)]
           sent == Shaped(with, instruction, shape)
<1>1. \/ sent = <<Stranger>> \o with \o <<last>>
      \/ sent = with \o <<Stranger, last>>
      \/ sent = with \o <<last>>
  BY DEF Shaped
<1>2. \E S : with \in Seq(S) /\ Stranger \in S /\ last \in S
  <2> HIDE DEF last
  <2>1. CASE with = <<>>
    <3>1. with \in Seq({Stranger, last})
      BY <2>1
    <3> QED
      BY <3>1
  <2>2. CASE \E first : with = <<first>>
    <3>1. PICK first : with = <<first>>
      BY <2>2
    <3>2. with \in Seq({first, Stranger, last})
      BY <3>1
    <3> QED
      BY <3>2
  <2> QED
    BY <2>1, <2>2
<1>3. PICK S : with \in Seq(S) /\ Stranger \in S /\ last \in S
  BY <1>2
<1> HIDE DEF last, sent
<1>4. /\ <<last>> \in Seq(S) /\ <<last>> # <<>> /\ <<last>>[Len(<<last>>)] = last
      /\ <<Stranger>> \in Seq(S) /\ <<Stranger, last>> \in Seq(S)
      /\ <<Stranger, last>> # <<>> /\ <<Stranger, last>>[Len(<<Stranger, last>>)] = last
  BY <1>3
<1>5. CASE sent = with \o <<last>>
  BY <1>3, <1>4, <1>5, EndsAs DEF last, sent
<1>6. CASE sent = with \o <<Stranger, last>>
  BY <1>3, <1>4, <1>6, EndsAs DEF last, sent
<1>7. CASE sent = <<Stranger>> \o with \o <<last>>
  <2>1. <<Stranger>> \o with \in Seq(S)
    BY <1>3, <1>4
  <2> QED
    BY <1>4, <1>7, <2>1, EndsAs DEF last, sent
<1> QED
  BY <1>1, <1>5, <1>6, <1>7

(***************************************************************************)
(* Sending what a caller may ask for keeps the invariant.                  *)
(***************************************************************************)
LEMMA SendKeeps ==
    ASSUME Inv, MayAsk, NEW request, NEW builder \in Builders(request.name),
           DOMAIN request.given = Needed(builder),
           NEW with, with = <<>> \/ (\E first : with = <<first>>),
           Send(request, builder, with), AskedFor'
    PROVE  Inv'
<1> DEFINE built == C!Build(builder, request.program, request.given, OnWire(request.values))
<1>1. /\ stage' = "sent" /\ asked' = request /\ before' = accounts /\ accounts' = accounts
      /\ instructions' = Shaped(with, built, request.shape)
  BY DEF Send
<1>2. /\ instructions' # <<>>
      /\ Ours' = [built EXCEPT !.metas = Listed(@, request.shape)]
  <2> HIDE DEF built
  <2> QED
    BY <1>1, LastOfShaped DEF Ours
<1>3. SentAsBuilt'
  <2>1. builder \in {C!Synchronous[asked'.name], C!PhygitalTokenProgram[asked'.name]}
    BY <1>1 DEF Builders
  <2> QED
    BY <1>1, <1>2, <2>1 DEF SentAsBuilt
<1>4. InPlace(accounts)
  BY DEF Inv
<1> QED
  BY <1>1, <1>3, <1>4 DEF Inv

(***************************************************************************)
(* A caller who takes no tap gives every value that the program reads.     *)
(***************************************************************************)
LEMMA ValuesAsked ==
    ASSUME NEW name \in InstructionNames \ {"SetOwner", "Verify"}, NEW values \in ValuesOf(name)
    PROVE  P!Names(P!Entries[name].params) \subseteq DOMAIN values
<1> DEFINE params == P!Entries[name].params
<1>1. CASE name = "Initialize"
  <2>1. params = <<P!Field("identifier", 33), P!Field("secp256r1Pubkey", 33),
                   P!Field("tokenType", 1), P!Field("owner", 32)>>
    BY <1>1 DEF P!Entries, P!Entry, P!Initialize
  <2>2. values \in [identifier : Identifiers, secp256r1Pubkey : Keys,
                    tokenType : {"Permanent", "Bearer"}, owner : {Somebody, SystemProgram}]
    BY <1>1 DEF ValuesOf
  <2>3. DOMAIN values = {"identifier", "secp256r1Pubkey", "tokenType", "owner"}
    BY <2>2
  <2> HIDE DEF params
  <2>4. \A i \in DOMAIN params : params[i].name \in
            {"identifier", "secp256r1Pubkey", "tokenType", "owner"}
    BY <2>1 DEF P!Field
  <2> QED
    BY <2>3, <2>4 DEF P!Names, params
<1>2. CASE name = "AssignMint"
  <2>1. params = <<P!Field("mint", 32)>>
    BY <1>2 DEF P!Entries, P!Entry, P!AssignMint
  <2>2. DOMAIN values = {"mint"}
    BY <1>2 DEF ValuesOf
  <2> QED
    BY <2>1, <2>2 DEF P!Names, P!Field
<1>3. CASE name = "SetAdmin"
  <2>1. params = <<P!Field("newAdmin", 32)>>
    BY <1>3 DEF P!Entries, P!Entry, P!SetAdmin
  <2>2. DOMAIN values = {"newAdmin"}
    BY <1>3 DEF ValuesOf
  <2> QED
    BY <2>1, <2>2 DEF P!Names, P!Field
<1>4. CASE name = "SetIssuer"
  <2>1. params = <<P!Field("issuer", 32)>>
    BY <1>4 DEF P!Entries, P!Entry, P!SetIssuer
  <2>2. DOMAIN values = {"issuer"}
    BY <1>4 DEF ValuesOf
  <2> QED
    BY <2>1, <2>2 DEF P!Names, P!Field
<1>5. CASE name = "SetMinter"
  <2>1. params = <<P!Field("minter", 32)>>
    BY <1>5 DEF P!Entries, P!Entry, P!SetMinter
  <2>2. DOMAIN values = {"minter"}
    BY <1>5 DEF ValuesOf
  <2> QED
    BY <2>1, <2>2 DEF P!Names, P!Field
<1>6. CASE name \in {"CreateConfig", "ClosePhygitalToken", "RemoveOwner"}
  <2>1. params = <<>>
    BY <1>6 DEF P!Entries, P!Entry, P!CreateConfig, P!ClosePhygitalToken, P!RemoveOwner
  <2> QED
    BY <2>1 DEF P!Names
<1> QED
  BY <1>1, <1>2, <1>3, <1>4, <1>5, <1>6 DEF InstructionNames

(***************************************************************************)
(* The plugin calls one of the two deployments, whichever way it is used.  *)
(***************************************************************************)
LEMMA WaysLead ==
    ASSUME NEW way \in Ways, NEW name \in InstructionNames
    PROVE  /\ way.builders[name] \in Builders(name)
           /\ C!ProgramOf(way.call, way.plugin) \in Deployments
<1>1. way.builders = C!Synchronous \/ way.builders = C!PhygitalTokenProgram
  BY DEF Ways
<1>2. /\ way.call = {} \/ way.call = {Main}
      /\ way.plugin = {} \/ way.plugin = {Other}
  BY DEF Ways
<1>3. \A p : C!Coalesce({}, p) = p
  BY DEF C!Coalesce
<1>4. \A p, q : C!Coalesce({p}, q) = p
  BY DEF C!Coalesce
<1>5. C!Main = Main
  BY DEF C!Main, Main
<1> QED
  BY <1>1, <1>2, <1>3, <1>4, <1>5 DEF Builders, C!ProgramOf, Deployments

(***************************************************************************)
(* Asking for an instruction that takes no tap keeps the invariant.        *)
(***************************************************************************)
LEMMA AskKeeps == ASSUME Inv, Ask PROVE Inv'
<1>1. MayAsk
  BY DEF Ask
<1>2. PICK name \in DOMAIN C!Synchronous \ {"SetOwner", "Verify"}, way \in Ways,
           shape \in Shapes \ {"apart"} :
        \E signer \in Wallets, rentRecipient \in AnyOf(name, "rentRecipient", Wallets),
           key \in AnyOf(name, "phygitalToken", Keys), values \in ValuesOf(name),
           strayConfig \in {FALSE, "adminConfig" \in Needed(way.builders[name])} :
           LET program == C!ProgramOf(way.call, way.plugin)
               builder == way.builders[name]
           IN Send([name |-> name, program |-> program, values |-> values, key |-> key,
                    given |-> Given(builder, program, signer, rentRecipient, key, strayConfig),
                    stray |-> strayConfig, shape |-> shape, tap |-> {}],
                   builder, <<>>)
  BY DEF Ask
<1> DEFINE program == C!ProgramOf(way.call, way.plugin)
           builder == way.builders[name]
<1>3. PICK signer \in Wallets, rentRecipient \in AnyOf(name, "rentRecipient", Wallets),
           key \in AnyOf(name, "phygitalToken", Keys), values \in ValuesOf(name),
           strayConfig \in {FALSE, "adminConfig" \in Needed(builder)} :
           Send([name |-> name, program |-> program, values |-> values, key |-> key,
                 given |-> Given(builder, program, signer, rentRecipient, key, strayConfig),
                 stray |-> strayConfig, shape |-> shape, tap |-> {}],
                builder, <<>>)
  BY <1>2
<1> DEFINE given == Given(builder, program, signer, rentRecipient, key, strayConfig)
           request == [name |-> name, program |-> program, values |-> values, key |-> key,
                       given |-> given, stray |-> strayConfig, shape |-> shape, tap |-> {}]
<1>4. name \in InstructionNames \ {"SetOwner", "Verify"}
  BY NamesMatch
<1>5. builder \in Builders(name) /\ program \in Deployments
  BY <1>4, WaysLead
<1>6. key \in Keys
  BY InterfaceAssumption DEF AnyOf
<1>7. P!Names(P!Entries[name].params) \subseteq DOMAIN values
  BY <1>4, ValuesAsked
<1>14. name = "Initialize" => values.secp256r1Pubkey \in Keys
  BY DEF ValuesOf
<1> HIDE DEF program, builder
<1>8. /\ DOMAIN given = Needed(builder)
      /\ "phygitalToken" \in Needed(builder) =>
            given.phygitalToken = PhygitalTokenPda(program, key)
      /\ "adminConfig" \in Needed(builder) =>
            given.adminConfig = AdminConfigPda(IF strayConfig THEN Elsewhere(program) ELSE program)
  BY DEF Given
<1>9. strayConfig => "adminConfig" \in DOMAIN given
  BY <1>8
<1> HIDE DEF given
<1>10. /\ request.name = name /\ request.program = program /\ request.values = values
       /\ request.key = key /\ request.given = given /\ request.stray = strayConfig
  OBVIOUS
<1>11. asked' = request
  BY <1>3 DEF Send, given
<1> HIDE DEF request
<1>12. AskedFor'
  BY <1>4, <1>5, <1>6, <1>7, <1>8, <1>9, <1>10, <1>11, <1>14, NamesMatch DEF AskedFor
<1>13. Send(request, builder, <<>>)
  BY <1>3 DEF request, given
<1> QED
  BY <1>1, <1>5, <1>8, <1>10, <1>12, <1>13, SendKeeps

(***************************************************************************)
(* What the two builders that take a tap need of the caller, and which     *)
(* values the program reads of them.                                       *)
(***************************************************************************)
LEMMA TapBuilders ==
    /\ C!GetSetOwnerInstruction \in Builders("SetOwner")
    /\ C!GetVerifyInstruction \in Builders("Verify")
    /\ Needed(C!GetSetOwnerInstruction) = {"recipient", "phygitalToken"}
    /\ Needed(C!GetVerifyInstruction) = {"phygitalToken"}
    /\ P!Names(P!Entries["SetOwner"].params) =
            {"verifyArgsRelativeIndex", "signedMessageIndex", "clientDataJson", "slotNumber"}
    /\ P!Names(P!Entries["Verify"].params) =
            {"verifyArgsRelativeIndex", "signedMessageIndex", "clientDataJson", "messageHash",
             "expectedRpIdHash", "expectedOrigins"}
<1>1. /\ C!GetSetOwnerInstruction \in Builders("SetOwner")
      /\ C!GetVerifyInstruction \in Builders("Verify")
  BY DEF Builders, C!Synchronous
<1>2. Needed(C!GetSetOwnerInstruction) = {"recipient", "phygitalToken"}
  <2> DEFINE listed == C!GetSetOwnerInstruction.accounts
  <2>1. listed = <<C!Account("recipient", {"signer"}), C!Account("phygitalToken", {"writable"}),
                   C!AccountOr("slotHashes", {}, "slotHashes"),
                   C!AccountOr("instructionsSysvar", {}, "instructionsSysvar")>>
    BY DEF C!GetSetOwnerInstruction, C!Builder
  <2>2. Needed(C!GetSetOwnerInstruction) =
            {listed[i].name : i \in {n \in DOMAIN listed : listed[n].default = "none"}}
    BY DEF Needed
  <2> HIDE DEF listed
  <2>3. {n \in DOMAIN listed : listed[n].default = "none"} = {1, 2}
    BY <2>1 DEF C!Account, C!AccountOr
  <2>4. listed[1].name = "recipient" /\ listed[2].name = "phygitalToken"
    BY <2>1 DEF C!Account
  <2> QED
    BY <2>2, <2>3, <2>4
<1>3. Needed(C!GetVerifyInstruction) = {"phygitalToken"}
  <2> DEFINE listed == C!GetVerifyInstruction.accounts
  <2>1. listed = <<C!Account("phygitalToken", {"writable"}),
                   C!AccountOr("instructionsSysvar", {}, "instructionsSysvar")>>
    BY DEF C!GetVerifyInstruction, C!Builder
  <2>2. Needed(C!GetVerifyInstruction) =
            {listed[i].name : i \in {n \in DOMAIN listed : listed[n].default = "none"}}
    BY DEF Needed
  <2> HIDE DEF listed
  <2>3. {n \in DOMAIN listed : listed[n].default = "none"} = {1}
    BY <2>1 DEF C!Account, C!AccountOr
  <2>4. listed[1].name = "phygitalToken"
    BY <2>1 DEF C!Account
  <2> QED
    BY <2>2, <2>3, <2>4
<1>4. P!Names(P!Entries["SetOwner"].params) =
            {"verifyArgsRelativeIndex", "signedMessageIndex", "clientDataJson", "slotNumber"}
  <2> DEFINE params == P!Entries["SetOwner"].params
  <2>1. params = <<P!Field("verifyArgsRelativeIndex", 8), P!Field("signedMessageIndex", 1),
                   P!Field("clientDataJson", P!ByteVector), P!Field("slotNumber", 8)>>
    BY DEF P!Entries, P!Entry, P!VerifyArgs, P!SetOwner
  <2> HIDE DEF params
  <2>2. /\ DOMAIN params = 1 .. 4
        /\ params[1].name = "verifyArgsRelativeIndex" /\ params[2].name = "signedMessageIndex"
        /\ params[3].name = "clientDataJson" /\ params[4].name = "slotNumber"
    BY <2>1 DEF P!Field
  <2>3. 1 .. 4 = {1, 2, 3, 4}
    OBVIOUS
  <2> QED
    BY <2>2, <2>3 DEF P!Names, params
<1>5. P!Names(P!Entries["Verify"].params) =
            {"verifyArgsRelativeIndex", "signedMessageIndex", "clientDataJson", "messageHash",
             "expectedRpIdHash", "expectedOrigins"}
  <2> DEFINE params == P!Entries["Verify"].params
  <2>1. params = <<P!Field("verifyArgsRelativeIndex", 8), P!Field("signedMessageIndex", 1),
                   P!Field("clientDataJson", P!ByteVector), P!Field("messageHash", 32),
                   P!Field("expectedRpIdHash", P!Option32),
                   P!Field("expectedOrigins", P!OptionStrings)>>
    BY DEF P!Entries, P!Entry, P!VerifyArgs, P!Verify
  <2> HIDE DEF params
  <2>2. /\ DOMAIN params = 1 .. 6
        /\ params[1].name = "verifyArgsRelativeIndex" /\ params[2].name = "signedMessageIndex"
        /\ params[3].name = "clientDataJson" /\ params[4].name = "messageHash"
        /\ params[5].name = "expectedRpIdHash" /\ params[6].name = "expectedOrigins"
    BY <2>1 DEF P!Field
  <2>3. 1 .. 6 = {1, 2, 3, 4, 5, 6}
    OBVIOUS
  <2> QED
    BY <2>2, <2>3 DEF P!Names, params
<1> QED
  BY <1>1, <1>2, <1>3, <1>4, <1>5

(***************************************************************************)
(* Asking for a transfer with a tap keeps the invariant.                   *)
(***************************************************************************)
LEMMA AskTransferKeeps == ASSUME Inv, AskTransfer PROVE Inv'
<1>1. MayAsk
  BY DEF AskTransfer
<1>2. PICK key \in Keys, recipient \in Wallets, signer \in Wallets :
        LET session == C!BeginTransfer(key, recipient, <<"slot">>)
        IN \E tap \in Taps(session.challenge) :
            \E id \in C!AuthenticatePasskeyForTransfer(session, tap) :
            \E existing \in Existing, shape \in Shapes :
            \E built \in C!CompleteTransfer(session, id, tap, signer, existing) :
                Send([name |-> "SetOwner", program |-> Main, values |-> built.values,
                      key |-> key, given |-> built.given, stray |-> FALSE, shape |-> shape,
                      tap |-> Tapped(tap, id, existing)],
                     C!GetSetOwnerInstruction, <<built.instruction>>)
  BY DEF AskTransfer
<1> DEFINE session == C!BeginTransfer(key, recipient, <<"slot">>)
<1>3. PICK tap, id, existing, shape :
            \E built \in C!CompleteTransfer(session, id, tap, signer, existing) :
                Send([name |-> "SetOwner", program |-> Main, values |-> built.values,
                      key |-> key, given |-> built.given, stray |-> FALSE, shape |-> shape,
                      tap |-> Tapped(tap, id, existing)],
                     C!GetSetOwnerInstruction, <<built.instruction>>)
  BY <1>2
<1>4. PICK built \in C!CompleteTransfer(session, id, tap, signer, existing) :
                Send([name |-> "SetOwner", program |-> Main, values |-> built.values,
                      key |-> key, given |-> built.given, stray |-> FALSE, shape |-> shape,
                      tap |-> Tapped(tap, id, existing)],
                     C!GetSetOwnerInstruction, <<built.instruction>>)
  BY <1>3
<1>5. session.phygitalToken = PhygitalTokenPda(Main, key)
  BY SameAddresses DEF C!BeginTransfer
<1> HIDE DEF session
<1>6. /\ DOMAIN built.given = {"recipient", "phygitalToken"}
      /\ built.given.phygitalToken = PhygitalTokenPda(Main, key)
      /\ DOMAIN built.values =
            {"verifyArgsRelativeIndex", "signedMessageIndex", "clientDataJson", "slotNumber"}
  BY <1>5 DEF C!CompleteTransfer
<1> DEFINE request == [name |-> "SetOwner", program |-> Main, values |-> built.values,
                       key |-> key, given |-> built.given, stray |-> FALSE, shape |-> shape,
                       tap |-> Tapped(tap, id, existing)]
<1>7. /\ request.name = "SetOwner" /\ request.program = Main /\ request.values = built.values
      /\ request.key = key /\ request.given = built.given /\ request.stray = FALSE
  OBVIOUS
<1>8. asked' = request
  BY <1>4 DEF Send
<1>9. Send(request, C!GetSetOwnerInstruction, <<built.instruction>>)
  BY <1>4
<1> HIDE DEF request
<1>10. AskedFor'
  BY <1>6, <1>7, <1>8, TapBuilders, NamesMatch DEF AskedFor, Deployments, InstructionNames
<1> QED
  BY <1>1, <1>6, <1>7, <1>9, <1>10, TapBuilders, SendKeeps

(***************************************************************************)
(* Asking for a tap to be verified keeps the invariant.                    *)
(***************************************************************************)
LEMMA AskVerifyKeeps == ASSUME Inv, AskVerify PROVE Inv'
<1>1. MayAsk
  BY DEF AskVerify
<1>2. PICK tap \in Taps(C!BuildVerifyChallenge(<<"messageHash">>)), rpc \in BOOLEAN :
        \E id \in C!ResolveCredentialId(tap, IF rpc THEN {} ELSE Keys, rpc, accounts) :
        \E existing \in Existing, shape \in Shapes, relative \in {-1, -2} :
            LET built == C!BuildSecp256r1VerifyInstruction(id, tap, existing, relative)
                args == built.secp256r1VerifyArgs
            IN Send([name |-> "Verify", program |-> Main, key |-> id, stray |-> FALSE,
                     values |-> [verifyArgsRelativeIndex |-> args.verifyArgsRelativeIndex,
                                 signedMessageIndex |-> args.signedMessageIndex,
                                 clientDataJson |-> args.clientDataJson,
                                 messageHash |-> <<"messageHash">>,
                                 expectedRpIdHash |-> <<"rp">>,
                                 expectedOrigins |-> <<"origins">>],
                     given |-> [phygitalToken |-> built.phygitalTokenPda],
                     shape |-> shape, tap |-> Tapped(tap, id, existing)],
                    C!GetVerifyInstruction, <<built.instruction>>)
  BY DEF AskVerify
<1>3. PICK id \in C!ResolveCredentialId(tap, IF rpc THEN {} ELSE Keys, rpc, accounts),
           existing \in Existing, shape \in Shapes, relative \in {-1, -2} :
            LET built == C!BuildSecp256r1VerifyInstruction(id, tap, existing, relative)
                args == built.secp256r1VerifyArgs
            IN Send([name |-> "Verify", program |-> Main, key |-> id, stray |-> FALSE,
                     values |-> [verifyArgsRelativeIndex |-> args.verifyArgsRelativeIndex,
                                 signedMessageIndex |-> args.signedMessageIndex,
                                 clientDataJson |-> args.clientDataJson,
                                 messageHash |-> <<"messageHash">>,
                                 expectedRpIdHash |-> <<"rp">>,
                                 expectedOrigins |-> <<"origins">>],
                     given |-> [phygitalToken |-> built.phygitalTokenPda],
                     shape |-> shape, tap |-> Tapped(tap, id, existing)],
                    C!GetVerifyInstruction, <<built.instruction>>)
  BY <1>2
<1> DEFINE b == C!BuildSecp256r1VerifyInstruction(id, tap, existing, relative)
           args == b.secp256r1VerifyArgs
           sent == [verifyArgsRelativeIndex |-> args.verifyArgsRelativeIndex,
                    signedMessageIndex |-> args.signedMessageIndex,
                    clientDataJson |-> args.clientDataJson,
                    messageHash |-> <<"messageHash">>,
                    expectedRpIdHash |-> <<"rp">>,
                    expectedOrigins |-> <<"origins">>]
           given == [phygitalToken |-> b.phygitalTokenPda]
           request == [name |-> "Verify", program |-> Main, key |-> id, stray |-> FALSE,
                       values |-> sent, given |-> given,
                       shape |-> shape, tap |-> Tapped(tap, id, existing)]
<1>4. b.phygitalTokenPda = PhygitalTokenPda(Main, id)
  BY SameAddresses DEF C!BuildSecp256r1VerifyInstruction
<1>5. Send(request, C!GetVerifyInstruction, <<b.instruction>>)
  BY <1>3
<1> HIDE DEF b
<1>6. DOMAIN sent = {"verifyArgsRelativeIndex", "signedMessageIndex", "clientDataJson",
                     "messageHash", "expectedRpIdHash", "expectedOrigins"}
  OBVIOUS
<1>7. DOMAIN given = {"phygitalToken"} /\ given.phygitalToken = PhygitalTokenPda(Main, id)
  BY <1>4
<1> HIDE DEF sent, given
<1>8. /\ request.name = "Verify" /\ request.program = Main /\ request.values = sent
      /\ request.key = id /\ request.given = given /\ request.stray = FALSE
  OBVIOUS
<1>9. asked' = request
  BY <1>5 DEF Send
<1> HIDE DEF request
<1>10. AskedFor'
  BY <1>6, <1>7, <1>8, <1>9, TapBuilders, NamesMatch DEF AskedFor, Deployments, InstructionNames
<1> QED
  BY <1>1, <1>5, <1>7, <1>8, <1>10, TapBuilders, SendKeeps

(***************************************************************************)
(* A handler returns only errors of the program's list.                    *)
(***************************************************************************)
LEMMA ErrorsListed ==
    ASSUME NEW name \in InstructionNames, NEW error \in P!Errors[name]
    PROVE  \E i \in DOMAIN P!PhygitalError : error = P!PhygitalError[i]
<1> DEFINE listed == {P!PhygitalError[i] : i \in 1 .. 23}
<1>1. /\ P!PhygitalError[1] = "InvalidSecp256r1Instruction"
      /\ P!PhygitalError[2] = "SignatureIndexOutOfBounds"
      /\ P!PhygitalError[3] = "InvalidSignatureOffsets"
      /\ P!PhygitalError[4] = "InvalidSecp256r1PublicKey"
      /\ P!PhygitalError[5] = "Secp256r1PubkeyMismatch"
      /\ P!PhygitalError[6] = "OwnerMismatch" /\ P!PhygitalError[7] = "InvalidSlotHash"
      /\ P!PhygitalError[8] = "StaleSignCount"
      /\ P!PhygitalError[9] = "ClientDataHashMismatch"
      /\ P!PhygitalError[10] = "InvalidSysvarDataFormat"
      /\ P!PhygitalError[11] = "TokenIsCurrentlyLocked"
      /\ P!PhygitalError[12] = "UnableToParseClientData"
      /\ P!PhygitalError[13] = "ChallengeHashMismatch"
      /\ P!PhygitalError[14] = "InvalidAuthenticatorData"
      /\ P!PhygitalError[15] = "UserPresenceNotVerified"
      /\ P!PhygitalError[16] = "RpIdMismatch" /\ P!PhygitalError[17] = "OriginMismatch"
      /\ P!PhygitalError[18] = "UnauthorizedAuthority"
      /\ P!PhygitalError[19] = "UnauthorizedAdmin"
      /\ P!PhygitalError[20] = "KeyAlreadyExists"
      /\ P!PhygitalError[21] = "PermanentOwnerRequired"
      /\ P!PhygitalError[22] = "PermanentOwnerImmutable"
      /\ P!PhygitalError[23] = "ClientDataTypeMismatch"
  BY DEF P!PhygitalError
<1>2. P!AssertionErrors \subseteq listed
  BY <1>1 DEF P!AssertionErrors
<1>3. error \in {"UnauthorizedAdmin", "KeyAlreadyExists", "UnauthorizedAuthority",
                 "PermanentOwnerRequired", "TokenIsCurrentlyLocked", "InvalidSlotHash",
                 "RpIdMismatch", "OriginMismatch", "OwnerMismatch", "PermanentOwnerImmutable"}
                \cup P!AssertionErrors
  BY DEF P!Errors, InstructionNames
<1>4. error \in listed
  BY <1>1, <1>2, <1>3
<1> QED
  BY <1>4, CodesMatch

(***************************************************************************)
(* A transaction that fails, one that lands, and turning to the next keep  *)
(* the invariant.                                                          *)
(***************************************************************************)
LEMMA OutcomesKeep ==
    ASSUME Inv, PrecompileFails \/ Run \/ Done
    PROVE  Inv'
<1>1. ASSUME stage = "sent", NEW index, NEW code, NEW why, Fail(index, code, why), FailedSo'
      PROVE  Inv'
  <2>1. /\ stage' = "failed" /\ asked' = asked /\ instructions' = instructions
        /\ accounts' = accounts /\ before' = before
    BY <1>1 DEF Fail
  <2>2. AskedFor' /\ SentAsBuilt'
    BY <1>1, <2>1 DEF Inv, AskedFor, SentAsBuilt, Ours
  <2> QED
    BY <1>1, <2>1, <2>2 DEF Inv
<1>2. ASSUME NEW index, NEW code, NEW why, Fail(index, code, why)
      PROVE  /\ failure'.index = index /\ failure'.code = code /\ failure'.why = why
             /\ instructions' = instructions
  BY <1>2 DEF Fail
<1>3. ASSUME StrangerFails PROVE Inv'
  <2>1. PICK i \in DOMAIN instructions :
            instructions[i] = Stranger /\ Fail(i, P!Code("StaleSignCount"), "stranger")
    BY <1>3 DEF StrangerFails
  <2>2. FailedSo'
    BY <1>2, <2>1 DEF FailedSo
  <2> QED
    BY <1>1, <1>3, <2>1, <2>2 DEF StrangerFails
<1>4. ASSUME Refuse PROVE Inv'
  <2>1. FailedSo'
    BY <1>2, <1>4 DEF Refuse, FailedSo
  <2> QED
    BY <1>1, <1>4, <2>1 DEF Refuse
<1>5. ASSUME stage = "sent", NEW error \in P!Errors[P!Call(Ours).name], Reject(error) PROVE Inv'
  <2>1. P!Call(Ours).name \in InstructionNames
    BY <1>5, SentIsRead DEF Inv
  <2>2. \E i \in DOMAIN P!PhygitalError : error = P!PhygitalError[i]
    BY <1>5, <2>1, ErrorsListed
  <2>3. Fail(Len(instructions), P!Code(error), error)
    BY <1>5 DEF Reject
  <2>4. FailedSo'
    BY <1>2, <2>2, <2>3 DEF FailedSo
  <2> QED
    BY <1>1, <1>5, <2>3, <2>4
<1>6. ASSUME Accept PROVE Inv'
  <2>1. stage = "sent" /\ AskedFor /\ SentAsBuilt /\ InPlace(accounts) /\ accounts = before
    BY <1>6 DEF Accept, Inv
  <2>2. /\ P!Admitted(Ours, accounts) /\ stage' = "landed" /\ asked' = asked
        /\ accounts' = P!Handle(P!Call(Ours), accounts).accounts
        /\ log' = P!Handle(P!Call(Ours), accounts).event
        /\ instructions' = instructions /\ before' = before
    BY <1>6 DEF Accept
  <2>3. InPlace(accounts')
    BY <2>1, <2>2, HandlingKeeps
  <2>4. AskedFor' /\ SentAsBuilt' /\ Handled'
    BY <2>1, <2>2 DEF AskedFor, SentAsBuilt, Handled, Ours
  <2> QED
    BY <2>1, <2>2, <2>3, <2>4 DEF Inv
<1>7. ASSUME Done PROVE Inv'
  BY <1>7 DEF Done, Inv
<1>8. ASSUME PrecompileFails PROVE Inv'
  <2>1. PICK i \in DOMAIN instructions :
            /\ ~Verifies(instructions[i])
            /\ Fail(i, P!Code("StaleSignCount"), "precompile")
    BY <1>8 DEF PrecompileFails
  <2>2. instructions[i].program = Secp256r1Program
    BY <2>1 DEF Verifies
  <2>3. FailedSo'
    BY <1>2, <2>1, <2>2 DEF FailedSo
  <2> QED
    BY <1>1, <1>8, <2>1, <2>3 DEF PrecompileFails
<1> QED
  BY <1>3, <1>4, <1>5, <1>6, <1>7, <1>8 DEF Run

(***************************************************************************)
(* The registries and the token that are there from the start are in       *)
(* place.                                                                  *)
(***************************************************************************)
LEMMA StartsInPlace == Init => Inv
<1> SUFFICES ASSUME Init PROVE Inv
  OBVIOUS
<1>1. InPlace(<<>>)
  BY DEF InPlace
<1>2. ASSUME NEW program \in Deployments, NEW others, InPlace(others)
      PROVE  InPlace(WithRegistry(program, others))
  <2> DEFINE call == [name |-> "CreateConfig",
                      accounts |-> [authority |-> Somebody,
                                    adminConfig |-> AdminConfigPda(program)]]
  <2>1. WithRegistry(program, others) = P!Handle(call, others).accounts
    BY DEF WithRegistry
  <2>2. call.name = "CreateConfig" /\ call.accounts.adminConfig = AdminConfigPda(program)
    OBVIOUS
  <2> HIDE DEF call
  <2>3. P!Handle(call, others) = P!HandleCreateConfig(call, others)
    BY <2>2 DEF P!Handle
  <2>4. \E values : WithRegistry(program, others) =
                        P!Put(others, AdminConfigPda(program), P!Encode(P!AdminConfig, values))
    BY <2>1, <2>2, <2>3 DEF P!HandleCreateConfig, P!Outcome, P!PutConfig
  <2> QED
    BY <1>2, <2>4, WrittenInPlace
<1>3. ASSUME NEW others, InPlace(others) PROVE InPlace(WithToken(others))
  <2> DEFINE key == CHOOSE k \in Keys : TRUE
             call == [name |-> "Initialize",
                      accounts |-> [authority |-> Somebody,
                                    phygitalToken |-> PhygitalTokenPda(Main, key)],
                      values |-> [identifier |-> CHOOSE i \in Identifiers : TRUE,
                                  secp256r1Pubkey |-> key, owner |-> SystemProgram,
                                  tokenType |-> P!TypeByte("Controlled")]]
  <2>1. key \in Keys
    BY InterfaceAssumption
  <2>2. WithToken(others) = P!Handle(call, others).accounts
    BY DEF WithToken
  <2> HIDE DEF key
  <2>3. call.name = "Initialize" /\ call.accounts.phygitalToken = PhygitalTokenPda(Main, key)
    OBVIOUS
  <2> HIDE DEF call
  <2>4. P!Handle(call, others) = P!HandleInitialize(call, others)
    BY <2>3 DEF P!Handle
  <2>5. \E values : WithToken(others) =
            P!Put(others, PhygitalTokenPda(Main, key), P!Encode(P!PhygitalToken, values))
    BY <2>2, <2>3, <2>4 DEF P!HandleInitialize, P!Outcome, P!PutToken
  <2>6. Main \in Deployments
    BY DEF Deployments
  <2> QED
    BY <1>3, <2>1, <2>5, <2>6, WrittenInPlace
<1>4. InPlace(accounts)
  <2>1. Main \in Deployments /\ Other \in Deployments
    BY DEF Deployments
  <2>2. InPlace(WithRegistry(Other, <<>>))
    BY <1>1, <1>2, <2>1
  <2>3. InPlace(WithRegistry(Main, WithRegistry(Other, <<>>)))
    BY <1>2, <2>1, <2>2
  <2>4. InPlace(WithToken(WithRegistry(Main, WithRegistry(Other, <<>>))))
    BY <1>3, <2>3
  <2> QED
    BY <1>1, <2>4 DEF Init
<1> QED
  BY <1>4 DEF Init, Inv

(***************************************************************************)
(* Every account is where its kind and its deployment put it, everything   *)
(* sent is what a builder makes of what was asked, and what became of it   *)
(* is what the program's handler or its refusal makes of it.               *)
(***************************************************************************)
THEOREM InvCorrect == Spec => []Inv
<1>1. Init => Inv
  BY StartsInPlace
<1>2. Inv /\ [Next]_vars => Inv'
  <2> SUFFICES ASSUME Inv, [Next]_vars PROVE Inv'
    OBVIOUS
  <2>1. CASE Ask
    BY <2>1, AskKeeps
  <2>2. CASE AskTransfer
    BY <2>2, AskTransferKeeps
  <2>3. CASE AskVerify
    BY <2>3, AskVerifyKeeps
  <2>4. CASE PrecompileFails \/ Run \/ Done
    BY <2>4, OutcomesKeep
  <2>5. CASE UNCHANGED vars
    BY <2>5 DEF vars, Inv, AskedFor, SentAsBuilt, Handled, FailedSo, Ours
  <2> QED
    BY <2>1, <2>2, <2>3, <2>4, <2>5 DEF Next
<1> QED
  BY <1>1, <1>2, PTL DEF Spec

(***************************************************************************)
(* The client takes a failure for an error of the program exactly when the *)
(* program called returned it, whatever else was in the transaction.       *)
(***************************************************************************)
THEOREM AlwaysErrorsNamedRight == Spec => []ErrorsNamedRight
BY InvCorrect, ErrorsTold, PTL

(***************************************************************************)
(* A call asked for well reaches the handler of its name with the accounts *)
(* and values given, and any other is refused before a handler runs.       *)
(***************************************************************************)
THEOREM AlwaysArrivesAsMeant == Spec => []ArrivesAsMeant
BY InvCorrect, Arrives, PTL

----------------------------------------------------------------------------
(* Events.                                                                 *)

EventNames == InstructionNames \ {"Verify"}

\* The event each handler emits, as the Rust source declares it.
Emitted ==
    [CreateConfig |-> P!CreateConfigEvent, SetAdmin |-> P!SetAdminEvent,
     SetIssuer |-> P!SetIssuerEvent, SetMinter |-> P!SetMinterEvent,
     ClosePhygitalToken |-> P!ClosePhygitalTokenEvent, Initialize |-> P!InitializeEvent,
     AssignMint |-> P!AssignMintEvent, SetOwner |-> P!SetOwnerEvent,
     RemoveOwner |-> P!RemoveOwnerEvent]

(***************************************************************************)
(* The client knows the events of the nine instructions that emit one, as  *)
(* they are declared.                                                      *)
(***************************************************************************)
LEMMA EventsMatch ==
    ASSUME NEW name \in EventNames
    PROVE  C!Events[name] = Emitted[name] /\ Laid(Emitted[name].fields)
<1> USE DEF C!Events, Emitted, C!Layout, P!Layout, C!Secp256r1Pubkey, C!Field, P!Field
<1>1. CASE name = "CreateConfig"
  BY <1>1 DEF C!CreateConfigEvent, P!CreateConfigEvent, Laid
<1>2. CASE name = "SetAdmin"
  BY <1>2 DEF C!SetAdminEvent, P!SetAdminEvent, Laid
<1>3. CASE name = "SetIssuer"
  BY <1>3 DEF C!SetIssuerEvent, P!SetIssuerEvent, Laid
<1>4. CASE name = "SetMinter"
  BY <1>4 DEF C!SetMinterEvent, P!SetMinterEvent, Laid
<1>5. CASE name = "ClosePhygitalToken"
  <2> DEFINE fields == Emitted[name].fields
  <2>1. C!Events[name] = Emitted[name]
    BY <1>5 DEF C!ClosePhygitalTokenEvent, P!ClosePhygitalTokenEvent
  <2>2. fields = <<P!Field("admin", 32), P!Field("rentRecipient", 32),
                   P!Field("publicKey", 33), P!Field("identifier", 33),
                   P!Field("owner", 32), P!Field("mint", 32)>>
    BY <1>5 DEF P!ClosePhygitalTokenEvent
  <2> HIDE DEF fields
  <2>3. Laid(fields)
    BY <2>2 DEF Laid
  <2> QED
    BY <2>1, <2>3 DEF fields
<1>6. CASE name = "Initialize"
  BY SMTT(30), <1>6 DEF C!InitializeEvent, P!InitializeEvent, Laid
<1>7. CASE name = "AssignMint"
  BY SMTT(30), <1>7 DEF C!AssignMintEvent, P!AssignMintEvent, Laid
<1>8. CASE name = "SetOwner"
  BY SMTT(30), <1>8 DEF C!SetOwnerEvent, P!SetOwnerEvent, Laid
<1>9. CASE name = "RemoveOwner"
  BY <1>9 DEF C!RemoveOwnerEvent, P!RemoveOwnerEvent, Laid
<1> QED
  BY <1>1, <1>2, <1>3, <1>4, <1>5, <1>6, <1>7, <1>8, <1>9 DEF EventNames, InstructionNames

(***************************************************************************)
(* The discriminators tell the events apart, and the client goes by them.  *)
(***************************************************************************)
LEMMA EventsTold ==
    ASSUME NEW name \in EventNames, NEW data, data.disc = Emitted[name].disc
    PROVE  C!IdentifyPhygitalTokenEvent(data) = name /\ name # "unknown"
<1> DEFINE table == [AssignMint |-> 232, ClosePhygitalToken |-> 185, CreateConfig |-> 107,
                     Initialize |-> 206, RemoveOwner |-> 246, SetAdmin |-> 240,
                     SetIssuer |-> 74, SetMinter |-> 8, SetOwner |-> 229]
           found == CHOOSE n \in DOMAIN table : table[n] = data.disc
<1>1. DOMAIN table = EventNames
  BY DEF EventNames, InstructionNames
<1>2. \A n \in EventNames : table[n] = Emitted[n].disc
  BY DEF EventNames, InstructionNames, Emitted, P!Layout, P!CreateConfigEvent, P!SetAdminEvent,
         P!SetIssuerEvent, P!SetMinterEvent, P!ClosePhygitalTokenEvent, P!InitializeEvent,
         P!AssignMintEvent, P!SetOwnerEvent, P!RemoveOwnerEvent
<1>3. \A n, m \in EventNames : table[n] = table[m] => n = m
  BY DEF EventNames, InstructionNames
<1>4. C!IdentifyPhygitalTokenEvent(data) =
        IF \E n \in DOMAIN table : table[n] = data.disc THEN found ELSE "unknown"
  BY DEF C!IdentifyPhygitalTokenEvent, C!LookUp
<1> HIDE DEF table
<1>5. found \in EventNames /\ table[found] = data.disc
  BY <1>1, <1>2
<1> HIDE DEF found
<1>6. found = name
  BY <1>2, <1>3, <1>5
<1> QED
  BY <1>1, <1>2, <1>4, <1>6, HandlersTold DEF EventNames

(***************************************************************************)
(* The client reads an event under its name, with the values emitted.      *)
(***************************************************************************)
LEMMA EventRead ==
    ASSUME NEW name \in EventNames, NEW values
    PROVE  LET event == C!ParseEvent(P!Encode(Emitted[name], values))
           IN /\ event.name = name
              /\ event.values = [n \in P!Names(Emitted[name].fields) |-> values[n]]
<1> DEFINE layout == Emitted[name]
           data == P!Encode(layout, values)
<1>1. C!Events[name] = layout /\ Laid(layout.fields)
  BY EventsMatch
<1> HIDE DEF layout
<1>2. /\ data.disc = layout.disc
      /\ P!Decode(layout.fields, data) = [n \in P!Names(layout.fields) |-> values[n]]
  BY <1>1, RoundTrip
<1> HIDE DEF data
<1>3. C!IdentifyPhygitalTokenEvent(data) = name /\ name # "unknown"
  BY <1>2, EventsTold DEF layout
<1>4. C!ParseEvent(data) = [name |-> name, values |-> C!Decode(layout.fields, data)]
  BY <1>1, <1>3 DEF C!ParseEvent
<1>5. C!ParseEvent(data).name = name
      /\ C!ParseEvent(data).values = [n \in P!Names(layout.fields) |-> values[n]]
  BY <1>2, <1>4, SameCodec
<1> QED
  BY <1>5 DEF data, layout

\* Who acts: the account that signs.
Actor(name) ==
    CASE name \in {"CreateConfig", "Initialize", "AssignMint"} -> "authority"
      [] name \in {"SetAdmin", "SetIssuer", "SetMinter", "ClosePhygitalToken"} -> "admin"
      [] name = "SetOwner" -> "recipient"
      [] name = "RemoveOwner" -> "owner"

(***************************************************************************)
(* The caller names who acts, and who gets a closed token's rent.          *)
(***************************************************************************)
LEMMA ActorNeeded ==
    ASSUME NEW name \in EventNames, NEW builder \in Builders(name)
    PROVE  /\ Actor(name) \in Needed(builder)
           /\ name = "ClosePhygitalToken" => "rentRecipient" \in Needed(builder)
<1> DEFINE listed == builder.accounts
<1> USE DEF Builders, C!Synchronous, C!PhygitalTokenProgram, C!Builder, C!Account, C!AccountOr,
            Actor
<1>1. CASE name = "CreateConfig"
  <2>1. 1 \in DOMAIN listed /\ listed[1].name = "authority" /\ listed[1].default = "none"
    BY <1>1 DEF C!GetCreateConfigInstruction, C!GetCreateConfigInstructionAsync
  <2> HIDE DEF listed
  <2>3. Actor(name) \in {listed[i].name : i \in {n \in DOMAIN listed : listed[n].default = "none"}}
    BY <1>1, <2>1
  <2> QED
    BY <1>1, <2>3 DEF Needed, listed
<1>2. CASE name = "SetAdmin"
  <2>1. 1 \in DOMAIN listed /\ listed[1].name = "admin" /\ listed[1].default = "none"
    BY <1>2 DEF C!GetSetAdminInstruction, C!GetSetAdminInstructionAsync
  <2> HIDE DEF listed
  <2>3. Actor(name) \in {listed[i].name : i \in {n \in DOMAIN listed : listed[n].default = "none"}}
    BY <1>2, <2>1
  <2> QED
    BY <1>2, <2>3 DEF Needed, listed
<1>3. CASE name = "SetIssuer"
  <2>1. 1 \in DOMAIN listed /\ listed[1].name = "admin" /\ listed[1].default = "none"
    BY <1>3 DEF C!GetSetIssuerInstruction, C!GetSetIssuerInstructionAsync
  <2> HIDE DEF listed
  <2>3. Actor(name) \in {listed[i].name : i \in {n \in DOMAIN listed : listed[n].default = "none"}}
    BY <1>3, <2>1
  <2> QED
    BY <1>3, <2>3 DEF Needed, listed
<1>4. CASE name = "SetMinter"
  <2>1. 1 \in DOMAIN listed /\ listed[1].name = "admin" /\ listed[1].default = "none"
    BY <1>4 DEF C!GetSetMinterInstruction, C!GetSetMinterInstructionAsync
  <2> HIDE DEF listed
  <2>3. Actor(name) \in {listed[i].name : i \in {n \in DOMAIN listed : listed[n].default = "none"}}
    BY <1>4, <2>1
  <2> QED
    BY <1>4, <2>3 DEF Needed, listed
<1>5. CASE name = "ClosePhygitalToken"
  <2>1. 1 \in DOMAIN listed /\ listed[1].name = "admin" /\ listed[1].default = "none"
    BY <1>5 DEF C!GetClosePhygitalTokenInstruction, C!GetClosePhygitalTokenInstructionAsync
  <2>2. 2 \in DOMAIN listed /\ listed[2].name = "rentRecipient" /\ listed[2].default = "none"
    BY <1>5 DEF C!GetClosePhygitalTokenInstruction, C!GetClosePhygitalTokenInstructionAsync
  <2> HIDE DEF listed
  <2>3. Actor(name) \in {listed[i].name : i \in {n \in DOMAIN listed : listed[n].default = "none"}}
    BY <1>5, <2>1
  <2>4. "rentRecipient" \in
            {listed[i].name : i \in {n \in DOMAIN listed : listed[n].default = "none"}}
    BY <2>2
  <2> QED
    BY <2>3, <2>4 DEF Needed, listed
<1>6. CASE name = "Initialize"
  <2>1. 1 \in DOMAIN listed /\ listed[1].name = "authority" /\ listed[1].default = "none"
    BY <1>6 DEF C!GetInitializeInstruction, C!GetInitializeInstructionAsync
  <2> HIDE DEF listed
  <2>3. Actor(name) \in {listed[i].name : i \in {n \in DOMAIN listed : listed[n].default = "none"}}
    BY <1>6, <2>1
  <2> QED
    BY <1>6, <2>3 DEF Needed, listed
<1>7. CASE name = "AssignMint"
  <2>1. 1 \in DOMAIN listed /\ listed[1].name = "authority" /\ listed[1].default = "none"
    BY <1>7 DEF C!GetAssignMintInstruction, C!GetAssignMintInstructionAsync
  <2> HIDE DEF listed
  <2>3. Actor(name) \in {listed[i].name : i \in {n \in DOMAIN listed : listed[n].default = "none"}}
    BY <1>7, <2>1
  <2> QED
    BY <1>7, <2>3 DEF Needed, listed
<1>8. CASE name = "SetOwner"
  <2>1. 1 \in DOMAIN listed /\ listed[1].name = "recipient" /\ listed[1].default = "none"
    BY <1>8 DEF C!GetSetOwnerInstruction
  <2> HIDE DEF listed
  <2>3. Actor(name) \in {listed[i].name : i \in {n \in DOMAIN listed : listed[n].default = "none"}}
    BY <1>8, <2>1
  <2> QED
    BY <1>8, <2>3 DEF Needed, listed
<1>9. CASE name = "RemoveOwner"
  <2>1. 1 \in DOMAIN listed /\ listed[1].name = "owner" /\ listed[1].default = "none"
    BY <1>9 DEF C!GetRemoveOwnerInstruction
  <2> HIDE DEF listed
  <2>3. Actor(name) \in {listed[i].name : i \in {n \in DOMAIN listed : listed[n].default = "none"}}
    BY <1>9, <2>1
  <2> QED
    BY <1>9, <2>3 DEF Needed, listed
<1> QED
  BY <1>1, <1>2, <1>3, <1>4, <1>5, <1>6, <1>7, <1>8, <1>9 DEF EventNames, InstructionNames

(***************************************************************************)
(* A registry or a token is read back from where it was written.           *)
(***************************************************************************)
LEMMA ReadBack ==
    ASSUME NEW data, NEW address, NEW values
    PROVE  /\ C!FetchAdminConfig(P!Put(data, address, P!Encode(P!AdminConfig, values)), address)
                = [n \in P!Names(P!AdminConfig.fields) |-> values[n]]
           /\ C!FetchPhygitalToken(P!Put(data, address, P!Encode(P!PhygitalToken, values)),
                                   address)
                = [n \in P!Names(P!PhygitalToken.fields) |-> values[n]]
<1>1. ASSUME NEW d PROVE P!Put(data, address, d)[address] = d
  BY DEF P!Put
<1>2. /\ C!AdminConfig.fields = P!AdminConfig.fields
      /\ C!PhygitalToken.fields = P!PhygitalToken.fields
  BY DEF C!AdminConfig, P!AdminConfig, C!PhygitalToken, P!PhygitalToken, C!Layout, P!Layout,
         C!Secp256r1Pubkey, C!Field, P!Field
<1>3. /\ P!Decode(P!AdminConfig.fields, P!Encode(P!AdminConfig, values))
            = [n \in P!Names(P!AdminConfig.fields) |-> values[n]]
      /\ P!Decode(P!PhygitalToken.fields, P!Encode(P!PhygitalToken, values))
            = [n \in P!Names(P!PhygitalToken.fields) |-> values[n]]
  BY AccountsLaid, RoundTrip
<1> QED
  BY <1>1, <1>2, <1>3, SameCodec DEF C!FetchAdminConfig, C!FetchPhygitalToken

(***************************************************************************)
(* The client and the handler read a registry or a token alike.            *)
(***************************************************************************)
LEMMA ReadAlikeThere ==
    ASSUME NEW call, NEW data
    PROVE  /\ P!Config(call, data) = C!FetchAdminConfig(data, call.accounts.adminConfig)
           /\ P!Token(call, data) = C!FetchPhygitalToken(data, call.accounts.phygitalToken)
           /\ DOMAIN P!Config(call, data) = P!Names(P!AdminConfig.fields)
           /\ DOMAIN P!Token(call, data) = P!Names(P!PhygitalToken.fields)
<1>1. /\ C!AdminConfig.fields = P!AdminConfig.fields
      /\ C!PhygitalToken.fields = P!PhygitalToken.fields
  BY DEF C!AdminConfig, P!AdminConfig, C!PhygitalToken, P!PhygitalToken, C!Layout, P!Layout,
         C!Secp256r1Pubkey, C!Field, P!Field
<1>2. \A fields, d : DOMAIN P!Decode(fields, d) = P!Names(fields)
  BY DEF P!Decode
<1> QED
  BY <1>1, <1>2, SameCodec DEF C!FetchAdminConfig, C!FetchPhygitalToken, P!Config, P!Token

(***************************************************************************)
(* An event that was emitted is read with who acted and what changed.      *)
(***************************************************************************)
LEMMA EventsTell == Inv => EventTellsChange
<1> SUFFICES ASSUME Inv, stage = "landed", asked.name # "Verify"
             PROVE  EventTellsChange
  BY DEF EventTellsChange
<1> DEFINE name == asked.name
           given == asked.given
           call == P!Call(Ours)
           registry == AdminConfigPda(asked.program)
           token == PhygitalTokenPda(asked.program, asked.key)
           event == C!ParseEvent(log)
           past == name \in {"ClosePhygitalToken", "RemoveOwner", "SetOwner"}
           Meant(n) ==
                CASE n \in {"authority", "rentRecipient", "recipient"} -> given[n]
                  [] n = "admin" -> given.admin
                  [] n = "previousAdmin" -> Config(before).admin
                  [] n = "newAdmin" -> Config(accounts).admin
                  [] n \in {"issuer", "minter"} -> Config(accounts)[n]
                  [] n = "owner" /\ name = "RemoveOwner" -> given.owner
                  [] OTHER -> Token(IF past THEN before ELSE accounts)[n]
<1> SUFFICES event.name = name /\ \A n \in DOMAIN event.values : event.values[n] = Meant(n)
  BY DEF EventTellsChange
<1>1. /\ AskedFor /\ SentAsBuilt /\ InPlace(before) /\ P!Admitted(Ours, before)
      /\ accounts = P!Handle(call, before).accounts /\ log = P!Handle(call, before).event
  BY DEF Inv, Handled
<1>2. name \in EventNames /\ call.name = name
  BY <1>1, SentIsRead DEF EventNames
<1>3. /\ asked.shape # "short"
      /\ Checks(name) \cap {"config", "newConfig"} # {} => call.accounts.adminConfig = registry
      /\ Checks(name) \cap {"token", "newToken"} # {} => call.accounts.phygitalToken = token
  BY <1>1, HandledAt
<1>4. \A n \in DOMAIN given : call.accounts[n] = given[n]
  BY <1>1, <1>3, SentAccounts
<1>5. PICK builder \in Builders(name) : DOMAIN given = Needed(builder)
  BY <1>1, <1>3, SentAccounts
<1>6. /\ Actor(name) \in DOMAIN given
      /\ name = "ClosePhygitalToken" => "rentRecipient" \in DOMAIN given
  BY <1>2, <1>5, ActorNeeded
<1>7. /\ call.accounts[Actor(name)] = given[Actor(name)]
      /\ name = "ClosePhygitalToken" => call.accounts.rentRecipient = given.rentRecipient
  BY <1>4, <1>6
<1>8. name \in {"CreateConfig", "SetAdmin", "SetIssuer", "SetMinter"}
        => call.accounts.adminConfig = registry
  BY <1>2, <1>3, ChecksMade DEF EventNames
<1>9. name \in {"ClosePhygitalToken", "Initialize", "AssignMint", "SetOwner", "RemoveOwner"}
        => call.accounts.phygitalToken = token
  BY <1>2, <1>3, ChecksMade DEF EventNames
<1>10. /\ \A data : Config(data) = C!FetchAdminConfig(data, registry)
       /\ \A data : Token(data) = C!FetchPhygitalToken(data, token)
  BY DEF Config, Token
<1>11. ASSUME NEW values, log = P!Encode(Emitted[name], values)
       PROVE  /\ event.name = name
              /\ event.values = [n \in P!Names(Emitted[name].fields) |-> values[n]]
  BY <1>2, <1>11, EventRead
<1> HIDE DEF call, registry, token, event, name, given
<1>12. CASE name = "CreateConfig"
  <2>1. /\ accounts = P!HandleCreateConfig(call, before).accounts
        /\ log = P!HandleCreateConfig(call, before).event
    BY <1>1, <1>2, <1>12 DEF P!Handle
  <2>2. Emitted[name] = P!CreateConfigEvent
    BY <1>12 DEF Emitted
  <2> DEFINE values == call.accounts
  <2>3. log = P!Encode(Emitted[name], values)
    BY <2>1, <2>2 DEF P!HandleCreateConfig, P!Outcome
  <2>4. event.name = name /\ DOMAIN event.values = {"authority"}
        /\ \A n \in {"authority"} : event.values[n] = values[n]
    <3> HIDE DEF values
    <3>1. event.name = name /\ event.values = [n \in {"authority"} |-> values[n]]
      BY <1>11, <2>2, <2>3, FieldNames
    <3> QED
      BY <3>1
  <2>5. values["authority"] = Meant("authority")
    BY <1>7, <1>12 DEF Actor
  <2> QED
    BY <1>12, <2>4, <2>5
<1>13. CASE name = "SetAdmin"
  <2>1. /\ accounts = P!HandleSetAdmin(call, before).accounts
        /\ log = P!HandleSetAdmin(call, before).event
    BY <1>1, <1>2, <1>13 DEF P!Handle
  <2>2. Emitted[name] = P!SetAdminEvent
    BY <1>13 DEF Emitted
  <2> DEFINE config == P!Config(call, before)
             values == [previousAdmin |-> config.admin, newAdmin |-> call.values.newAdmin]
             written == [config EXCEPT !.admin = call.values.newAdmin]
  <2>3. log = P!Encode(Emitted[name], values)
    BY <2>1, <2>2 DEF P!HandleSetAdmin, P!Outcome
  <2>4. event.name = name /\ DOMAIN event.values = {"previousAdmin", "newAdmin"}
        /\ \A n \in {"previousAdmin", "newAdmin"} : event.values[n] = values[n]
    BY <1>11, <2>2, <2>3, FieldNames
  <2>5. config = Config(before) /\ DOMAIN config = P!Names(P!AdminConfig.fields)
    BY <1>8, <1>10, <1>13, ReadAlikeThere
  <2>6. accounts = P!Put(before, registry, P!Encode(P!AdminConfig, written))
    BY <1>8, <1>13, <2>1 DEF P!HandleSetAdmin, P!Outcome, P!PutConfig
  <2> HIDE DEF config
  <2>7. Config(accounts).admin = call.values.newAdmin
    <3>1. Config(accounts) = [n \in P!Names(P!AdminConfig.fields) |-> written[n]]
      BY <1>10, <2>6, ReadBack
    <3> QED
      BY <2>5, <3>1, FieldNames
  <2>8. values["previousAdmin"] = Meant("previousAdmin") /\ values["newAdmin"] = Meant("newAdmin")
    BY <2>5, <2>7
  <2> QED
    BY <1>13, <2>4, <2>8
<1>14. CASE name = "SetIssuer"
  <2>1. /\ accounts = P!HandleSetIssuer(call, before).accounts
        /\ log = P!HandleSetIssuer(call, before).event
    BY <1>1, <1>2, <1>14 DEF P!Handle
  <2>2. Emitted[name] = P!SetIssuerEvent
    BY <1>14 DEF Emitted
  <2> DEFINE config == P!Config(call, before)
             values == [admin |-> call.accounts.admin, issuer |-> call.values.issuer]
             written == [config EXCEPT !.issuer = call.values.issuer]
  <2>3. log = P!Encode(Emitted[name], values)
    BY <2>1, <2>2 DEF P!HandleSetIssuer, P!Outcome
  <2>4. event.name = name /\ DOMAIN event.values = {"admin", "issuer"}
        /\ \A n \in {"admin", "issuer"} : event.values[n] = values[n]
    BY <1>11, <2>2, <2>3, FieldNames
  <2>5. DOMAIN config = P!Names(P!AdminConfig.fields)
    BY ReadAlikeThere
  <2>6. accounts = P!Put(before, registry, P!Encode(P!AdminConfig, written))
    BY <1>8, <1>14, <2>1 DEF P!HandleSetIssuer, P!Outcome, P!PutConfig
  <2> HIDE DEF config
  <2>7. Config(accounts).issuer = call.values.issuer
    <3>1. Config(accounts) = [n \in P!Names(P!AdminConfig.fields) |-> written[n]]
      BY <1>10, <2>6, ReadBack
    <3> QED
      BY <2>5, <3>1, FieldNames
  <2>8. values["admin"] = Meant("admin") /\ values["issuer"] = Meant("issuer")
    BY <1>7, <1>14, <2>7 DEF Actor
  <2> QED
    BY <1>14, <2>4, <2>8
<1>15. CASE name = "SetMinter"
  <2>1. /\ accounts = P!HandleSetMinter(call, before).accounts
        /\ log = P!HandleSetMinter(call, before).event
    BY <1>1, <1>2, <1>15 DEF P!Handle
  <2>2. Emitted[name] = P!SetMinterEvent
    BY <1>15 DEF Emitted
  <2> DEFINE config == P!Config(call, before)
             values == [admin |-> call.accounts.admin, minter |-> call.values.minter]
             written == [config EXCEPT !.minter = call.values.minter]
  <2>3. log = P!Encode(Emitted[name], values)
    BY <2>1, <2>2 DEF P!HandleSetMinter, P!Outcome
  <2>4. event.name = name /\ DOMAIN event.values = {"admin", "minter"}
        /\ \A n \in {"admin", "minter"} : event.values[n] = values[n]
    BY <1>11, <2>2, <2>3, FieldNames
  <2>5. DOMAIN config = P!Names(P!AdminConfig.fields)
    BY ReadAlikeThere
  <2>6. accounts = P!Put(before, registry, P!Encode(P!AdminConfig, written))
    BY <1>8, <1>15, <2>1 DEF P!HandleSetMinter, P!Outcome, P!PutConfig
  <2> HIDE DEF config
  <2>7. Config(accounts).minter = call.values.minter
    <3>1. Config(accounts) = [n \in P!Names(P!AdminConfig.fields) |-> written[n]]
      BY <1>10, <2>6, ReadBack
    <3> QED
      BY <2>5, <3>1, FieldNames
  <2>8. values["admin"] = Meant("admin") /\ values["minter"] = Meant("minter")
    BY <1>7, <1>15, <2>7 DEF Actor
  <2> QED
    BY <1>15, <2>4, <2>8
<1>16. CASE name = "ClosePhygitalToken"
  <2>1. /\ accounts = P!HandleClosePhygitalToken(call, before).accounts
        /\ log = P!HandleClosePhygitalToken(call, before).event
    BY <1>1, <1>2, <1>16 DEF P!Handle
  <2>2. Emitted[name] = P!ClosePhygitalTokenEvent
    BY <1>16 DEF Emitted
  <2> DEFINE old == P!Token(call, before)
             values == [admin |-> call.accounts.admin,
                        rentRecipient |-> call.accounts.rentRecipient,
                        publicKey |-> old.publicKey, identifier |-> old.identifier,
                        owner |-> old.owner, mint |-> old.mint]
             fields == {"admin", "rentRecipient", "publicKey", "identifier", "owner", "mint"}
  <2>3. log = P!Encode(Emitted[name], values)
    BY <2>1, <2>2 DEF P!HandleClosePhygitalToken, P!Outcome
  <2>4. event.name = name /\ DOMAIN event.values = fields
        /\ \A n \in fields : event.values[n] = values[n]
    BY <1>11, <2>2, <2>3, FieldNames
  <2>5. old = Token(before)
    BY <1>9, <1>10, <1>16, ReadAlikeThere
  <2> HIDE DEF old
  <2>6. values["admin"] = Meant("admin") /\ values["rentRecipient"] = Meant("rentRecipient")
    BY <1>7, <1>16 DEF Actor
  <2>7. \A n \in {"publicKey", "identifier", "owner", "mint"} : values[n] = Meant(n)
    BY <1>16, <2>5
  <2>8. \A n \in fields : values[n] = Meant(n)
    BY <2>6, <2>7
  <2> QED
    BY <1>16, <2>4, <2>8
<1>17. CASE name = "Initialize"
  <2>1. /\ accounts = P!HandleInitialize(call, before).accounts
        /\ log = P!HandleInitialize(call, before).event
    BY <1>1, <1>2, <1>17 DEF P!Handle
  <2>2. Emitted[name] = P!InitializeEvent
    BY <1>17 DEF Emitted
  <2> DEFINE v == call.values
             values == [authority |-> call.accounts.authority, publicKey |-> v.secp256r1Pubkey,
                        identifier |-> v.identifier, owner |-> v.owner,
                        tokenType |-> v.tokenType]
             written == [owner |-> v.owner, mint |-> P!SystemProgram,
                         lastSignCount |-> <<"count", 0>>, tokenType |-> v.tokenType,
                         bump |-> <<"bump">>, publicKey |-> v.secp256r1Pubkey,
                         identifier |-> v.identifier]
             fields == {"authority", "publicKey", "identifier", "owner", "tokenType"}
  <2>3. log = P!Encode(Emitted[name], values)
    BY <2>1, <2>2 DEF P!HandleInitialize, P!Outcome
  <2>4. event.name = name /\ DOMAIN event.values = fields
        /\ \A n \in fields : event.values[n] = values[n]
    BY <1>11, <2>2, <2>3, FieldNames
  <2>5. accounts = P!Put(before, token, P!Encode(P!PhygitalToken, written))
    BY <1>9, <1>17, <2>1 DEF P!HandleInitialize, P!Outcome, P!PutToken
  <2>6. Token(accounts) = [n \in P!Names(P!PhygitalToken.fields) |-> written[n]]
    BY <1>10, <2>5, ReadBack
  <2>7. \A n \in {"publicKey", "identifier", "owner", "tokenType"} :
            values[n] = Token(accounts)[n]
    <3> HIDE DEF v
    <3> QED
      BY <2>6, FieldNames
  <2> HIDE DEF v
  <2>8. values["authority"] = Meant("authority")
    BY <1>7, <1>17 DEF Actor
  <2>9. \A n \in {"publicKey", "identifier", "owner", "tokenType"} : values[n] = Meant(n)
    <3> HIDE DEF values
    <3> QED
      BY <1>17, <2>7
  <2>10. \A n \in fields : values[n] = Meant(n)
    BY <2>8, <2>9
  <2> QED
    BY <1>17, <2>4, <2>10
<1>18. CASE name = "AssignMint"
  <2>1. /\ accounts = P!HandleAssignMint(call, before).accounts
        /\ log = P!HandleAssignMint(call, before).event
    BY <1>1, <1>2, <1>18 DEF P!Handle
  <2>2. Emitted[name] = P!AssignMintEvent
    BY <1>18 DEF Emitted
  <2> DEFINE old == P!Token(call, before)
             written == [old EXCEPT !.mint = call.values.mint]
             values == [publicKey |-> written.publicKey, authority |-> call.accounts.authority,
                        identifier |-> written.identifier, mint |-> written.mint]
             fields == {"publicKey", "authority", "identifier", "mint"}
  <2>3. log = P!Encode(Emitted[name], values)
    BY <2>1, <2>2 DEF P!HandleAssignMint, P!Outcome
  <2>4. event.name = name /\ DOMAIN event.values = fields
        /\ \A n \in fields : event.values[n] = values[n]
    BY <1>11, <2>2, <2>3, FieldNames
  <2>5. accounts = P!Put(before, token, P!Encode(P!PhygitalToken, written))
    BY <1>9, <1>18, <2>1 DEF P!HandleAssignMint, P!Outcome, P!PutToken
  <2> HIDE DEF written
  <2>6. Token(accounts) = [n \in P!Names(P!PhygitalToken.fields) |-> written[n]]
    BY <1>10, <2>5, ReadBack
  <2>7. \A n \in {"publicKey", "identifier", "mint"} : values[n] = Token(accounts)[n]
    BY <2>6, FieldNames
  <2>8. values["authority"] = Meant("authority")
    BY <1>7, <1>18 DEF Actor
  <2>9. \A n \in {"publicKey", "identifier", "mint"} : values[n] = Meant(n)
    <3> HIDE DEF values
    <3> QED
      BY <1>18, <2>7
  <2>10. \A n \in fields : values[n] = Meant(n)
    BY <2>8, <2>9
  <2> QED
    BY <1>18, <2>4, <2>10
<1>19. CASE name = "SetOwner"
  <2>1. /\ accounts = P!HandleSetOwner(call, before).accounts
        /\ log = P!HandleSetOwner(call, before).event
    BY <1>1, <1>2, <1>19 DEF P!Handle
  <2>2. Emitted[name] = P!SetOwnerEvent
    BY <1>19 DEF Emitted
  <2> DEFINE old == P!Token(call, before)
             accepted == P!Accepted(old)
             values == [recipient |-> call.accounts.recipient, owner |-> accepted.owner,
                        publicKey |-> accepted.publicKey, identifier |-> accepted.identifier]
             fields == {"recipient", "owner", "publicKey", "identifier"}
  <2>3. log = P!Encode(Emitted[name], values)
    BY <2>1, <2>2 DEF P!HandleSetOwner, P!Outcome
  <2>4. event.name = name /\ DOMAIN event.values = fields
        /\ \A n \in fields : event.values[n] = values[n]
    BY <1>11, <2>2, <2>3, FieldNames
  <2>5. old = Token(before)
    BY <1>9, <1>10, <1>19, ReadAlikeThere
  <2> HIDE DEF old
  <2>6. /\ accepted.owner = old.owner /\ accepted.publicKey = old.publicKey
        /\ accepted.identifier = old.identifier
    BY DEF P!Accepted
  <2> HIDE DEF accepted
  <2>7. values["recipient"] = Meant("recipient")
    BY <1>7, <1>19 DEF Actor
  <2>8. \A n \in {"owner", "publicKey", "identifier"} : values[n] = Meant(n)
    BY <1>19, <2>5, <2>6
  <2>9. \A n \in fields : values[n] = Meant(n)
    BY <2>7, <2>8
  <2> QED
    BY <1>19, <2>4, <2>9
<1>20. CASE name = "RemoveOwner"
  <2>1. /\ accounts = P!HandleRemoveOwner(call, before).accounts
        /\ log = P!HandleRemoveOwner(call, before).event
    BY <1>1, <1>2, <1>20 DEF P!Handle
  <2>2. Emitted[name] = P!RemoveOwnerEvent
    BY <1>20 DEF Emitted
  <2> DEFINE old == P!Token(call, before)
             values == [owner |-> call.accounts.owner,
                        publicKey |-> old.publicKey, identifier |-> old.identifier]
             fields == {"owner", "publicKey", "identifier"}
  <2>3. log = P!Encode(Emitted[name], values)
    BY <2>1, <2>2 DEF P!HandleRemoveOwner, P!Outcome
  <2>4. event.name = name /\ DOMAIN event.values = fields
        /\ \A n \in fields : event.values[n] = values[n]
    BY <1>11, <2>2, <2>3, FieldNames
  <2>5. old = Token(before)
    BY <1>9, <1>10, <1>20, ReadAlikeThere
  <2> HIDE DEF old
  <2>6. values["owner"] = Meant("owner")
    BY <1>7, <1>20 DEF Actor
  <2>7. \A n \in {"publicKey", "identifier"} : values[n] = Meant(n)
    BY <1>20, <2>5
  <2>8. \A n \in fields : values[n] = Meant(n)
    BY <2>6, <2>7
  <2> QED
    BY <1>20, <2>4, <2>8
<1> QED
  BY <1>2, <1>12, <1>13, <1>14, <1>15, <1>16, <1>17, <1>18, <1>19, <1>20
     DEF EventNames, InstructionNames

(***************************************************************************)
(* The event of a transaction that landed says who acted and what changed. *)
(***************************************************************************)
THEOREM AlwaysEventTellsChange == Spec => []EventTellsChange
BY InvCorrect, EventsTell, PTL

----------------------------------------------------------------------------
(* Accounts by their bytes.                                                *)

(***************************************************************************)
(* The order of the numbers, as the set of pairs the library speaks of.    *)
(***************************************************************************)
LEMMA LessThan == OpToRel(<, Nat) = {ss \in Nat \X Nat : ss[1] < ss[2]}
BY Zenon DEF OpToRel

(***************************************************************************)
(* Of some natural numbers one is the least.                               *)
(***************************************************************************)
LEMMA LeastNatural ==
    ASSUME NEW T, T \subseteq Nat, T # {}
    PROVE  \E m \in T : \A k \in T : m <= k
<1> DEFINE R == {ss \in Nat \X Nat : ss[1] < ss[2]}
<1>1. IsWellFoundedOn(R, Nat)
  BY NatLessThanWellFounded, LessThan, Zenon
<1>2. \E x \in T : \A y \in T : ~ (<<y, x>> \in R)
  BY <1>1, WFMin
<1>3. \A x, y \in Nat : y < x => <<y, x>> \in R
  BY DEF R
<1> HIDE DEF R
<1>4. PICK x \in T : \A y \in T : ~ (<<y, x>> \in R)
  BY <1>2
<1>5. \A y \in T : ~ (y < x)
  BY <1>3, <1>4
<1> QED
  BY <1>4, <1>5

(***************************************************************************)
(* A set with 0 and, with every number, the next one has all of them.      *)
(***************************************************************************)
LEMMA SetInduction ==
    ASSUME NEW T, 0 \in T, \A n \in Nat : n \in T => n + 1 \in T
    PROVE  Nat \subseteq T
<1> SUFFICES ASSUME Nat \ T # {} PROVE FALSE
  OBVIOUS
<1>1. PICK m \in Nat \ T : \A k \in Nat \ T : m <= k
  BY LeastNatural
<1>2. m # 0 /\ m - 1 \in Nat
  BY <1>1
<1>3. m - 1 \in T
  BY <1>1, <1>2
<1>4. (m - 1) + 1 \in T
  BY <1>2, <1>3
<1> QED
  BY <1>1, <1>2, <1>4

(***************************************************************************)
(* Running sums exist: each is the one before and a weight.                *)
(***************************************************************************)
LEMMA RunningSums ==
    ASSUME NEW N \in Nat, NEW weight, \A n \in 1 .. N : weight[n] \in Int, NEW start \in Int
    PROVE  \E f : f = [n \in 0 .. N |-> IF n = 0 THEN start ELSE f[n - 1] + weight[n]]
<1> DEFINE Sums(k, f) == /\ f \in [0 .. k -> Int] /\ f[0] = start
                         /\ \A n \in 1 .. k : f[n] = f[n - 1] + weight[n]
           T == {k \in Nat : k <= N => \E f : Sums(k, f)}
<1>1. 0 \in T
  <2>1. Sums(0, [n \in 0 .. 0 |-> start])
    OBVIOUS
  <2> HIDE DEF Sums
  <2> QED
    BY <2>1
<1>2. ASSUME NEW k \in Nat, k \in T
      PROVE  k + 1 \in T
  <2>1. CASE k + 1 <= N
    <3>0. \E f : Sums(k, f)
      <4> HIDE DEF Sums
      <4> QED
        BY <1>2, <2>1
    <3>1. PICK f : Sums(k, f)
      BY <3>0
    <3> DEFINE g == [n \in 0 .. k + 1 |-> IF n <= k THEN f[n] ELSE f[k] + weight[k + 1]]
    <3>2. weight[k + 1] \in Int /\ f[k] \in Int
      BY <2>1, <3>1
    <3>3. g \in [0 .. k + 1 -> Int]
      BY <3>1, <3>2
    <3>4. g[0] = start
      BY <3>1
    <3>5. ASSUME NEW n \in 1 .. k + 1
          PROVE  g[n] = g[n - 1] + weight[n]
      BY <3>1
    <3>6. Sums(k + 1, g)
      BY <3>3, <3>4, <3>5
    <3> HIDE DEF Sums, g
    <3> QED
      BY <3>6
  <2>2. CASE ~(k + 1 <= N)
    BY <2>2
  <2> QED
    BY <2>1, <2>2
<1>3. \A n \in Nat : n \in T => n + 1 \in T
  BY <1>2
<1> HIDE DEF T
<1>4. N \in T
  BY <1>1, <1>3, SetInduction
<1>5. PICK f : Sums(N, f)
  BY <1>4 DEF T
<1>6. f = [n \in 0 .. N |-> IF n = 0 THEN start ELSE f[n - 1] + weight[n]]
  BY <1>5
<1> QED
  BY <1>5, <1>6

(***************************************************************************)
(* They are numbers.                                                       *)
(***************************************************************************)
LEMMA SumsRun ==
    ASSUME NEW N \in Nat, NEW weight, \A n \in 1 .. N : weight[n] \in Int,
           NEW sums, sums[0] \in Int, \A n \in 1 .. N : sums[n] = sums[n - 1] + weight[n]
    PROVE  \A n \in 0 .. N : sums[n] \in Int
<1> DEFINE T == {k \in Nat : k <= N => sums[k] \in Int}
<1>1. 0 \in T
  OBVIOUS
<1>2. \A k \in Nat : k \in T => k + 1 \in T
  <2> SUFFICES ASSUME NEW k \in Nat, k <= N => sums[k] \in Int, k + 1 <= N
               PROVE  sums[k + 1] \in Int
    OBVIOUS
  <2>1. k + 1 \in 1 .. N /\ (k + 1) - 1 = k
    OBVIOUS
  <2>2. sums[k + 1] = sums[k] + weight[k + 1]
    BY <2>1
  <2> QED
    BY <2>1, <2>2
<1> HIDE DEF T
<1>3. Nat \subseteq T
  BY <1>1, <1>2, SetInduction
<1> QED
  BY <1>3 DEF T

(***************************************************************************)
(* They never decrease.                                                    *)
(***************************************************************************)
LEMMA SumsGrow ==
    ASSUME NEW N \in Nat, NEW weight, \A n \in 1 .. N : weight[n] \in Nat,
           NEW sums, \A n \in 0 .. N : sums[n] \in Int,
           \A n \in 1 .. N : sums[n] = sums[n - 1] + weight[n]
    PROVE  \A i, j \in 0 .. N : i <= j => sums[i] <= sums[j]
<1> DEFINE T == {j \in Nat : j <= N => \A i \in 0 .. j : sums[i] <= sums[j]}
<1>1. 0 \in T
  OBVIOUS
<1>2. \A j \in Nat : j \in T => j + 1 \in T
  <2> SUFFICES ASSUME NEW j \in Nat, j <= N => \A i \in 0 .. j : sums[i] <= sums[j],
                      j + 1 <= N, NEW i \in 0 .. j + 1
               PROVE  sums[i] <= sums[j + 1]
    OBVIOUS
  <2>1. j + 1 \in 1 .. N /\ (j + 1) - 1 = j /\ i \in 0 .. N
    OBVIOUS
  <2>2. sums[j + 1] = sums[j] + weight[j + 1] /\ weight[j + 1] \in Nat
    BY <2>1
  <2>3. sums[i] \in Int /\ sums[j] \in Int
    BY <2>1
  <2>4. i = j + 1 \/ i \in 0 .. j
    OBVIOUS
  <2> QED
    BY <2>1, <2>2, <2>3, <2>4
<1> HIDE DEF T
<1>3. Nat \subseteq T
  BY <1>1, <1>2, SetInduction
<1> QED
  BY <1>3 DEF T

(***************************************************************************)
(* The bytes of cells are the sum of their widths, however far one counts. *)
(***************************************************************************)
LEMMA BytesCounted ==
    ASSUME NEW S, NEW cells \in Seq(S), \A n \in 1 .. Len(cells) : cells[n][1] \in Int,
           NEW sums, sums[0] = 0,
           \A n \in 1 .. Len(cells) : sums[n - 1] \in Int /\ sums[n] = sums[n - 1] + cells[n][1]
    PROVE  C!Bytes(cells) = sums[Len(cells)]
<1> DEFINE N == Len(cells)
           weight == [n \in 1 .. N |-> cells[n][1]]
           upTo == CHOOSE f : f = [n \in 0 .. N |-> IF n = 0 THEN 0 ELSE f[n - 1] + weight[n]]
<1>1. N \in Nat
  OBVIOUS
<1>2. \A n \in 1 .. N : weight[n] \in Int /\ weight[n] = cells[n][1]
  OBVIOUS
<1>3. C!Bytes(cells) = upTo[N]
  <2>1. \A f : [n \in 0 .. N |-> IF n = 0 THEN 0 ELSE f[n - 1] + weight[n]]
                = [n \in 0 .. N |-> IF n = 0 THEN 0 ELSE f[n - 1] + cells[n][1]]
    <3>1. \A n \in 0 .. N : n # 0 => n \in 1 .. N
      BY <1>1
    <3> HIDE DEF N, weight
    <3> QED
      BY <1>2, <3>1
  <2>2. upTo = CHOOSE f : f = [n \in 0 .. N |-> IF n = 0 THEN 0 ELSE f[n - 1] + cells[n][1]]
    <3> HIDE DEF N, weight
    <3> QED
      BY <2>1 DEF upTo
  <2> QED
    BY <2>2 DEF C!Bytes
<1> HIDE DEF weight
<1>4. /\ upTo[0] = 0
      /\ \A n \in 1 .. N : upTo[n] = upTo[n - 1] + weight[n]
  <2> DEFINE Runs(f) == f = [n \in 0 .. N |-> IF n = 0 THEN 0 ELSE f[n - 1] + weight[n]]
  <2>1. 0 \in Int /\ \A n \in 1 .. N : weight[n] \in Int
    BY <1>2
  <2> HIDE DEF N
  <2>2. \E f : Runs(f)
    BY <1>1, <2>1, RunningSums, Zenon
  <2>3. upTo = CHOOSE f : Runs(f)
    OBVIOUS
  <2>4. Runs(upTo)
    <3> HIDE DEF Runs, upTo
    <3> QED
      BY <2>2, <2>3, Zenon
  <2>5. upTo = [n \in 0 .. N |-> IF n = 0 THEN 0 ELSE upTo[n - 1] + weight[n]]
    BY <2>4
  <2> HIDE DEF upTo, Runs
  <2>6. \A n \in 0 .. N : upTo[n] = IF n = 0 THEN 0 ELSE upTo[n - 1] + weight[n]
    BY <2>5
  <2> QED
    BY <1>1, <2>6
<1> HIDE DEF upTo, N
<1> DEFINE T == {n \in Nat : n <= N => upTo[n] = sums[n]}
<1>5. 0 \in T
  BY <1>4
<1>6. \A n \in Nat : n \in T => n + 1 \in T
  <2> SUFFICES ASSUME NEW n \in Nat, n + 1 <= N, upTo[n] = sums[n]
               PROVE  upTo[n + 1] = sums[n + 1]
    BY <1>1
  <2>1. n + 1 \in 1 .. N /\ (n + 1) - 1 = n
    BY <1>1
  <2>2. upTo[n + 1] = upTo[n] + weight[n + 1] /\ weight[n + 1] = cells[n + 1][1]
    BY <1>2, <1>4, <2>1
  <2>3. sums[n + 1] = sums[n] + cells[n + 1][1]
    BY <2>1 DEF N
  <2> QED
    BY <2>2, <2>3
<1> HIDE DEF T
<1>7. N \in T
  BY <1>1, <1>5, <1>6, SetInduction
<1> QED
  BY <1>1, <1>3, <1>7 DEF T, N

(***************************************************************************)
(* So it is for the cells that come first.                                 *)
(***************************************************************************)
LEMMA FirstCounted ==
    ASSUME NEW S, NEW cells \in Seq(S), \A n \in 1 .. Len(cells) : cells[n][1] \in Int,
           NEW sums, sums[0] = 0,
           \A n \in 1 .. Len(cells) : sums[n - 1] \in Int /\ sums[n] = sums[n - 1] + cells[n][1],
           NEW k \in 0 .. Len(cells)
    PROVE  C!Bytes(SubSeq(cells, 1, k)) = sums[k]
<1> DEFINE first == SubSeq(cells, 1, k)
<1>1. /\ first \in Seq(S) /\ Len(first) = k
      /\ \A n \in 1 .. k : first[n] = cells[n]
  <2>1. k \in Int /\ Len(cells) \in Nat /\ k <= Len(cells)
    OBVIOUS
  <2>2. \A i \in 1 .. k : cells[i] \in S
    BY <2>1
  <2>3. first \in Seq(S) /\ Len(first) = IF 1 <= k THEN k - 1 + 1 ELSE 0
    BY <2>1, <2>2, SubSeqProperties
  <2>4. \A n \in 1 .. k - 1 + 1 : first[n] = cells[1 + n - 1]
    BY <2>1, <2>2, SubSeqProperties
  <2> QED
    BY <2>1, <2>3, <2>4
<1> HIDE DEF first
<1>2. \A n \in 1 .. k : n \in 1 .. Len(cells)
  OBVIOUS
<1>4. C!Bytes(first) = sums[Len(first)]
  BY <1>1, <1>2, BytesCounted
<1> QED
  BY <1>1, <1>4 DEF first

(***************************************************************************)
(* How many bytes the account of a token takes, and where its owner, mint  *)
(* and identifier stand.                                                   *)
(***************************************************************************)
LEMMA TokenBytes ==
    ASSUME NEW d
    PROVE  LET data == P!Encode(P!PhygitalToken, d)
           IN /\ data.disc = 123 /\ C!Size(data.cells) = C!GetPhygitalTokenSize
              /\ \A v : /\ C!Memcmp(data, C!OwnerOffset, v) <=> d["owner"] = v
                        /\ C!Memcmp(data, C!MintOffset, v) <=> d["mint"] = v
                        /\ C!Memcmp(data, C!IdentifierOffset, v) <=> d["identifier"] = v
<1> DEFINE data == P!Encode(P!PhygitalToken, d)
           cells == data.cells
           fields == P!PhygitalToken.fields
<1>1. fields = <<P!Field("owner", 32), P!Field("mint", 32), P!Field("lastSignCount", 4),
                 P!Field("tokenType", 1), P!Field("bump", 1), P!Field("publicKey", 33),
                 P!Field("identifier", 33)>>
  BY DEF P!PhygitalToken, P!Layout
<1>2. data.disc = 123 /\ cells = [i \in DOMAIN fields |-> <<fields[i].width, d[fields[i].name]>>]
  BY DEF P!Encode, P!PhygitalToken, P!Layout
<1> HIDE DEF fields, data
<1>3. cells = <<<<32, d["owner"]>>, <<32, d["mint"]>>, <<4, d["lastSignCount"]>>,
                <<1, d["tokenType"]>>, <<1, d["bump"]>>, <<33, d["publicKey"]>>,
                <<33, d["identifier"]>>>>
  BY <1>1, <1>2 DEF P!Field
<1> HIDE DEF cells
<1> DEFINE S == {cells[1], cells[2], cells[3], cells[4], cells[5], cells[6], cells[7]}
           sums == [n \in 0 .. 7 |->
                        CASE n = 0 -> 0 [] n = 1 -> 32 [] n = 2 -> 64 [] n = 3 -> 68
                          [] n = 4 -> 69 [] n = 5 -> 70 [] n = 6 -> 103 [] n = 7 -> 136]
<1>4. cells \in Seq(S) /\ Len(cells) = 7 /\ DOMAIN cells = 1 .. 7
  BY <1>3
<1>5. /\ cells[1][1] = 32 /\ cells[2][1] = 32 /\ cells[3][1] = 4 /\ cells[4][1] = 1
      /\ cells[5][1] = 1 /\ cells[6][1] = 33 /\ cells[7][1] = 33
      /\ cells[1][2] = d["owner"] /\ cells[2][2] = d["mint"]
      /\ cells[7][2] = d["identifier"]
  BY <1>3
<1>6. /\ sums[0] = 0 /\ sums[1] = 32 /\ sums[2] = 64 /\ sums[3] = 68 /\ sums[4] = 69
      /\ sums[5] = 70 /\ sums[6] = 103 /\ sums[7] = 136
  OBVIOUS
<1> HIDE DEF S, sums
<1>7. \A n \in 1 .. 7 : n \in {1, 2, 3, 4, 5, 6, 7}
  OBVIOUS
<1>8. \A n \in 1 .. 7 : /\ cells[n][1] \in Int /\ sums[n - 1] \in Int
                        /\ sums[n] = sums[n - 1] + cells[n][1]
  BY <1>5, <1>6, <1>7
<1>9. ASSUME NEW k \in 0 .. 7 PROVE C!Bytes(SubSeq(cells, 1, k)) = sums[k]
  <2>1. /\ cells \in Seq(S) /\ Len(cells) <= 7 /\ sums[0] = 0 /\ k \in 0 .. Len(cells)
        /\ \A n \in 1 .. Len(cells) : cells[n][1] \in Int
        /\ \A n \in 1 .. Len(cells) : /\ sums[n - 1] \in Int
                                      /\ sums[n] = sums[n - 1] + cells[n][1]
    BY <1>4, <1>6, <1>8
  <2> QED
    BY <2>1, FirstCounted, Zenon
<1>10. C!Bytes(cells) = 136
  <2>1. /\ cells \in Seq(S) /\ Len(cells) <= 7 /\ sums[0] = 0
        /\ \A n \in 1 .. Len(cells) : cells[n][1] \in Int
        /\ \A n \in 1 .. Len(cells) : /\ sums[n - 1] \in Int
                                      /\ sums[n] = sums[n - 1] + cells[n][1]
    BY <1>4, <1>6, <1>8
  <2>2. C!Bytes(cells) = sums[Len(cells)]
    BY <2>1, BytesCounted, Zenon
  <2> QED
    BY <1>4, <1>6, <2>2
<1>11. C!Size(cells) = C!GetPhygitalTokenSize
  BY <1>10 DEF C!Size, C!GetPhygitalTokenSize
<1>12. \A k \in 1 .. 7 : C!Size(SubSeq(cells, 1, k - 1)) = 8 + sums[k - 1]
  BY <1>9 DEF C!Size
<1>13. ASSUME NEW v, NEW k \in 1 .. 7, NEW offset, offset = 8 + sums[k - 1]
       PROVE  C!Memcmp(data, offset, v) <=> cells[k][2] = v
  <2>1. \A i \in 1 .. 7 : 8 + sums[i - 1] = offset => i = k
    BY <1>6, <1>7, <1>13
  <2>2. C!Memcmp(data, offset, v) <=>
            \E i \in 1 .. 7 : 8 + sums[i - 1] = offset /\ cells[i][2] = v
    BY <1>4, <1>12 DEF C!Memcmp, cells
  <2> QED
    BY <1>13, <2>1, <2>2
<1>14. C!OwnerOffset = 8 + sums[0] /\ C!MintOffset = 8 + sums[1] /\ C!IdentifierOffset = 8 + sums[6]
  BY <1>6 DEF C!OwnerOffset, C!MintOffset, C!IdentifierOffset
<1>15. ASSUME NEW v
       PROVE  /\ C!Memcmp(data, C!OwnerOffset, v) <=> d["owner"] = v
              /\ C!Memcmp(data, C!MintOffset, v) <=> d["mint"] = v
              /\ C!Memcmp(data, C!IdentifierOffset, v) <=> d["identifier"] = v
  <2>1. /\ 1 \in 1 .. 7 /\ 2 \in 1 .. 7 /\ 7 \in 1 .. 7
        /\ 1 - 1 = 0 /\ 2 - 1 = 1 /\ 7 - 1 = 6
    OBVIOUS
  <2>2. C!Memcmp(data, C!OwnerOffset, v) <=> cells[1][2] = v
    BY <1>13, <1>14, <2>1
  <2>3. C!Memcmp(data, C!MintOffset, v) <=> cells[2][2] = v
    BY <1>13, <1>14, <2>1
  <2>4. C!Memcmp(data, C!IdentifierOffset, v) <=> cells[7][2] = v
    BY <1>13, <1>14, <2>1
  <2> QED
    BY <1>5, <2>2, <2>3, <2>4
<1> QED
  BY <1>2, <1>11, <1>15 DEF cells, data

(***************************************************************************)
(* No registry takes as many bytes as a token.                             *)
(***************************************************************************)
LEMMA RegistryBytes ==
    ASSUME NEW d
    PROVE  LET data == P!Encode(P!AdminConfig, d)
           IN data.disc = 156 /\ C!Size(data.cells) # C!GetPhygitalTokenSize
<1> DEFINE data == P!Encode(P!AdminConfig, d)
           cells == data.cells
           fields == P!AdminConfig.fields
<1>1. fields = <<P!Field("bump", 1), P!Field("admin", 32), P!Field("issuer", 32),
                 P!Field("minter", 32)>>
  BY DEF P!AdminConfig, P!Layout
<1>2. data.disc = 156 /\ cells = [i \in DOMAIN fields |-> <<fields[i].width, d[fields[i].name]>>]
  BY DEF P!Encode, P!AdminConfig, P!Layout
<1> HIDE DEF fields, data
<1>3. cells = <<<<1, d["bump"]>>, <<32, d["admin"]>>, <<32, d["issuer"]>>, <<32, d["minter"]>>>>
  BY <1>1, <1>2 DEF P!Field
<1> HIDE DEF cells
<1> DEFINE S == {cells[1], cells[2], cells[3], cells[4]}
           sums == [n \in 0 .. 4 |-> CASE n = 0 -> 0 [] n = 1 -> 1 [] n = 2 -> 33
                                       [] n = 3 -> 65 [] n = 4 -> 97]
<1>4. cells \in Seq(S) /\ Len(cells) = 4
  BY <1>3
<1>5. cells[1][1] = 1 /\ cells[2][1] = 32 /\ cells[3][1] = 32 /\ cells[4][1] = 32
  BY <1>3
<1>6. sums[0] = 0 /\ sums[1] = 1 /\ sums[2] = 33 /\ sums[3] = 65 /\ sums[4] = 97
  OBVIOUS
<1> HIDE DEF S, sums
<1>7. \A n \in 1 .. 4 : n \in {1, 2, 3, 4}
  OBVIOUS
<1>8. \A n \in 1 .. 4 : /\ cells[n][1] \in Int /\ sums[n - 1] \in Int
                        /\ sums[n] = sums[n - 1] + cells[n][1]
  BY <1>5, <1>6, <1>7
<1>9. C!Bytes(cells) = 97
  <2>1. /\ cells \in Seq(S) /\ Len(cells) <= 7 /\ sums[0] = 0
        /\ \A n \in 1 .. Len(cells) : cells[n][1] \in Int
        /\ \A n \in 1 .. Len(cells) : /\ sums[n - 1] \in Int
                                      /\ sums[n] = sums[n - 1] + cells[n][1]
    BY <1>4, <1>6, <1>8
  <2>2. C!Bytes(cells) = sums[Len(cells)]
    BY <2>1, BytesCounted, Zenon
  <2> QED
    BY <1>4, <1>6, <2>2
<1>10. C!Size(cells) # C!GetPhygitalTokenSize
  BY <1>9 DEF C!Size, C!GetPhygitalTokenSize
<1> QED
  BY <1>2, <1>10 DEF cells, data

\* The tokens of the main deployment among some accounts, as the program reads
\* them.
ReadAt(data, a) == P!Decode(P!PhygitalToken.fields, data[a])
TokensIn(data) ==
    {ReadAt(data, a) : a \in {b \in DOMAIN data : b[2] = Main /\ data[b].disc = 123}}

(***************************************************************************)
(* A query by the bytes at the offset of a field finds the tokens with     *)
(* that value there, of all accounts in place.                             *)
(***************************************************************************)
LEMMA ScanFinds ==
    ASSUME NEW data, InPlace(data), NEW field, NEW offset, NEW value,
           \A d : C!Memcmp(P!Encode(P!PhygitalToken, d), offset, value) <=> d[field] = value
    PROVE  C!ScanAt(data, offset, value) = {t \in TokensIn(data) : t[field] = value}
<1> DEFINE read(a) == ReadAt(data, a)
<1>1. ASSUME NEW b \in DOMAIN data, data[b].disc = 123
      PROVE  /\ data[b] = P!Encode(P!PhygitalToken, read(b))
             /\ C!Size(data[b].cells) = C!GetPhygitalTokenSize
  <2>1. P!PhygitalToken.disc = 123
    BY DEF P!PhygitalToken, P!Layout
  <2>2. WellFormed(data[b], P!PhygitalToken)
    BY <1>1, <2>1, InPlaceHolds
  <2>3. data[b] = P!Encode(P!PhygitalToken, read(b))
    BY <2>2 DEF WellFormed, ReadAt
  <2>4. C!Size(P!Encode(P!PhygitalToken, read(b)).cells) = C!GetPhygitalTokenSize
    BY TokenBytes
  <2> QED
    BY <2>3, <2>4
<1>2. ASSUME NEW b \in DOMAIN data, C!Size(data[b].cells) = C!GetPhygitalTokenSize
      PROVE  data[b].disc = 123
  <2>1. WellFormed(data[b], P!AdminConfig) \/ WellFormed(data[b], P!PhygitalToken)
    BY DEF InPlace
  <2>2. ~WellFormed(data[b], P!AdminConfig)
    <3> SUFFICES ASSUME WellFormed(data[b], P!AdminConfig) PROVE FALSE
      OBVIOUS
    <3>1. data[b] = P!Encode(P!AdminConfig, P!Decode(P!AdminConfig.fields, data[b]))
      BY DEF WellFormed
    <3>2. PICK d : data[b] = P!Encode(P!AdminConfig, d)
      BY <3>1
    <3> QED
      BY <1>2, <3>2, RegistryBytes
  <2> QED
    BY <2>1, <2>2 DEF WellFormed, P!Encode, P!PhygitalToken, P!Layout
<1>3. \A a : C!FetchPhygitalToken(data, a) = read(a)
  <2>1. C!PhygitalToken.fields = P!PhygitalToken.fields
    BY DEF C!PhygitalToken, P!PhygitalToken, C!Layout, P!Layout, C!Secp256r1Pubkey, C!Field,
           P!Field
  <2> QED
    BY <2>1, SameCodec DEF C!FetchPhygitalToken, ReadAt
<1> DEFINE matching == {b \in DOMAIN data : /\ b[2] = Main /\ data[b].disc = 123
                                            /\ read(b)[field] = value}
<1>4. ASSUME NEW b \in DOMAIN data
      PROVE  (/\ C!Size(data[b].cells) = C!GetPhygitalTokenSize
              /\ C!Memcmp(data[b], offset, value))
             <=> data[b].disc = 123 /\ read(b)[field] = value
  <2>1. CASE data[b].disc = 123
    <3>1. data[b] = P!Encode(P!PhygitalToken, read(b))
      BY <1>1, <2>1
    <3>2. C!Memcmp(P!Encode(P!PhygitalToken, read(b)), offset, value) <=> read(b)[field] = value
      OBVIOUS
    <3> HIDE DEF read
    <3>3. C!Memcmp(data[b], offset, value) <=> read(b)[field] = value
      BY <3>1, <3>2
    <3> QED
      BY <1>1, <2>1, <3>3
  <2>2. CASE data[b].disc # 123
    BY <1>2, <2>2
  <2> QED
    BY <2>1, <2>2
<1>5. C!ScanAt(data, offset, value) = {read(b) : b \in matching}
  <2>1. {b \in DOMAIN data : /\ b[2] = C!Main
                             /\ C!Size(data[b].cells) = C!GetPhygitalTokenSize
                             /\ C!Memcmp(data[b], offset, value)} = matching
    <3> HIDE DEF read
    <3> QED
      BY <1>4, SameAddresses
  <2>2. C!ScanAt(data, offset, value) = {C!FetchPhygitalToken(data, b) : b \in matching}
    <3> HIDE DEF matching
    <3> QED
      BY <2>1 DEF C!ScanAt
  <2> HIDE DEF matching, read
  <2> QED
    BY <1>3, <2>2
<1>6. {read(b) : b \in matching} = {t \in TokensIn(data) : t[field] = value}
  <2> HIDE DEF read
  <2>1. TokensIn(data) = {read(a) : a \in {b \in DOMAIN data : b[2] = Main /\ data[b].disc = 123}}
    BY DEF TokensIn, read
  <2> QED
    BY <2>1
<1> QED
  BY <1>5, <1>6

(***************************************************************************)
(* The client's queries and its reading of locks are the program's.        *)
(***************************************************************************)
LEMMA AccountsTell == Inv => AccountsReadTrue
<1> SUFFICES ASSUME Inv PROVE AccountsReadTrue
  OBVIOUS
<1>1. InPlace(accounts)
  BY DEF Inv
<1>2. TokensOfMain = TokensIn(accounts)
  <2>1. P!PhygitalToken.disc = 123
    BY DEF P!PhygitalToken, P!Layout
  <2>2. \A a : P!Token([accounts |-> [phygitalToken |-> a]], accounts) = ReadAt(accounts, a)
    BY DEF P!Token, ReadAt
  <2> QED
    BY <2>1, <2>2 DEF TokensOfMain, TokensIn
<1>3. ASSUME NEW v
      PROVE  /\ C!FetchPhygitalTokensByOwner(accounts, v)
                    = {t \in TokensOfMain : t["owner"] = v}
             /\ OneOf(C!FetchPhygitalTokenByMint(accounts, v),
                      {t \in TokensOfMain : t["mint"] = v})
             /\ OneOf(C!FetchPhygitalTokenByIdentifier(accounts, v),
                      {t \in TokensOfMain : t["identifier"] = v})
  <2>1. \A d : /\ C!Memcmp(P!Encode(P!PhygitalToken, d), C!OwnerOffset, v) <=> d["owner"] = v
               /\ C!Memcmp(P!Encode(P!PhygitalToken, d), C!MintOffset, v) <=> d["mint"] = v
               /\ C!Memcmp(P!Encode(P!PhygitalToken, d), C!IdentifierOffset, v)
                    <=> d["identifier"] = v
    BY TokenBytes
  <2>2. C!ScanAt(accounts, C!OwnerOffset, v) = {t \in TokensIn(accounts) : t["owner"] = v}
    BY <1>1, <2>1, ScanFinds
  <2>3. C!ScanAt(accounts, C!MintOffset, v) = {t \in TokensIn(accounts) : t["mint"] = v}
    BY <1>1, <2>1, ScanFinds
  <2>4. C!ScanAt(accounts, C!IdentifierOffset, v)
            = {t \in TokensIn(accounts) : t["identifier"] = v}
    BY <1>1, <2>1, ScanFinds
  <2>5. \A tokens : OneOf(C!FirstOf(tokens), tokens)
    BY DEF OneOf, C!FirstOf
  <2> QED
    BY <1>2, <2>2, <2>3, <2>4, <2>5
       DEF C!FetchPhygitalTokensByOwner, C!FetchPhygitalTokenByMint,
           C!FetchPhygitalTokenByIdentifier
<1>4. \A t : C!IsPhygitalTokenLocked(t) <=> P!IsLocked(t)
  <2>1. C!PhygitalTokenType = P!TokenTypes
    BY DEF C!PhygitalTokenType, P!TokenTypes
  <2>2. C!TypeByte("Bearer") = P!TypeByte("Bearer")
    BY <2>1 DEF C!TypeByte, P!TypeByte
  <2> QED
    BY <2>2, SameAddresses DEF C!IsPhygitalTokenLocked, P!IsLocked
<1> QED
  BY <1>3, <1>4 DEF AccountsReadTrue

(***************************************************************************)
(* The query by owner returns the tokens of that owner, those by mint and  *)
(* identifier one token that has it, or null if there is none; and the     *)
(* client reports those as locked that set_owner refuses so.               *)
(***************************************************************************)
THEOREM AlwaysAccountsReadTrue == Spec => []AccountsReadTrue
BY InvCorrect, AccountsTell, PTL

----------------------------------------------------------------------------
(* Taps.                                                                   *)

(***************************************************************************)
(* A reader that starts where a cell does and takes its width gets it, if  *)
(* the cell takes some bytes or stands between two that do.                *)
(***************************************************************************)
LEMMA SliceOfCell ==
    ASSUME NEW S, NEW cells \in Seq(S), \A n \in 1 .. Len(cells) : cells[n][1] \in Nat,
           NEW sums, sums[0] = 0, \A n \in 0 .. Len(cells) : sums[n] \in Int,
           \A n \in 1 .. Len(cells) : sums[n] = sums[n - 1] + cells[n][1],
           NEW c \in 1 .. Len(cells),
           \/ cells[c][1] > 0
           \/ /\ c > 1 => cells[c - 1][1] > 0
              /\ c < Len(cells) => cells[c + 1][1] > 0
    PROVE  P!Slice(cells, sums[c - 1], cells[c][1]) = {cells[c][2]}
<1> DEFINE N == Len(cells)
           weight == [n \in 1 .. N |-> cells[n][1]]
<1>1. N \in Nat /\ DOMAIN cells = 1 .. N
  OBVIOUS
<1>2. \A n \in 1 .. N : n - 1 \in 0 .. N /\ cells[n][1] \in Int
  OBVIOUS
<1>2a. /\ \A n \in 1 .. Len(cells) : cells[n][1] \in Int
       /\ \A n \in 1 .. Len(cells) : sums[n - 1] \in Int /\ sums[n] = sums[n - 1] + cells[n][1]
  BY <1>2
<1>3. \A k \in 0 .. N : P!Bytes(SubSeq(cells, 1, k)) = sums[k]
  <2>1. ASSUME NEW k \in 0 .. Len(cells)
        PROVE  C!Bytes(SubSeq(cells, 1, k)) = sums[k]
    BY <1>2a, FirstCounted
  <2> QED
    BY <2>1 DEF C!Bytes, P!Bytes
<1>4. P!Bytes(cells) = sums[N]
  <2>1. C!Bytes(cells) = sums[N]
    BY <1>2a, BytesCounted
  <2> QED
    BY <2>1 DEF C!Bytes, P!Bytes
<1>5. \A i, j \in 0 .. N : i <= j => sums[i] <= sums[j]
  <2>1. /\ \A n \in 1 .. N : weight[n] \in Nat
        /\ \A n \in 1 .. N : sums[n] = sums[n - 1] + weight[n]
        /\ \A n \in 0 .. N : sums[n] \in Int
    OBVIOUS
  <2> HIDE DEF weight, N
  <2> QED
    BY <1>1, <2>1, SumsGrow, Zenon
<1>9. \/ cells[c][1] > 0
      \/ (c > 1 => cells[c - 1][1] > 0) /\ (c < N => cells[c + 1][1] > 0)
  OBVIOUS
<1> HIDE DEF N, weight
<1>6. c \in 1 .. N /\ \A n \in 0 .. N : sums[n] \in Int
  BY DEF N
<1>7. \A n \in 1 .. N : cells[n][1] \in Nat /\ sums[n] = sums[n - 1] + cells[n][1]
  BY DEF N
<1> DEFINE whole == {i \in DOMAIN cells : /\ cells[i][1] = cells[c][1]
                                          /\ P!Bytes(SubSeq(cells, 1, i - 1)) = sums[c - 1]}
<1>8. ASSUME NEW i \in 1 .. N, cells[i][1] = cells[c][1], sums[i - 1] = sums[c - 1]
      PROVE  i = c
  <2>1. CASE cells[c][1] > 0
    <3>1. sums[i] = sums[c] /\ sums[c - 1] < sums[c]
      BY <1>1, <1>2, <1>6, <1>7, <1>8, <2>1
    <3>2. CASE i < c
      <4>1. sums[i] <= sums[c - 1]
        BY <1>1, <1>2, <1>5, <1>6, <3>2
      <4> QED
        BY <1>1, <1>2, <1>6, <3>1, <4>1
    <3>3. CASE c < i
      <4>1. sums[c] <= sums[i - 1]
        BY <1>1, <1>2, <1>5, <1>6, <3>3
      <4> QED
        BY <1>1, <1>2, <1>6, <1>8, <3>1, <4>1
    <3> QED
      BY <1>6, <3>2, <3>3
  <2>2. CASE cells[c][1] = 0 /\ i < c
    <3>1. c > 1 /\ cells[c - 1][1] > 0 /\ c - 1 \in 1 .. N /\ c - 2 \in 0 .. N
      BY <1>1, <1>6, <1>9, <2>2
    <3>2. sums[c - 2] < sums[c - 1]
      <4>1. cells[c - 1][1] \in Nat /\ sums[c - 1] = sums[(c - 1) - 1] + cells[c - 1][1]
        BY <1>7, <3>1
      <4>2. (c - 1) - 1 = c - 2 /\ sums[c - 2] \in Int
        BY <1>6, <3>1
      <4> QED
        BY <3>1, <4>1, <4>2
    <3>3. i # c - 1
      BY <1>8, <2>2, <3>1
    <3>4. sums[i - 1] <= sums[c - 2]
      BY <1>1, <1>2, <1>5, <1>6, <2>2, <3>1, <3>3
    <3> QED
      BY <1>1, <1>2, <1>6, <1>8, <3>1, <3>2, <3>4
  <2>3. CASE cells[c][1] = 0 /\ c < i
    <3>1. cells[c + 1][1] > 0 /\ c + 1 \in 1 .. N
      BY <1>1, <1>6, <1>9, <2>3
    <3>2. sums[c - 1] < sums[c + 1]
      <4>1. /\ cells[c + 1][1] \in Nat /\ sums[c + 1] = sums[(c + 1) - 1] + cells[c + 1][1]
            /\ sums[c] = sums[c - 1] + cells[c][1]
        BY <1>6, <1>7, <3>1
      <4>2. (c + 1) - 1 = c /\ sums[c] \in Int /\ sums[c - 1] \in Int
        BY <1>1, <1>6
      <4> QED
        BY <2>3, <3>1, <4>1, <4>2
    <3>3. i # c + 1
      BY <1>8, <2>3, <3>1
    <3>4. sums[c + 1] <= sums[i - 1]
      BY <1>1, <1>2, <1>5, <1>6, <2>3, <3>1, <3>3
    <3> QED
      BY <1>1, <1>2, <1>6, <1>8, <3>1, <3>2, <3>4
  <2> QED
    BY <1>6, <1>7, <2>1, <2>2, <2>3
<1>10. whole = {c}
  BY <1>1, <1>2, <1>3, <1>6, <1>8
<1>11. sums[c - 1] + cells[c][1] <= P!Bytes(cells)
  <2>1. sums[c] <= sums[N]
    BY <1>1, <1>5, <1>6
  <2> QED
    BY <1>4, <1>6, <1>7, <2>1
<1>12. P!Slice(cells, sums[c - 1], cells[c][1]) =
        IF sums[c - 1] + cells[c][1] > P!Bytes(cells) THEN {}
        ELSE IF whole = {} THEN {P!Garbled} ELSE {cells[i][2] : i \in whole}
  BY DEF P!Slice
<1> HIDE DEF whole
<1>13. ~(sums[c - 1] + cells[c][1] > P!Bytes(cells))
  BY <1>1, <1>2, <1>4, <1>6, <1>7, <1>11
<1> QED
  BY <1>10, <1>12, <1>13

(***************************************************************************)
(* The keys of a precompile instruction are placed one after the other,    *)
(* each as far on as the entry before is long.                             *)
(***************************************************************************)
LEMMA KeysPlaced ==
    ASSUME NEW S, NEW entries \in Seq(S), \A n \in 1 .. Len(entries) : entries[n].size \in Nat
    PROVE  \E key :
              /\ key[0] = 2 + 14 * Len(entries)
              /\ \A n \in 0 .. Len(entries) : key[n] \in Int
              /\ \A n \in 1 .. Len(entries) : key[n] = key[n - 1] + 97 + entries[n].size
              /\ \A i \in 1 .. Len(entries) : C!PublicKeyOffset(entries, i) = key[i - 1]
<1> DEFINE N == Len(entries)
           start == 2 + 14 * N
           weight == [n \in 1 .. N |-> 33 + 64 + entries[n].size]
           Runs(f) == f = [n \in 0 .. N |-> IF n = 0 THEN start ELSE f[n - 1] + weight[n]]
           key == CHOOSE f : Runs(f)
<1>1. N \in Nat /\ start \in Int
  OBVIOUS
<1>2. \A n \in 1 .. N : weight[n] \in Int
  OBVIOUS
<1>3. ASSUME NEW i \in 1 .. N PROVE C!PublicKeyOffset(entries, i) = key[i - 1]
  <2>1. \A f : [n \in 0 .. N |-> IF n = 0 THEN start ELSE f[n - 1] + weight[n]]
                = [n \in 0 .. N |-> IF n = 0 THEN start ELSE f[n - 1] + C!EntrySize(entries[n])]
    <3>1. \A n \in 0 .. N : n # 0 => n \in 1 .. N
      BY <1>1
    <3>2. \A n \in 1 .. N : weight[n] = C!EntrySize(entries[n])
      BY DEF C!EntrySize
    <3> HIDE DEF N, start, weight
    <3> QED
      BY <3>1, <3>2
  <2>2. key = CHOOSE f : f = [n \in 0 .. N |-> IF n = 0 THEN start
                                               ELSE f[n - 1] + C!EntrySize(entries[n])]
    <3> HIDE DEF N, start, weight
    <3> QED
      BY <2>1
  <2> QED
    BY <2>2 DEF C!PublicKeyOffset
<1>4. \E f : Runs(f)
  <2> HIDE DEF N, start, weight
  <2> QED
    BY <1>1, <1>2, RunningSums, Zenon
<1>5. Runs(key)
  <2> HIDE DEF Runs
  <2> QED
    BY <1>4, Zenon
<1>6. key = [n \in 0 .. N |-> IF n = 0 THEN start ELSE key[n - 1] + weight[n]]
  BY <1>5
<1> HIDE DEF key, Runs, N, start
<1>7. /\ key[0] = start /\ \A n \in 1 .. N : key[n] = key[n - 1] + weight[n]
  <2>1. \A n \in 0 .. N : key[n] = IF n = 0 THEN start ELSE key[n - 1] + weight[n]
    BY <1>6
  <2> HIDE DEF weight
  <2> QED
    BY <1>1, <2>1
<1>8. \A n \in 0 .. N : key[n] \in Int
  <2> HIDE DEF weight
  <2> QED
    BY <1>1, <1>2, <1>7, SumsRun
<1>9. \A n \in 1 .. N : key[n] = key[n - 1] + 97 + entries[n].size
  <2>1. \A n \in 1 .. N : /\ weight[n] = 33 + 64 + entries[n].size
                          /\ n - 1 \in 0 .. N /\ entries[n].size \in Int
    BY <1>1 DEF N
  <2> HIDE DEF weight
  <2> QED
    BY SMTT(30), <1>7, <1>8, <2>1
<1> QED
  BY <1>3, <1>7, <1>8, <1>9 DEF N, start

(***************************************************************************)
(* What stands in the rows of seven or three cells.                        *)
(***************************************************************************)
LEMMA RowsRead ==
    ASSUME NEW rows, NEW N \in Nat, Len(rows) = N
    PROVE  /\ \A i \in 1 .. N, n \in 1 .. 7 :
                /\ 7 * (i - 1) + n \in 1 .. 7 * N
                /\ C!RowByRow(rows, 7)[7 * (i - 1) + n] = rows[i][n]
           /\ \A i \in 1 .. N, n \in 1 .. 3 :
                /\ 3 * (i - 1) + n \in 1 .. 3 * N
                /\ C!RowByRow(rows, 3)[3 * (i - 1) + n] = rows[i][n]
           /\ DOMAIN C!RowByRow(rows, 7) = 1 .. 7 * N
           /\ DOMAIN C!RowByRow(rows, 3) = 1 .. 3 * N
<1>1. ASSUME NEW i \in 1 .. N, NEW n \in 1 .. 7
      PROVE  /\ 7 * (i - 1) + n \in 1 .. 7 * N
             /\ C!RowByRow(rows, 7)[7 * (i - 1) + n] = rows[i][n]
  <2> DEFINE c == 7 * (i - 1) + n
  <2>1. c \in 1 .. 7 * N /\ 1 + ((c - 1) \div 7) = i /\ 1 + ((c - 1) % 7) = n
    OBVIOUS
  <2> HIDE DEF c
  <2>2. C!RowByRow(rows, 7)[c] = rows[1 + ((c - 1) \div 7)][1 + ((c - 1) % 7)]
    BY <2>1 DEF C!RowByRow
  <2> QED
    BY <2>1, <2>2 DEF c
<1>2. ASSUME NEW i \in 1 .. N, NEW n \in 1 .. 3
      PROVE  /\ 3 * (i - 1) + n \in 1 .. 3 * N
             /\ C!RowByRow(rows, 3)[3 * (i - 1) + n] = rows[i][n]
  <2> DEFINE c == 3 * (i - 1) + n
  <2>1. c \in 1 .. 3 * N /\ 1 + ((c - 1) \div 3) = i /\ 1 + ((c - 1) % 3) = n
    OBVIOUS
  <2> HIDE DEF c
  <2>2. C!RowByRow(rows, 3)[c] = rows[1 + ((c - 1) \div 3)][1 + ((c - 1) % 3)]
    BY <2>1 DEF C!RowByRow
  <2> QED
    BY <2>1, <2>2 DEF c
<1>3. /\ DOMAIN C!RowByRow(rows, 7) = 1 .. 7 * N
      /\ DOMAIN C!RowByRow(rows, 3) = 1 .. 3 * N
  BY DEF C!RowByRow
<1> QED
  BY <1>1, <1>2, <1>3

(***************************************************************************)
(* A function on the first numbers is a sequence of that length.           *)
(***************************************************************************)
LEMMA AsSequence ==
    ASSUME NEW n \in Nat, NEW T, NEW f \in [1 .. n -> T]
    PROVE  f \in Seq(T) /\ Len(f) = n
  OBVIOUS

(***************************************************************************)
(* The cells of a precompile instruction: two counts, a row of seven for   *)
(* each entry, a row of three for each entry.                              *)
(***************************************************************************)
LEMMA DataCells ==
    ASSUME NEW S, NEW entries \in Seq(S)
    PROVE  LET cells == C!Secp256r1VerifyInstructionData(entries).cells
               N == Len(entries)
           IN /\ cells \in Seq({cells[c] : c \in DOMAIN cells}) /\ Len(cells) = 2 + 7 * N + 3 * N
              /\ cells[1] = <<1, N>> /\ cells[2] = <<1, 0>>
              /\ \A i \in 1 .. N, n \in 1 .. 7 :
                    cells[2 + 7 * (i - 1) + n] = C!SignatureOffsets(entries, i)[n]
              /\ \A i \in 1 .. N, n \in 1 .. 3 :
                    cells[2 + 7 * N + 3 * (i - 1) + n] = C!Payload(entries[i])[n]
<1> DEFINE N == Len(entries)
           table == [i \in DOMAIN entries |-> C!SignatureOffsets(entries, i)]
           payloads == [i \in DOMAIN entries |-> C!Payload(entries[i])]
           counts == <<<<1, N>>, <<1, 0>>>>
           row7 == C!RowByRow(table, 7)
           row3 == C!RowByRow(payloads, 3)
           cells == C!Secp256r1VerifyInstructionData(entries).cells
           T == {counts[c] : c \in 1 .. 2} \cup {row7[c] : c \in 1 .. 7 * N}
                    \cup {row3[c] : c \in 1 .. 3 * N}
<1>1. N \in Nat /\ DOMAIN entries = 1 .. N
  OBVIOUS
<1>2. Len(table) = N /\ Len(payloads) = N
  <2>1. /\ table \in [1 .. N -> {table[i] : i \in 1 .. N}]
        /\ payloads \in [1 .. N -> {payloads[i] : i \in 1 .. N}]
    BY <1>1
  <2> HIDE DEF table, payloads, N
  <2> QED
    BY <1>1, <2>1, AsSequence
<1>3. cells = (counts \o row7) \o row3
  BY DEF C!Secp256r1VerifyInstructionData
<1>4. \A i \in 1 .. N : /\ table[i] = C!SignatureOffsets(entries, i)
                      /\ payloads[i] = C!Payload(entries[i])
  BY <1>1
<1>5. counts \in Seq(T) /\ Len(counts) = 2 /\ counts[1] = <<1, N>> /\ counts[2] = <<1, 0>>
  <2>1. counts[1] \in T /\ counts[2] \in T
    OBVIOUS
  <2> HIDE DEF T
  <2> QED
    BY <2>1
<1> HIDE DEF counts, cells
<1>6. /\ \A i \in 1 .. N, n \in 1 .. 7 :
            7 * (i - 1) + n \in 1 .. 7 * N /\ row7[7 * (i - 1) + n] = table[i][n]
      /\ \A i \in 1 .. N, n \in 1 .. 3 :
            3 * (i - 1) + n \in 1 .. 3 * N /\ row3[3 * (i - 1) + n] = payloads[i][n]
      /\ DOMAIN row7 = 1 .. 7 * N /\ DOMAIN row3 = 1 .. 3 * N
  <2> HIDE DEF table, payloads
  <2> QED
    BY <1>1, <1>2, RowsRead
<1>7. /\ row7 = [c \in 1 .. 7 * N |-> row7[c]] /\ row3 = [c \in 1 .. 3 * N |-> row3[c]]
  BY <1>2 DEF C!RowByRow
<1> HIDE DEF table, payloads, row7, row3
<1>8. row7 \in Seq(T) /\ Len(row7) = 7 * N /\ row3 \in Seq(T) /\ Len(row3) = 3 * N
  <2>1. /\ \A c \in 1 .. 7 * N : row7[c] \in T
        /\ \A c \in 1 .. 3 * N : row3[c] \in T
    OBVIOUS
  <2> HIDE DEF T
  <2>2. row7 \in [1 .. 7 * N -> T] /\ row3 \in [1 .. 3 * N -> T]
    BY <1>7, <2>1
  <2>3. 7 * N \in Nat /\ 3 * N \in Nat
    BY <1>1
  <2> QED
    BY <2>2, <2>3
<1> HIDE DEF T, N
<1> DEFINE first == counts \o row7
<1>9. /\ first \in Seq(T) /\ Len(first) = 2 + 7 * N
      /\ \A c \in 1 .. 2 + 7 * N : first[c] = IF c <= 2 THEN counts[c] ELSE row7[c - 2]
  <2>1. /\ first \in Seq(T) /\ Len(first) = Len(counts) + Len(row7)
        /\ \A c \in 1 .. Len(counts) + Len(row7) :
            first[c] = IF c <= Len(counts) THEN counts[c] ELSE row7[c - Len(counts)]
    <3>1. counts \in Seq(T) /\ row7 \in Seq(T)
      BY <1>5, <1>8
    <3> QED
      BY <3>1, ConcatProperties
  <2> HIDE DEF first
  <2> QED
    BY <1>5, <1>8, <2>1
<1> HIDE DEF first
<1>10. /\ cells \in Seq(T) /\ Len(cells) = 2 + 7 * N + 3 * N
       /\ \A c \in 1 .. 2 + 7 * N + 3 * N :
            cells[c] = IF c <= 2 + 7 * N THEN first[c] ELSE row3[c - (2 + 7 * N)]
  <2>1. cells = first \o row3
    BY <1>3 DEF first
  <2>2. /\ cells \in Seq(T) /\ Len(cells) = Len(first) + Len(row3)
        /\ \A c \in 1 .. Len(first) + Len(row3) :
            cells[c] = IF c <= Len(first) THEN first[c] ELSE row3[c - Len(first)]
    <3>1. first \in Seq(T) /\ row3 \in Seq(T)
      BY <1>8, <1>9
    <3> QED
      BY <2>1, <3>1, ConcatProperties
  <2> QED
    BY <1>8, <1>9, <2>2
<1>11. cells \in Seq({cells[c] : c \in DOMAIN cells})
  <2>1. Len(cells) \in Nat /\ cells \in [1 .. Len(cells) -> {cells[c] : c \in DOMAIN cells}]
    BY <1>10
  <2> QED
    BY <2>1
<1>12. cells[1] = <<1, N>> /\ cells[2] = <<1, 0>>
  BY <1>1, <1>5, <1>9, <1>10
<1>13. ASSUME NEW i \in 1 .. N, NEW n \in 1 .. 7
       PROVE  cells[2 + 7 * (i - 1) + n] = C!SignatureOffsets(entries, i)[n]
  <2> DEFINE c == 7 * (i - 1) + n
  <2>1. c \in 1 .. 7 * N /\ row7[c] = table[i][n]
    BY <1>6
  <2>2. 2 + 7 * (i - 1) + n = 2 + c
    BY <1>1
  <2> HIDE DEF c
  <2>3. cells[2 + c] = row7[c]
    BY <1>1, <1>9, <1>10, <2>1
  <2> QED
    BY <1>4, <2>1, <2>2, <2>3
<1>14. ASSUME NEW i \in 1 .. N, NEW n \in 1 .. 3
       PROVE  cells[2 + 7 * N + 3 * (i - 1) + n] = C!Payload(entries[i])[n]
  <2> DEFINE c == 3 * (i - 1) + n
  <2>1. c \in 1 .. 3 * N /\ row3[c] = payloads[i][n]
    BY <1>6
  <2>2. 2 + 7 * N + 3 * (i - 1) + n = 2 + 7 * N + c
    BY <1>1
  <2> HIDE DEF c
  <2>3. cells[2 + 7 * N + c] = row3[c]
    BY <1>1, <1>9, <1>10, <2>1
  <2> QED
    BY <1>4, <2>1, <2>2, <2>3
<1> QED
  BY <1>10, <1>11, <1>12, <1>13, <1>14 DEF N, cells

(***************************************************************************)
(* Where the cells stand: the bytes before the table's rows, and before    *)
(* the key, the signature and the message of each entry.                   *)
(***************************************************************************)
LEMMA CellsPlaced ==
    ASSUME NEW S, NEW entries \in Seq(S), \A n \in 1 .. Len(entries) : entries[n].size \in Nat
    PROVE  LET cells == C!Secp256r1VerifyInstructionData(entries).cells
               N == Len(entries)
           IN \E at :
                /\ at[0] = 0 /\ \A c \in 0 .. Len(cells) : at[c] \in Int
                /\ \A c \in 1 .. Len(cells) :
                     cells[c][1] \in Nat /\ at[c] = at[c - 1] + cells[c][1]
                /\ \A i \in 1 .. N, n \in 1 .. 7 :
                     at[2 + 7 * (i - 1) + n - 1] = 2 + 14 * (i - 1) + 2 * (n - 1)
                /\ \A i \in 1 .. N :
                     /\ at[2 + 7 * N + 3 * (i - 1)] = C!PublicKeyOffset(entries, i)
                     /\ at[2 + 7 * N + 3 * (i - 1) + 1] = C!PublicKeyOffset(entries, i) + 33
                     /\ at[2 + 7 * N + 3 * (i - 1) + 2] = C!PublicKeyOffset(entries, i) + 97
<1> DEFINE N == Len(entries)
           cells == C!Secp256r1VerifyInstructionData(entries).cells
<1>1. N \in Nat /\ \A i \in 1 .. N : entries[i].size \in Nat
  OBVIOUS
<1>2. PICK key :
        /\ key[0] = 2 + 14 * N
        /\ \A n \in 0 .. N : key[n] \in Int
        /\ \A n \in 1 .. N : key[n] = key[n - 1] + 97 + entries[n].size
        /\ \A i \in 1 .. N : C!PublicKeyOffset(entries, i) = key[i - 1]
  BY KeysPlaced
<1>3. /\ Len(cells) = 2 + 7 * N + 3 * N
      /\ cells[1] = <<1, N>> /\ cells[2] = <<1, 0>>
      /\ \A i \in 1 .. N, n \in 1 .. 7 :
            cells[2 + 7 * (i - 1) + n] = C!SignatureOffsets(entries, i)[n]
      /\ \A i \in 1 .. N, n \in 1 .. 3 :
            cells[2 + 7 * N + 3 * (i - 1) + n] = C!Payload(entries[i])[n]
  BY DataCells
<1> HIDE DEF N, cells
<1> DEFINE past(r) == IF r = 0 THEN 0 ELSE IF r = 1 THEN 33 ELSE 97
           at == [c \in 0 .. 2 + 7 * N + 3 * N |->
                    IF c <= 2 THEN c
                    ELSE IF c <= 2 + 7 * N THEN 2 + 2 * (c - 2)
                    ELSE key[(c - (2 + 7 * N)) \div 3] + past((c - (2 + 7 * N)) % 3)]
<1>4. /\ \A c \in 0 .. 2 : at[c] = c
      /\ \A c \in 2 .. 2 + 7 * N : at[c] = 2 + 2 * (c - 2)
  BY <1>1
<1>5. ASSUME NEW j \in 0 .. 3 * N
      PROVE  at[2 + 7 * N + j] = key[j \div 3] + past(j % 3)
  <2>1. 2 + 7 * N + j \in 0 .. 2 + 7 * N + 3 * N /\ (2 + 7 * N + j) - (2 + 7 * N) = j
    BY <1>1
  <2>2. CASE j = 0
    <3>1. at[2 + 7 * N] = 2 + 2 * (7 * N)
      BY <1>1, <1>4
    <3> QED
      BY <1>1, <1>2, <2>2, <3>1
  <2>3. CASE j # 0
    <3>1. ~(2 + 7 * N + j <= 2) /\ ~(2 + 7 * N + j <= 2 + 7 * N)
      BY <1>1, <2>3
    <3> QED
      BY <2>1, <3>1
  <2> QED
    BY <2>2, <2>3
<1>6. \A i \in 1 .. N, r \in 0 .. 2 : at[2 + 7 * N + 3 * (i - 1) + r] = key[i - 1] + past(r)
  <2> SUFFICES ASSUME NEW i \in 1 .. N, NEW r \in 0 .. 2
               PROVE  at[2 + 7 * N + 3 * (i - 1) + r] = key[i - 1] + past(r)
    OBVIOUS
  <2>1. /\ 3 * (i - 1) + r \in 0 .. 3 * N
        /\ (3 * (i - 1) + r) \div 3 = i - 1 /\ (3 * (i - 1) + r) % 3 = r
    BY <1>1
  <2>2. 2 + 7 * N + 3 * (i - 1) + r = 2 + 7 * N + (3 * (i - 1) + r)
    BY <1>1
  <2> HIDE DEF at, past
  <2> QED
    BY <1>5, <2>1, <2>2
<1>7. \A i \in 1 .. N : at[2 + 7 * N + 3 * (i - 1) + 3] = key[i]
  <2> SUFFICES ASSUME NEW i \in 1 .. N
               PROVE  at[2 + 7 * N + 3 * (i - 1) + 3] = key[i]
    OBVIOUS
  <2>1. 3 * i \in 0 .. 3 * N /\ (3 * i) \div 3 = i /\ (3 * i) % 3 = 0
    BY <1>1
  <2>2. 2 + 7 * N + 3 * (i - 1) + 3 = 2 + 7 * N + 3 * i
    BY <1>1
  <2>3. at[2 + 7 * N + 3 * i] = key[i] + past(0)
    <3> HIDE DEF at, past
    <3> QED
      BY <1>5, <2>1
  <2>4. key[i] \in Int
    BY <1>1, <1>2
  <2> QED
    BY <2>2, <2>3, <2>4
<1>8. at[0] = 0
  BY <1>4
<1> HIDE DEF at
<1>9. ASSUME NEW i \in 1 .. N, NEW n \in 1 .. 7
      PROVE  /\ 2 + 7 * (i - 1) + n \in 2 .. 2 + 7 * N
             /\ at[2 + 7 * (i - 1) + n - 1] = 2 + 14 * (i - 1) + 2 * (n - 1)
             /\ at[2 + 7 * (i - 1) + n] = 2 + 14 * (i - 1) + 2 * n
             /\ C!SignatureOffsets(entries, i)[n][1] = 2
  <2>1. /\ 2 + 7 * (i - 1) + n \in 2 .. 2 + 7 * N /\ 2 + 7 * (i - 1) + n - 1 \in 2 .. 2 + 7 * N
        /\ 2 + 2 * ((2 + 7 * (i - 1) + n) - 2) = 2 + 14 * (i - 1) + 2 * n
        /\ 2 + 2 * ((2 + 7 * (i - 1) + n - 1) - 2) = 2 + 14 * (i - 1) + 2 * (n - 1)
    BY <1>1
  <2>2. C!SignatureOffsets(entries, i)[n][1] = 2
    BY DEF C!SignatureOffsets
  <2> QED
    BY <1>4, <2>1, <2>2
<1>10. ASSUME NEW c \in 1 .. Len(cells)
       PROVE  cells[c][1] \in Nat /\ at[c] = at[c - 1] + cells[c][1] /\ at[c] \in Int
  <2>1. CASE c <= 2
    BY <1>1, <1>3, <1>4, <2>1
  <2>2. CASE c > 2 /\ c <= 2 + 7 * N
    <3> DEFINE i == 1 + ((c - 3) \div 7)
               n == 1 + ((c - 3) % 7)
    <3>1. i \in 1 .. N /\ n \in 1 .. 7 /\ c = 2 + 7 * (i - 1) + n
      BY <1>1, <2>2
    <3> HIDE DEF i, n
    <3>2. /\ at[c - 1] = 2 + 14 * (i - 1) + 2 * (n - 1)
          /\ at[c] = 2 + 14 * (i - 1) + 2 * n
          /\ C!SignatureOffsets(entries, i)[n][1] = 2
      <4>1. /\ at[2 + 7 * (i - 1) + n - 1] = 2 + 14 * (i - 1) + 2 * (n - 1)
            /\ at[2 + 7 * (i - 1) + n] = 2 + 14 * (i - 1) + 2 * n
            /\ C!SignatureOffsets(entries, i)[n][1] = 2
        <5>1. i \in 1 .. N /\ n \in 1 .. 7
          BY <3>1
        <5> QED
          BY <1>9, <5>1
      <4> QED
        BY <3>1, <4>1
    <3>3. cells[c][1] = 2
      BY <1>3, <3>1, <3>2
    <3> QED
      BY <3>1, <3>2, <3>3
  <2>3. CASE c > 2 + 7 * N
    <3> DEFINE d == c - (2 + 7 * N) - 1
               i == 1 + (d \div 3)
               r == d % 3
    <3>0. d \in 0 .. 3 * N - 1 /\ c - 1 = 2 + 7 * N + d
      <4>1. c \in 1 .. 2 + 7 * N + 3 * N
        BY <1>3
      <4> QED
        BY <1>1, <2>3, <4>1
    <3> HIDE DEF d
    <3>1. i \in 1 .. N /\ r \in 0 .. 2 /\ c - 1 = 2 + 7 * N + 3 * (i - 1) + r
      <4>1. i \in 1 .. N /\ r \in 0 .. 2 /\ d = 3 * (i - 1) + r
        BY <1>1, <3>0
      <4> QED
        BY <1>1, <3>0, <4>1
    <3> HIDE DEF i, r
    <3>2. c = 2 + 7 * N + 3 * (i - 1) + (r + 1) /\ r + 1 \in 1 .. 3
      BY <1>1, <3>1
    <3>3. cells[c] = C!Payload(entries[i])[r + 1]
      BY <1>3, <3>1, <3>2
    <3>4. at[c - 1] = key[i - 1] + past(r)
      BY <1>6, <3>1
    <3>5. /\ key[i - 1] \in Int /\ key[i] \in Int /\ entries[i].size \in Nat
          /\ key[i] = key[i - 1] + 97 + entries[i].size
      <4>1. i \in 1 .. N /\ i \in 0 .. N /\ i - 1 \in 0 .. N
        BY <1>1, <3>1
      <4> QED
        BY <1>1, <1>2, <4>1
    <3>6. CASE r = 0
      <4>1. at[c] = key[i - 1] + 33 /\ cells[c][1] = 33
        BY <1>6, <3>1, <3>2, <3>3, <3>6 DEF C!Payload
      <4> QED
        BY <3>4, <3>5, <3>6, <4>1
    <3>7. CASE r = 1
      <4>1. at[c] = key[i - 1] + 97 /\ cells[c][1] = 64
        BY <1>6, <3>1, <3>2, <3>3, <3>7 DEF C!Payload
      <4> QED
        BY <3>4, <3>5, <3>7, <4>1
    <3>8. CASE r = 2
      <4>1. at[c] = key[i] /\ cells[c][1] = entries[i].size
        BY <1>7, <3>1, <3>2, <3>3, <3>8 DEF C!Payload
      <4> QED
        BY <3>4, <3>5, <3>8, <4>1
    <3> QED
      BY <3>1, <3>6, <3>7, <3>8
  <2>4. c \in Int /\ N \in Int
    BY <1>1
  <2> QED
    BY <2>1, <2>2, <2>3, <2>4
<1>11. \A i \in 1 .. N :
            /\ at[2 + 7 * N + 3 * (i - 1)] = C!PublicKeyOffset(entries, i)
            /\ at[2 + 7 * N + 3 * (i - 1) + 1] = C!PublicKeyOffset(entries, i) + 33
            /\ at[2 + 7 * N + 3 * (i - 1) + 2] = C!PublicKeyOffset(entries, i) + 97
  <2> SUFFICES ASSUME NEW i \in 1 .. N
               PROVE  /\ at[2 + 7 * N + 3 * (i - 1)] = C!PublicKeyOffset(entries, i)
                      /\ at[2 + 7 * N + 3 * (i - 1) + 1] = C!PublicKeyOffset(entries, i) + 33
                      /\ at[2 + 7 * N + 3 * (i - 1) + 2] = C!PublicKeyOffset(entries, i) + 97
    OBVIOUS
  <2>1. /\ at[2 + 7 * N + 3 * (i - 1) + 0] = key[i - 1] + 0
        /\ at[2 + 7 * N + 3 * (i - 1) + 1] = key[i - 1] + 33
        /\ at[2 + 7 * N + 3 * (i - 1) + 2] = key[i - 1] + 97
    BY <1>6
  <2>2. /\ 2 + 7 * N + 3 * (i - 1) + 0 = 2 + 7 * N + 3 * (i - 1)
        /\ key[i - 1] \in Int
    BY <1>1, <1>2
  <2> QED
    BY <1>2, <2>1, <2>2
<1>12. \A c \in 0 .. Len(cells) : at[c] \in Int
  BY <1>1, <1>3, <1>8, <1>10
<1> QED
  BY <1>8, <1>9, <1>10, <1>11, <1>12 DEF N, cells

(***************************************************************************)
(* The count that a precompile instruction begins with is of its entries.  *)
(***************************************************************************)
LEMMA CountRead ==
    ASSUME NEW S, NEW entries \in Seq(S), \A n \in 1 .. Len(entries) : entries[n].size \in Nat
    PROVE  P!NumSignatures(C!Secp256r1VerifyInstructionData(entries)) = Len(entries)
<1> DEFINE N == Len(entries)
           data == C!Secp256r1VerifyInstructionData(entries)
           cells == data.cells
<1>1. N \in Nat
  OBVIOUS
<1>2. /\ cells \in Seq({cells[c] : c \in DOMAIN cells}) /\ Len(cells) = 2 + 7 * N + 3 * N
      /\ cells[1] = <<1, N>>
  BY ZenonT(60), DataCells
<1>3. PICK at :
        /\ at[0] = 0 /\ \A c \in 0 .. Len(cells) : at[c] \in Int
        /\ \A c \in 1 .. Len(cells) : cells[c][1] \in Nat /\ at[c] = at[c - 1] + cells[c][1]
  BY CellsPlaced
<1> HIDE DEF N, cells
<1>4. /\ \A n \in 1 .. Len(cells) : cells[n][1] \in Nat
      /\ \A n \in 1 .. Len(cells) : at[n] = at[n - 1] + cells[n][1]
  BY <1>3
<1>5. 1 \in 1 .. Len(cells) /\ cells[1][1] = 1 /\ cells[1][2] = N /\ at[1 - 1] = 0
  BY <1>1, <1>2, <1>3
<1>6. cells[1][1] > 0
  BY <1>5
<1>7. P!Slice(cells, at[1 - 1], cells[1][1]) = {cells[1][2]}
  BY ZenonT(60), <1>2, <1>3, <1>4, <1>5, <1>6, SliceOfCell
<1>8. P!Slice(cells, 0, 1) = {N}
  BY <1>5, <1>7, Zenon
<1> QED
  BY <1>8 DEF P!NumSignatures, P!Sole, cells, N

(***************************************************************************)
(* The place of a field of an entry's row among the cells of the data.     *)
(***************************************************************************)
LEMMA RowPlace ==
    ASSUME NEW N \in Nat, NEW i \in 1 .. N, NEW n \in 0 .. 6
    PROVE  2 + 7 * (i - 1) + (n + 1) \in 1 .. 2 + 7 * N + 3 * N /\ n + 1 \in 1 .. 7
  BY SMTT(30)

(***************************************************************************)
(* The key, the signature and the message of any entry are found where its *)
(* row of the table says, and the row points nowhere else.                 *)
(***************************************************************************)
LEMMA EntryFound ==
    ASSUME NEW S, NEW entries \in Seq(S), \A n \in 1 .. Len(entries) : entries[n].size \in Nat,
           NEW i \in 1 .. Len(entries)
    PROVE  LET data == C!Secp256r1VerifyInstructionData(entries)
           IN /\ P!SelfContained(data, i - 1)
              /\ P!TableField(data, i - 1, 5) = entries[i].size
              /\ P!SignatureData(data, i - 1) = {entries[i].signature}
              /\ P!PublicKeyData(data, i - 1) = {entries[i].publicKey}
              /\ P!MessageData(data, i - 1) = {entries[i].message}
<1> DEFINE N == Len(entries)
           data == C!Secp256r1VerifyInstructionData(entries)
           cells == data.cells
           offset == C!PublicKeyOffset(entries, i)
           row == C!SignatureOffsets(entries, i)
           base == 2 + 7 * N + 3 * (i - 1)
<1>1. N \in Nat /\ i \in 1 .. N /\ entries[i].size \in Nat
  OBVIOUS
<1>2. /\ cells \in Seq({cells[c] : c \in DOMAIN cells}) /\ Len(cells) = 2 + 7 * N + 3 * N
      /\ \A n \in 1 .. 7 : cells[2 + 7 * (i - 1) + n] = row[n]
      /\ \A j \in 1 .. N, n \in 1 .. 3 :
            cells[2 + 7 * N + 3 * (j - 1) + n] = C!Payload(entries[j])[n]
  BY ZenonT(60), DataCells
<1>15. PICK at :
        /\ at[0] = 0 /\ \A c \in 0 .. Len(cells) : at[c] \in Int
        /\ \A c \in 1 .. Len(cells) : cells[c][1] \in Nat /\ at[c] = at[c - 1] + cells[c][1]
        /\ \A j \in 1 .. N, n \in 1 .. 7 :
                at[2 + 7 * (j - 1) + n - 1] = 2 + 14 * (j - 1) + 2 * (n - 1)
        /\ \A j \in 1 .. N :
                /\ at[2 + 7 * N + 3 * (j - 1)] = C!PublicKeyOffset(entries, j)
                /\ at[2 + 7 * N + 3 * (j - 1) + 1] = C!PublicKeyOffset(entries, j) + 33
                /\ at[2 + 7 * N + 3 * (j - 1) + 2] = C!PublicKeyOffset(entries, j) + 97
  BY CellsPlaced
<1>3. /\ \A c \in 0 .. Len(cells) : at[c] \in Int
      /\ at[0] = 0
      /\ \A c \in 1 .. Len(cells) : cells[c][1] \in Nat /\ at[c] = at[c - 1] + cells[c][1]
      /\ \A n \in 1 .. 7 : at[2 + 7 * (i - 1) + n - 1] = 2 + 14 * (i - 1) + 2 * (n - 1)
      /\ at[base] = offset /\ at[base + 1] = offset + 33 /\ at[base + 2] = offset + 97
  <2> HIDE DEF N, cells
  <2> QED
    BY <1>1, <1>15
<1>4. /\ Len(row) = 7 /\ \A n \in 1 .. 7 : row[n][1] = 2
      /\ row[1][2] = offset + 33
      /\ row[2][2] = P!CurrentInstruction /\ row[3][2] = offset
      /\ row[4][2] = P!CurrentInstruction /\ row[5][2] = offset + 97
      /\ row[6][2] = entries[i].size /\ row[7][2] = P!CurrentInstruction
  <2>1. offset \in Int
    <3> HIDE DEF N, cells, offset, row
    <3>1. Len(cells) = 2 + 7 * N + 3 * N
      BY <1>2
    <3>2. base \in 0 .. Len(cells)
      BY SMTT(30), <1>1, <3>1
    <3> QED
      BY <1>3, <3>2
  <2> QED
    BY <2>1 DEF C!SignatureOffsets, C!CurrentInstruction, P!CurrentInstruction
<1>5. \A j : /\ C!Payload(entries[j])[1] = <<33, entries[j].publicKey>>
            /\ C!Payload(entries[j])[2] = <<64, entries[j].signature>>
            /\ C!Payload(entries[j])[3] = <<entries[j].size, entries[j].message>>
  BY DEF C!Payload
<1> HIDE DEF N, cells, offset, row
<1>6. ASSUME NEW c \in 1 .. Len(cells),
             \/ cells[c][1] > 0
             \/ (c > 1 => cells[c - 1][1] > 0) /\ (c < Len(cells) => cells[c + 1][1] > 0)
      PROVE  P!Slice(cells, at[c - 1], cells[c][1]) = {cells[c][2]}
  <2>1. /\ \A n \in 1 .. Len(cells) : cells[n][1] \in Nat
        /\ \A n \in 1 .. Len(cells) : at[n] = at[n - 1] + cells[n][1]
    BY <1>3
  <2>2. /\ cells \in Seq({cells[n] : n \in DOMAIN cells})
        /\ at[0] = 0 /\ \A n \in 0 .. Len(cells) : at[n] \in Int
    BY <1>2, <1>3
  <2>3. \/ cells[c][1] > 0
        \/ /\ c > 1 => cells[c - 1][1] > 0
           /\ c < Len(cells) => cells[c + 1][1] > 0
    BY <1>6
  <2> QED
    BY ZenonT(60), <2>1, <2>2, <2>3, SliceOfCell
<1>8. ASSUME NEW n \in 0 .. 6
      PROVE  P!TableField(data, i - 1, n) = row[n + 1][2]
  <2> DEFINE c == 2 + 7 * (i - 1) + (n + 1)
  <2>1. c \in 1 .. Len(cells) /\ n + 1 \in 1 .. 7
    <3>1. Len(cells) = 2 + 7 * N + 3 * N
      BY <1>2
    <3> QED
      BY <1>1, <3>1, RowPlace, Zenon
  <2>2. cells[c] = row[n + 1] /\ row[n + 1][1] = 2
    BY <1>2, <1>4, <2>1
  <2>3. at[c - 1] = 2 + 14 * (i - 1) + 2 * n
    <3>1. at[2 + 7 * (i - 1) + (n + 1) - 1] = 2 + 14 * (i - 1) + 2 * ((n + 1) - 1)
      BY <1>3, <2>1
    <3>2. 2 + 14 * (i - 1) + 2 * ((n + 1) - 1) = 2 + 14 * (i - 1) + 2 * n
      BY <1>1
    <3> QED
      BY <3>1, <3>2
  <2> HIDE DEF c
  <2>7. cells[c][1] > 0
    BY <2>2
  <2>4. P!Slice(cells, at[c - 1], cells[c][1]) = {cells[c][2]}
    BY <1>6, <2>1, <2>7, Zenon
  <2>6. cells[c][1] = 2 /\ cells[c][2] = row[n + 1][2]
    BY <2>2
  <2>5. P!Slice(cells, 2 + 14 * (i - 1) + 2 * n, 2) = {row[n + 1][2]}
    BY <2>3, <2>4, <2>6, Zenon
  <2> QED
    BY <2>5 DEF P!TableField, P!Sole, cells
<1>9. P!SelfContained(data, i - 1)
  <2>1. /\ P!TableField(data, i - 1, 1) = P!CurrentInstruction
        /\ P!TableField(data, i - 1, 3) = P!CurrentInstruction
        /\ P!TableField(data, i - 1, 6) = P!CurrentInstruction
    BY <1>4, <1>8
  <2> QED
    BY <2>1 DEF P!SelfContained
<1>10. /\ P!TableField(data, i - 1, 0) = offset + 33
       /\ P!TableField(data, i - 1, 2) = offset
       /\ P!TableField(data, i - 1, 4) = offset + 97
       /\ P!TableField(data, i - 1, 5) = entries[i].size
  BY <1>4, <1>8
<1>7. /\ base + 1 \in 1 .. Len(cells) /\ base + 2 \in 1 .. Len(cells)
      /\ base + 3 \in 1 .. Len(cells)
      /\ (base + 1) - 1 = base /\ (base + 2) - 1 = base + 1 /\ (base + 3) - 1 = base + 2
      /\ base + 3 < Len(cells) => i + 1 \in 1 .. N
      /\ (base + 3) + 1 = 2 + 7 * N + 3 * ((i + 1) - 1) + 1
  <2>1. Len(cells) = 2 + 7 * N + 3 * N
    BY <1>2
  <2> QED
    BY <1>1, <2>1
<1>14. /\ cells[base + 1][1] = 33 /\ cells[base + 1][2] = entries[i].publicKey
       /\ cells[base + 2][1] = 64 /\ cells[base + 2][2] = entries[i].signature
       /\ cells[base + 3][1] = entries[i].size /\ cells[base + 3][2] = entries[i].message
       /\ base + 3 < Len(cells) => cells[(base + 3) + 1][1] = 33
  <2>1. \A n \in 1 .. 3 : cells[base + n] = C!Payload(entries[i])[n]
    BY <1>1, <1>2
  <2>2. base + 3 < Len(cells) => cells[(base + 3) + 1] = C!Payload(entries[i + 1])[1]
    <3>1. ASSUME NEW j \in 1 .. N
          PROVE  cells[2 + 7 * N + 3 * (j - 1) + 1] = C!Payload(entries[j])[1]
      <4>1. 1 \in 1 .. 3
        OBVIOUS
      <4> QED
        BY <1>2, <4>1, Zenon
    <3> QED
      BY <1>7, <3>1, Zenon
  <2> HIDE DEF base
  <2>3. /\ cells[base + 1] = <<33, entries[i].publicKey>>
        /\ cells[base + 2] = <<64, entries[i].signature>>
        /\ cells[base + 3] = <<entries[i].size, entries[i].message>>
    <3>1. 1 \in 1 .. 3 /\ 2 \in 1 .. 3 /\ 3 \in 1 .. 3
      OBVIOUS
    <3> QED
      BY <1>5, <2>1, <3>1, Zenon
  <2>4. base + 3 < Len(cells) => cells[(base + 3) + 1] = <<33, entries[i + 1].publicKey>>
    BY <1>5, <2>2, Zenon
  <2> QED
    BY <2>3, <2>4
<1> HIDE DEF base
<1>11. P!PublicKeyData(data, i - 1) = {entries[i].publicKey}
  <2> DEFINE c == base + 1
  <2>1. /\ c \in 1 .. Len(cells) /\ at[c - 1] = offset /\ cells[c][1] = 33
        /\ cells[c][2] = entries[i].publicKey
    BY <1>3, <1>7, <1>14
  <2> HIDE DEF c
  <2>2. cells[c][1] > 0
    BY <2>1
  <2>3. P!Slice(cells, at[c - 1], cells[c][1]) = {cells[c][2]}
    BY <1>6, <2>1, <2>2, Zenon
  <2>4. P!Slice(cells, offset, 33) = {entries[i].publicKey}
    BY <2>1, <2>3, Zenon
  <2> QED
    BY <1>10, <2>4 DEF P!PublicKeyData, cells
<1>12. P!SignatureData(data, i - 1) = {entries[i].signature}
  <2> DEFINE c == base + 2
  <2>1. /\ c \in 1 .. Len(cells) /\ at[c - 1] = offset + 33 /\ cells[c][1] = 64
        /\ cells[c][2] = entries[i].signature
    BY <1>3, <1>7, <1>14
  <2> HIDE DEF c
  <2>2. cells[c][1] > 0
    BY <2>1
  <2>3. P!Slice(cells, at[c - 1], cells[c][1]) = {cells[c][2]}
    BY <1>6, <2>1, <2>2, Zenon
  <2>4. P!Slice(cells, offset + 33, 64) = {entries[i].signature}
    BY <2>1, <2>3, Zenon
  <2> QED
    BY <1>10, <2>4 DEF P!SignatureData, cells
<1>13. P!MessageData(data, i - 1) = {entries[i].message}
  <2> DEFINE c == base + 3
  <2>1. /\ c \in 1 .. Len(cells) /\ at[c - 1] = offset + 97 /\ cells[c][1] = entries[i].size
        /\ cells[c][2] = entries[i].message
        /\ cells[c - 1][1] = 64 /\ (c < Len(cells) => cells[c + 1][1] = 33)
    BY <1>3, <1>7, <1>14
  <2> HIDE DEF c
  <2>2. (c > 1 => cells[c - 1][1] > 0) /\ (c < Len(cells) => cells[c + 1][1] > 0)
    BY <2>1
  <2>3. P!Slice(cells, at[c - 1], cells[c][1]) = {cells[c][2]}
    BY <1>6, <2>1, <2>2, Zenon
  <2>4. P!Slice(cells, offset + 97, entries[i].size) = {entries[i].message}
    BY <2>1, <2>3, Zenon
  <2> QED
    BY <1>10, <2>4 DEF P!MessageData, cells
<1> QED
  BY <1>9, <1>10, <1>11, <1>12, <1>13

(***************************************************************************)
(* The precompile verifies an instruction that the SDK makes exactly if it *)
(* takes that many entries and the signature of each is good.              *)
(***************************************************************************)
LEMMA PrecompileVerdict ==
    ASSUME NEW S, NEW entries \in Seq(S), \A n \in 1 .. Len(entries) : entries[n].size \in Nat
    PROVE  P!PrecompileVerifies(C!Secp256r1VerifyInstructionData(entries)) <=>
            /\ Len(entries) \in 1 .. MaxSignatures
            /\ \A i \in 1 .. Len(entries) :
                    P!SignedBy(entries[i].signature, entries[i].publicKey, entries[i].message)
<1> DEFINE N == Len(entries)
           data == C!Secp256r1VerifyInstructionData(entries)
           good(i) == P!SignedBy(entries[i].signature, entries[i].publicKey, entries[i].message)
           checked(j) ==
              /\ P!SelfContained(data, j)
              /\ \E signature \in P!SignatureData(data, j), key \in P!PublicKeyData(data, j),
                    message \in P!MessageData(data, j) : P!SignedBy(signature, key, message)
<1>1. N \in Nat /\ P!NumSignatures(data) = N
  BY CountRead
<1>2. ASSUME NEW i \in 1 .. N PROVE checked(i - 1) <=> good(i)
  <2>1. /\ P!SelfContained(data, i - 1)
        /\ P!SignatureData(data, i - 1) = {entries[i].signature}
        /\ P!PublicKeyData(data, i - 1) = {entries[i].publicKey}
        /\ P!MessageData(data, i - 1) = {entries[i].message}
    BY EntryFound
  <2> HIDE DEF data
  <2> QED
    BY <2>1
<1>3. P!PrecompileVerifies(data) <=>
        N \in 1 .. MaxSignatures /\ \A j \in 0 .. N - 1 : checked(j)
  BY <1>1 DEF P!PrecompileVerifies
<1> HIDE DEF N, data, good, checked
<1>4. (\A j \in 0 .. N - 1 : checked(j)) <=> \A i \in 1 .. N : good(i)
  <2>1. ASSUME \A j \in 0 .. N - 1 : checked(j), NEW i \in 1 .. N PROVE good(i)
    <3>1. i - 1 \in 0 .. N - 1
      BY <1>1
    <3> QED
      BY <1>2, <2>1, <3>1
  <2>2. ASSUME \A i \in 1 .. N : good(i), NEW j \in 0 .. N - 1 PROVE checked(j)
    <3>1. j + 1 \in 1 .. N /\ (j + 1) - 1 = j
      BY <1>1
    <3>2. checked((j + 1) - 1)
      BY <1>2, <2>2, <3>1
    <3> QED
      BY <3>1, <3>2
  <2> QED
    BY <2>1, <2>2
<1> QED
  BY <1>3, <1>4 DEF N, data, good

\* The entry that a tap makes.
Parsed(key, tap) ==
    [publicKey |-> key, message |-> C!BuildSecp256r1Message(tap), size |-> C!MessageSize,
     signature |-> <<"signature", tap.candidates, C!BuildSecp256r1Message(tap)>>]

(***************************************************************************)
(* The arrays a caller may start from hold entries with a size.            *)
(***************************************************************************)
LEMMA EntriesBefore ==
    ASSUME NEW existing \in Existing
    PROVE  /\ \E S : existing.entries \in Seq(S)
           /\ \A i \in 1 .. Len(existing.entries) : existing.entries[i].size \in Nat
<1> DEFINE held(array) ==
            /\ \E S : array.entries \in Seq(S)
            /\ \A i \in 1 .. Len(array.entries) : array.entries[i].size \in Nat
<1>1. ASSUME NEW array \in Arrays
      PROVE  /\ array \in [given : BOOLEAN,
                           entries : Seq({array.entries[i] : i \in DOMAIN array.entries})]
             /\ \A i \in DOMAIN array.entries : array.entries[i].size \in Nat
  BY TapAssumption
<1>2. ASSUME NEW array \in Arrays PROVE held(array)
  <2>1. array.entries \in Seq({array.entries[i] : i \in DOMAIN array.entries})
    BY <1>1
  <2>2. DOMAIN array.entries = 1 .. Len(array.entries)
    BY <2>1
  <2> QED
    BY <1>1, <2>1, <2>2
<1>3. ASSUME NEW array \in Arrays, NEW key, NEW tap
      PROVE  held(C!BuildSecp256r1VerifyInstructionFromWebAuthnResponse(
                    key, tap, array).existing)
  <2> DEFINE parsed == Parsed(key, tap)
             after == C!BuildSecp256r1VerifyInstructionFromWebAuthnResponse(
                        key, tap, array).existing
  <2>1. after = [array EXCEPT !.entries = IF array.entries # <<>>
                                          THEN Append(array.entries, parsed) ELSE @]
    BY DEF C!BuildSecp256r1VerifyInstructionFromWebAuthnResponse, Parsed
  <2>2. after.entries = (IF array.entries # <<>> THEN Append(array.entries, parsed)
                         ELSE array.entries)
    BY <1>1, <2>1
  <2>3. parsed.size = 69
    BY DEF C!MessageSize, Parsed
  <2> HIDE DEF after, parsed
  <2>4. CASE array.entries = <<>>
    BY <1>2, <2>2, <2>4 DEF after
  <2>5. CASE array.entries # <<>>
    <3>1. PICK S : array.entries \in Seq(S)
      BY <1>2
    <3>2. array.entries \in Seq(S \cup {parsed})
      BY <3>1
    <3>3. /\ after.entries = Append(array.entries, parsed)
          /\ after.entries \in Seq(S \cup {parsed})
      BY <2>2, <2>5, <3>2
    <3>4. /\ Len(after.entries) = Len(array.entries) + 1 /\ Len(array.entries) \in Nat
          /\ after.entries[Len(array.entries) + 1] = parsed
          /\ \A i \in 1 .. Len(array.entries) : after.entries[i] = array.entries[i]
      BY <3>2, <3>3
    <3>5. \A i \in 1 .. Len(array.entries) : array.entries[i].size \in Nat
      BY <1>2
    <3>6. \A i \in 1 .. Len(after.entries) : after.entries[i].size \in Nat
      BY <2>3, <3>4, <3>5
    <3> QED
      BY <3>3, <3>6 DEF after
  <2> QED
    BY <2>4, <2>5
<1> HIDE DEF held
<1>4. held(existing)
  BY <1>2, <1>3 DEF Existing
<1> QED
  BY <1>4 DEF held

\* The entries of what is built of a tap: behind those of the array, unless the
\* caller gave one that is empty, which then stays so.
Lost(existing) == existing.given /\ existing.entries = <<>>
EntriesOf(existing, key, tap) ==
    IF existing.entries # <<>> THEN Append(existing.entries, Parsed(key, tap))
    ELSE IF existing.given THEN existing.entries ELSE <<Parsed(key, tap)>>

(***************************************************************************)
(* What is built of a tap holds the array's entries and then its own, at   *)
(* the index it names, unless the array was given empty.                   *)
(***************************************************************************)
LEMMA TapEntered ==
    ASSUME NEW existing \in Existing, NEW key, NEW tap
    PROVE  LET built == C!BuildSecp256r1VerifyInstructionFromWebAuthnResponse(key, tap, existing)
               entries == EntriesOf(existing, key, tap)
               N == Len(existing.entries)
           IN /\ built.clientDataJson = C!ClientDataJson(tap)
              /\ built.instruction.program = C!Secp256r1Program
              /\ built.instruction.data = C!Secp256r1VerifyInstructionData(entries)
              /\ built.signedMessageIndex = N /\ N \in Nat
              /\ existing.entries = <<>> <=> N = 0
              /\ \E S : entries \in Seq(S)
              /\ \A i \in 1 .. Len(entries) : entries[i].size \in Nat
              /\ \A i \in 1 .. N : entries[i] = existing.entries[i]
              /\ IF Lost(existing) THEN Len(entries) = 0
                 ELSE Len(entries) = N + 1 /\ entries[N + 1] = Parsed(key, tap)
<1> DEFINE parsed == Parsed(key, tap)
           built == C!BuildSecp256r1VerifyInstructionFromWebAuthnResponse(key, tap, existing)
           entries == EntriesOf(existing, key, tap)
           N == Len(existing.entries)
<1>1. parsed.size = 69
  BY DEF C!MessageSize, Parsed
<1>2. PICK S : existing.entries \in Seq(S)
  BY EntriesBefore
<1>3. N \in Nat /\ (existing.entries = <<>> <=> N = 0)
  BY <1>2
<1>4. /\ built.clientDataJson = C!ClientDataJson(tap)
      /\ built.signedMessageIndex = IF existing.entries # <<>> THEN N ELSE 0
      /\ built.instruction = C!GetSecp256r1VerifyInstruction(entries)
  BY DEF C!BuildSecp256r1VerifyInstructionFromWebAuthnResponse, EntriesOf, Parsed
<1>5. /\ built.instruction.program = C!Secp256r1Program
      /\ built.instruction.data = C!Secp256r1VerifyInstructionData(entries)
  BY <1>4 DEF C!GetSecp256r1VerifyInstruction, C!Instruction
<1>6. /\ \E T : entries \in Seq(T)
      /\ \A i \in 1 .. Len(entries) : entries[i].size \in Nat
      /\ \A i \in 1 .. N : entries[i] = existing.entries[i]
      /\ IF Lost(existing) THEN Len(entries) = 0
         ELSE Len(entries) = N + 1 /\ entries[N + 1] = parsed
  <2>1. CASE existing.entries = <<>> /\ existing.given
    <3>1. entries = <<>> /\ Lost(existing)
      BY <2>1 DEF EntriesOf, Lost
    <3> HIDE DEF entries
    <3>2. entries \in Seq({}) /\ Len(entries) = 0
      BY <3>1
    <3>3. \E T : entries \in Seq(T)
      BY <3>2
    <3> QED
      BY <1>3, <2>1, <3>1, <3>2, <3>3
  <2>2. CASE existing.entries = <<>> /\ ~existing.given
    <3>1. entries = <<parsed>> /\ ~Lost(existing)
      BY <2>2 DEF EntriesOf, Lost
    <3> HIDE DEF entries, parsed
    <3>2. entries \in Seq({parsed}) /\ Len(entries) = 1 /\ entries[1] = parsed
      BY <3>1
    <3>3. \E T : entries \in Seq(T)
      BY <3>2
    <3> QED
      BY <1>1, <1>3, <2>2, <3>1, <3>2, <3>3
  <2>3. CASE existing.entries # <<>>
    <3>1. entries = Append(existing.entries, parsed) /\ ~Lost(existing)
      BY <2>3 DEF EntriesOf, Lost
    <3> HIDE DEF entries, parsed
    <3>3. existing.entries \in Seq(S \cup {parsed})
      BY <1>2
    <3>4. /\ entries \in Seq(S \cup {parsed})
          /\ Len(entries) = N + 1 /\ entries[N + 1] = parsed
          /\ \A i \in 1 .. N : entries[i] = existing.entries[i]
      BY <3>1, <3>3
    <3>5. \A i \in 1 .. N : existing.entries[i].size \in Nat
      BY EntriesBefore
    <3>6. \A i \in 1 .. Len(entries) : entries[i].size \in Nat
      BY <1>1, <1>3, <3>4, <3>5
    <3>7. \E T : entries \in Seq(T)
      BY <3>4
    <3> QED
      BY <3>1, <3>4, <3>6, <3>7
  <2> QED
    BY <2>1, <2>2, <2>3
<1> HIDE DEF entries, parsed, built, N
<1>7. built.signedMessageIndex = N
  BY <1>3, <1>4
<1> QED
  BY <1>3, <1>4, <1>5, <1>6, <1>7 DEF entries, parsed, built, N

(***************************************************************************)
(* What the program reads of that instruction at the index that goes with  *)
(* it: the key and the message of the tap, or that there is none.  The     *)
(* precompile verifies it if the array's signatures are good and leave     *)
(* room for the tap's, which is of the key.                                *)
(***************************************************************************)
LEMMA TapRead ==
    ASSUME NEW existing \in Existing, NEW key, NEW tap, key \in tap.candidates
    PROVE  LET built == C!BuildSecp256r1VerifyInstructionFromWebAuthnResponse(key, tap, existing)
               data == built.instruction.data
               i == built.signedMessageIndex
               earlier == existing.entries
           IN /\ built.instruction.program = C!Secp256r1Program
              /\ built.clientDataJson = C!ClientDataJson(tap)
              /\ P!EntryError(data, i) =
                    IF Lost(existing) THEN "SignatureIndexOutOfBounds" ELSE "none"
              /\ ~Lost(existing) =>
                    /\ P!PublicKeyData(data, i) = {key}
                    /\ P!MessageData(data, i) = {C!BuildSecp256r1Message(tap)}
              /\ P!PrecompileVerifies(data) <=>
                    /\ ~Lost(existing) /\ Len(earlier) < MaxSignatures
                    /\ \A j \in DOMAIN earlier :
                        P!SignedBy(earlier[j].signature, earlier[j].publicKey, earlier[j].message)
<1> DEFINE built == C!BuildSecp256r1VerifyInstructionFromWebAuthnResponse(key, tap, existing)
           i == built.signedMessageIndex
           earlier == existing.entries
           N == Len(earlier)
           entries == EntriesOf(existing, key, tap)
           own == Parsed(key, tap)
           message == C!BuildSecp256r1Message(tap)
           data == C!Secp256r1VerifyInstructionData(entries)
           good(entry) == P!SignedBy(entry.signature, entry.publicKey, entry.message)
<1>1. /\ built.clientDataJson = C!ClientDataJson(tap)
      /\ built.instruction.program = C!Secp256r1Program
      /\ built.instruction.data = data
      /\ i = N /\ N \in Nat
      /\ \A j \in 1 .. Len(entries) : entries[j].size \in Nat
      /\ \A j \in 1 .. N : entries[j] = earlier[j]
      /\ IF Lost(existing) THEN Len(entries) = 0 ELSE Len(entries) = N + 1 /\ entries[N + 1] = own
      /\ existing.entries = <<>> <=> N = 0
  BY TapEntered
<1>2. PICK S : entries \in Seq(S)
  BY TapEntered
<1>3. /\ own.publicKey = key /\ own.message = message /\ own.size = 69
      /\ own.signature = <<"signature", tap.candidates, message>>
  BY DEF Parsed, C!MessageSize
<1>4. good(own)
  <2> HIDE DEF message, own
  <2>1. P!SignedBy(<<"signature", tap.candidates, message>>, key, message)
    BY DEF P!SignedBy
  <2> QED
    BY <1>3, <2>1
<1>5. DOMAIN earlier = 1 .. N
  <2>1. PICK T : existing.entries \in Seq(T)
    BY EntriesBefore
  <2> QED
    BY <2>1
<1>6. P!NumSignatures(data) = Len(entries)
  BY <1>1, <1>2, CountRead
<1>7. P!PrecompileVerifies(data) <=>
        Len(entries) \in 1 .. MaxSignatures /\ \A j \in 1 .. Len(entries) : good(entries[j])
  BY <1>1, <1>2, PrecompileVerdict
<1> HIDE DEF good, data, entries, own, N, earlier, built, i, message
<1>8. MaxSignatures \in Nat
  BY InterfaceAssumption
<1>9. CASE Lost(existing)
  <2>1. Len(entries) = 0 /\ ~(Len(entries) \in 1 .. MaxSignatures)
    BY <1>1, <1>8, <1>9
  <2>2. N = 0
    BY <1>1, <1>9 DEF Lost
  <2>3. P!EntryError(data, i) = "SignatureIndexOutOfBounds"
    BY <1>1, <1>6, <2>1, <2>2 DEF P!EntryError
  <2> QED
    BY <1>1, <1>7, <1>9, <2>1, <2>3 DEF built, i, earlier, data, good
<1>10. CASE ~Lost(existing)
  <2>1. Len(entries) = N + 1 /\ entries[N + 1] = own /\ N + 1 \in 1 .. Len(entries)
    BY <1>1, <1>10
  <2>2. /\ P!SelfContained(data, (N + 1) - 1)
        /\ P!TableField(data, (N + 1) - 1, 5) = entries[N + 1].size
        /\ P!PublicKeyData(data, (N + 1) - 1) = {entries[N + 1].publicKey}
        /\ P!MessageData(data, (N + 1) - 1) = {entries[N + 1].message}
    BY <1>1, <1>2, <2>1, EntryFound DEF data
  <2>3. (N + 1) - 1 = i
    BY <1>1
  <2>4. /\ P!SelfContained(data, i) /\ P!TableField(data, i, 5) = 69
        /\ P!PublicKeyData(data, i) = {key} /\ P!MessageData(data, i) = {message}
    BY <1>3, <2>1, <2>2, <2>3
  <2>5. P!EntryError(data, i) = "none"
    <3>1. ~(i >= P!NumSignatures(data))
      BY <1>1, <1>6, <2>1
    <3>2. ~(P!TableField(data, i, 5) < P!MinMessageLen)
      BY <2>4 DEF P!MinMessageLen
    <3> QED
      BY <2>4, <3>1, <3>2 DEF P!EntryError
  <2>6. Len(entries) \in 1 .. MaxSignatures <=> N < MaxSignatures
    BY <1>1, <1>8, <2>1
  <2>7. (\A j \in 1 .. Len(entries) : good(entries[j])) <=> \A j \in 1 .. N : good(earlier[j])
    <3>1. ASSUME \A j \in 1 .. Len(entries) : good(entries[j]), NEW j \in 1 .. N
          PROVE  good(earlier[j])
      <4>1. j \in 1 .. Len(entries) /\ entries[j] = earlier[j]
        BY <1>1, <2>1
      <4> QED
        BY <3>1, <4>1
    <3>2. ASSUME \A j \in 1 .. N : good(earlier[j]), NEW j \in 1 .. Len(entries)
          PROVE  good(entries[j])
      <4>1. j = N + 1 \/ j \in 1 .. N
        BY <1>1, <2>1
      <4> QED
        BY <1>1, <1>4, <2>1, <3>2, <4>1
    <3> QED
      BY <3>1, <3>2
  <2>8. P!PrecompileVerifies(data) <=>
            /\ ~Lost(existing) /\ N < MaxSignatures
            /\ \A j \in DOMAIN earlier : good(earlier[j])
    BY <1>5, <1>7, <1>10, <2>6, <2>7
  <2> QED
    BY <1>1, <1>10, <2>4, <2>5, <2>8 DEF built, i, earlier, data, good, N, message
<1> QED
  BY <1>9, <1>10

(***************************************************************************)
(* Short sequences, one after another.                                     *)
(***************************************************************************)
LEMMA Joined ==
    ASSUME NEW x, NEW y, NEW z
    PROVE  /\ Len(<<x>> \o <<y>>) = 2 /\ DOMAIN (<<x>> \o <<y>>) = {1, 2}
           /\ (<<x>> \o <<y>>)[1] = x /\ (<<x>> \o <<y>>)[2] = y
           /\ Len(<<x>> \o <<y, z>>) = 3 /\ DOMAIN (<<x>> \o <<y, z>>) = {1, 2, 3}
           /\ (<<x>> \o <<y, z>>)[1] = x /\ (<<x>> \o <<y, z>>)[2] = y
           /\ (<<x>> \o <<y, z>>)[3] = z
           /\ Len(<<x>> \o <<y>> \o <<z>>) = 3
           /\ DOMAIN (<<x>> \o <<y>> \o <<z>>) = {1, 2, 3}
           /\ (<<x>> \o <<y>> \o <<z>>)[1] = x /\ (<<x>> \o <<y>> \o <<z>>)[2] = y
           /\ (<<x>> \o <<y>> \o <<z>>)[3] = z
<1> DEFINE S == {x, y, z}
           s == <<x>>
           t == <<y>>
           u == <<z>>
           v == <<y, z>>
<1>1. /\ s \in Seq(S) /\ Len(s) = 1 /\ s[1] = x /\ t \in Seq(S) /\ Len(t) = 1 /\ t[1] = y
      /\ u \in Seq(S) /\ Len(u) = 1 /\ u[1] = z
      /\ v \in Seq(S) /\ Len(v) = 2 /\ v[1] = y /\ v[2] = z
  OBVIOUS
<1> HIDE DEF S, s, t, u, v
<1>2. /\ s \o t \in Seq(S) /\ Len(s \o t) = 2
      /\ \A i \in 1 .. 2 : (s \o t)[i] = IF i <= 1 THEN s[i] ELSE t[i - 1]
  BY <1>1, ConcatProperties
<1>3. /\ s \o v \in Seq(S) /\ Len(s \o v) = 3
      /\ \A i \in 1 .. 3 : (s \o v)[i] = IF i <= 1 THEN s[i] ELSE v[i - 1]
  <2>1. /\ s \o v \in Seq(S) /\ Len(s \o v) = Len(s) + Len(v)
        /\ \A i \in 1 .. Len(s) + Len(v) :
                (s \o v)[i] = IF i <= Len(s) THEN s[i] ELSE v[i - Len(s)]
    BY <1>1, ConcatProperties, Zenon
  <2> QED
    BY <1>1, <2>1
<1>4. /\ s \o t \o u \in Seq(S) /\ Len(s \o t \o u) = 3
      /\ \A i \in 1 .. 3 : (s \o t \o u)[i] = IF i <= 2 THEN (s \o t)[i] ELSE u[i - 2]
  <2> DEFINE w == s \o t
  <2>1. w \in Seq(S) /\ Len(w) = 2
    BY <1>2
  <2> HIDE DEF w
  <2>2. /\ w \o u \in Seq(S) /\ Len(w \o u) = 3
        /\ \A i \in 1 .. 3 : (w \o u)[i] = IF i <= 2 THEN w[i] ELSE u[i - 2]
    BY <1>1, <2>1, ConcatProperties
  <2> QED
    BY <2>2 DEF w
<1>5. DOMAIN (s \o t) = {1, 2} /\ DOMAIN (s \o v) = {1, 2, 3} /\ DOMAIN (s \o t \o u) = {1, 2, 3}
  BY <1>2, <1>3, <1>4
<1>6. /\ (s \o t)[1] = x /\ (s \o t)[2] = y
      /\ (s \o v)[1] = x /\ (s \o v)[2] = y /\ (s \o v)[3] = z
  <2>1. 1 \in 1 .. 2 /\ 2 \in 1 .. 2 /\ 1 \in 1 .. 3 /\ 2 \in 1 .. 3 /\ 3 \in 1 .. 3
    OBVIOUS
  <2>2. /\ (s \o t)[1] = s[1] /\ (s \o t)[2] = t[2 - 1]
        /\ (s \o v)[1] = s[1] /\ (s \o v)[2] = v[2 - 1] /\ (s \o v)[3] = v[3 - 1]
    BY <1>2, <1>3, <2>1
  <2> QED
    BY <1>1, <2>2
<1>7. (s \o t \o u)[1] = x /\ (s \o t \o u)[2] = y /\ (s \o t \o u)[3] = z
  <2> DEFINE w == s \o t
             r == s \o t \o u
  <2>1. \A i \in 1 .. 3 : r[i] = IF i <= 2 THEN w[i] ELSE u[i - 2]
    BY <1>4
  <2>2. w[1] = x /\ w[2] = y
    BY <1>6
  <2> HIDE DEF w, r
  <2>3. r[1] = x /\ r[2] = y /\ r[3] = z
    BY <1>1, <2>1, <2>2
  <2> QED
    BY <2>3 DEF r
<1> QED
  BY <1>2, <1>3, <1>4, <1>5, <1>6, <1>7 DEF s, t, u, v

(***************************************************************************)
(* With a precompile instruction and one that calls the program, the       *)
(* signatures of a transaction are verified if those of the first are.     *)
(***************************************************************************)
LEMMA SentVerified ==
    ASSUME NEW first, first.program = Secp256r1Program, NEW last, NEW shape,
           [last EXCEPT !.metas = Listed(@, shape)].program = Main
    PROVE  LET sent == Shaped(<<first>>, last, shape)
           IN (\A i \in DOMAIN sent : Verifies(sent[i])) <=> P!PrecompileVerifies(first.data)
<1> DEFINE own == [last EXCEPT !.metas = Listed(@, shape)]
           sent == Shaped(<<first>>, last, shape)
<1>1. /\ Verifies(Stranger) /\ Verifies(own)
      /\ Verifies(first) <=> P!PrecompileVerifies(first.data)
  <2>1. Stranger.program # Secp256r1Program /\ Main # Secp256r1Program
    BY DEF Stranger, Instruction, Secp256r1Program, Main
  <2> HIDE DEF own
  <2> QED
    BY <2>1 DEF Verifies, own
<1>2. sent = IF shape = "behind" THEN <<Stranger>> \o <<first>> \o <<own>>
             ELSE IF shape = "apart" THEN <<first>> \o <<Stranger, own>>
             ELSE <<first>> \o <<own>>
  BY DEF Shaped
<1> HIDE DEF own, sent
<1>3. CASE shape = "behind"
  <2> DEFINE three == <<Stranger>> \o <<first>> \o <<own>>
  <2>1. /\ DOMAIN three = {1, 2, 3}
        /\ three[1] = Stranger /\ three[2] = first /\ three[3] = own
    BY Joined
  <2>2. sent = three
    BY <1>2, <1>3
  <2> HIDE DEF three
  <2> QED
    BY <1>1, <2>1, <2>2 DEF sent
<1>4. CASE shape = "apart"
  <2> DEFINE three == <<first>> \o <<Stranger, own>>
  <2>1. /\ DOMAIN three = {1, 2, 3}
        /\ three[1] = first /\ three[2] = Stranger /\ three[3] = own
    BY Joined
  <2>2. sent = three
    BY <1>2, <1>4
  <2> HIDE DEF three
  <2> QED
    BY <1>1, <2>1, <2>2 DEF sent
<1>5. CASE shape # "behind" /\ shape # "apart"
  <2> DEFINE two == <<first>> \o <<own>>
  <2>1. DOMAIN two = {1, 2} /\ two[1] = first /\ two[2] = own
    BY Joined
  <2>2. sent = two
    BY <1>2, <1>5
  <2> HIDE DEF two
  <2> QED
    BY <1>1, <2>1, <2>2 DEF sent
<1> QED
  BY <1>3, <1>4, <1>5


(***************************************************************************)
(* Of the instructions that go before it, the one that calls finds the     *)
(* precompile's where it stands: two places before when a stranger's parts *)
(* them, and the place before otherwise.                                   *)
(***************************************************************************)
LEMMA PrecompileFound ==
    ASSUME NEW first, first.program = Secp256r1Program, NEW last, NEW shape,
           NEW relative \in {-1, -2}
    PROVE  LET sent == Shaped(<<first>>, last, shape)
           IN {ix \in P!RelativeInstruction(sent, Len(sent), relative) :
                    ix.program = P!Secp256r1Program}
                = IF relative = (IF shape = "apart" THEN -2 ELSE -1) THEN {first} ELSE {}
<1> DEFINE own == [last EXCEPT !.metas = Listed(@, shape)]
           sent == Shaped(<<first>>, last, shape)
           found == {ix \in P!RelativeInstruction(sent, Len(sent), relative) :
                        ix.program = P!Secp256r1Program}
<1>1. Stranger.program # P!Secp256r1Program /\ first.program = P!Secp256r1Program
  BY DEF Stranger, Instruction, P!Secp256r1Program, Secp256r1Program
<1>2. sent = IF shape = "behind" THEN <<Stranger>> \o <<first>> \o <<own>>
             ELSE IF shape = "apart" THEN <<first>> \o <<Stranger, own>>
             ELSE <<first>> \o <<own>>
  BY DEF Shaped
<1> HIDE DEF own, sent
<1>4. found = {ix \in {sent[i] : i \in {Len(sent) + relative} \cap DOMAIN sent} :
                ix.program = P!Secp256r1Program}
  BY DEF P!RelativeInstruction
<1>5. CASE shape = "behind"
  <2>1. sent = <<Stranger>> \o <<first>> \o <<own>>
    BY <1>2, <1>5
  <2>2. Len(sent) = 3 /\ DOMAIN sent = {1, 2, 3} /\ sent[1] = Stranger /\ sent[2] = first
    <3> DEFINE three == <<Stranger>> \o <<first>> \o <<own>>
    <3>1. /\ Len(three) = 3 /\ DOMAIN three = {1, 2, 3}
          /\ three[1] = Stranger /\ three[2] = first
      BY Joined
    <3> HIDE DEF three
    <3> QED
      BY <2>1, <3>1 DEF three
  <2>3. CASE relative = -1
    <3>1. {Len(sent) + relative} \cap DOMAIN sent = {2}
      BY <2>2, <2>3
    <3> QED
      BY <1>1, <1>4, <1>5, <2>2, <2>3, <3>1 DEF sent
  <2>4. CASE relative = -2
    <3>1. {Len(sent) + relative} \cap DOMAIN sent = {1}
      BY <2>2, <2>4
    <3> QED
      BY <1>1, <1>4, <1>5, <2>2, <2>4, <3>1 DEF sent
  <2> QED
    BY <2>3, <2>4
<1>6. CASE shape = "apart"
  <2>1. sent = <<first>> \o <<Stranger, own>>
    BY <1>2, <1>6
  <2>2. Len(sent) = 3 /\ DOMAIN sent = {1, 2, 3} /\ sent[1] = first /\ sent[2] = Stranger
    <3> DEFINE three == <<first>> \o <<Stranger, own>>
    <3>1. /\ Len(three) = 3 /\ DOMAIN three = {1, 2, 3}
          /\ three[1] = first /\ three[2] = Stranger
      BY Joined
    <3> HIDE DEF three
    <3> QED
      BY <2>1, <3>1 DEF three
  <2>3. CASE relative = -1
    <3>1. {Len(sent) + relative} \cap DOMAIN sent = {2}
      BY <2>2, <2>3
    <3> QED
      BY <1>1, <1>4, <1>6, <2>2, <2>3, <3>1 DEF sent
  <2>4. CASE relative = -2
    <3>1. {Len(sent) + relative} \cap DOMAIN sent = {1}
      BY <2>2, <2>4
    <3> QED
      BY <1>1, <1>4, <1>6, <2>2, <2>4, <3>1 DEF sent
  <2> QED
    BY <2>3, <2>4
<1>7. CASE shape # "behind" /\ shape # "apart"
  <2>1. sent = <<first>> \o <<own>>
    BY <1>2, <1>7
  <2>2. Len(sent) = 2 /\ DOMAIN sent = {1, 2} /\ sent[1] = first
    <3> DEFINE two == <<first>> \o <<own>>
    <3>1. Len(two) = 2 /\ DOMAIN two = {1, 2} /\ two[1] = first
      BY Joined
    <3> HIDE DEF two
    <3> QED
      BY <2>1, <3>1 DEF two
  <2>3. CASE relative = -1
    <3>1. {Len(sent) + relative} \cap DOMAIN sent = {1}
      BY <2>2, <2>3
    <3> QED
      BY <1>1, <1>4, <1>7, <2>2, <2>3, <3>1 DEF sent
  <2>4. CASE relative = -2
    <3>1. {Len(sent) + relative} \cap DOMAIN sent = {}
      BY <2>2, <2>4
    <3> QED
      BY <1>4, <1>7, <2>4, <3>1 DEF sent
  <2> QED
    BY <2>3, <2>4
<1> QED
  BY <1>5, <1>6, <1>7

(***************************************************************************)
(* A tap is by one of the keys, over the challenge it was asked for.       *)
(***************************************************************************)
LEMMA TapsMade ==
    ASSUME NEW challenge, NEW tap \in Taps(challenge)
    PROVE  /\ tap.signer \in Keys /\ tap.challenge = challenge /\ tap.signer \in tap.candidates
           /\ \/ tap.id = tap.signer
              \/ /\ tap.id = C!Placeholder
                 /\ \/ tap.candidates = {tap.signer}
                    \/ tap.candidates = {tap.signer, NobodysKey}
<1> DEFINE made(key, id, candidates) ==
            [id |-> id, signer |-> key, candidates |-> candidates, challenge |-> challenge]
<1>1. PICK key \in Keys :
        tap \in {made(key, key, {key}), made(key, C!Placeholder, {key}),
                 made(key, C!Placeholder, {key, NobodysKey})}
  BY DEF Taps
<1> HIDE DEF made
<1>2. \A id, candidates :
        /\ made(key, id, candidates).signer = key /\ made(key, id, candidates).id = id
        /\ made(key, id, candidates).challenge = challenge
        /\ made(key, id, candidates).candidates = candidates
  BY DEF made
<1> QED
  BY <1>1, <1>2

(***************************************************************************)
(* What both sides make of a challenge, and of the client data over it, is *)
(* the same.                                                               *)
(***************************************************************************)
LEMMA ChallengesMatch ==
    /\ \A token, recipient, hash :
        P!BuildSetOwnerChallenge(token, recipient, hash) =
            C!BuildTransferChallenge(token, recipient, hash)
    /\ \A hash : P!BuildVerifyChallenge(hash) = C!BuildVerifyChallenge(hash)
    /\ \A slot : P!SlotHash(slot) = SlotHash(slot)
    /\ \A tap : C!ClientDataJson(tap)[2] = tap.challenge
    /\ \A tap : P!Covers(C!BuildSecp256r1Message(tap), C!ClientDataJson(tap))
<1>1. ASSUME NEW token, NEW recipient, NEW hash
      PROVE  P!BuildSetOwnerChallenge(token, recipient, hash) =
                C!BuildTransferChallenge(token, recipient, hash)
  BY DEF P!BuildSetOwnerChallenge, C!BuildTransferChallenge
<1>2. ASSUME NEW hash PROVE P!BuildVerifyChallenge(hash) = C!BuildVerifyChallenge(hash)
  BY Zenon DEF P!BuildVerifyChallenge, C!BuildVerifyChallenge
<1>3. ASSUME NEW slot PROVE P!SlotHash(slot) = SlotHash(slot)
  BY DEF P!SlotHash, SlotHash
<1>4. ASSUME NEW tap PROVE C!ClientDataJson(tap)[2] = tap.challenge
  <2>1. \A a, b : <<a, b>>[2] = b
    OBVIOUS
  <2> QED
    BY <2>1, Zenon DEF C!ClientDataJson
<1>5. ASSUME NEW tap PROVE P!Covers(C!BuildSecp256r1Message(tap), C!ClientDataJson(tap))
  BY Zenon DEF P!Covers, C!BuildSecp256r1Message
<1> QED
  BY <1>1, <1>2, <1>3, <1>4, <1>5

(***************************************************************************)
(* What the program makes of a tap sent as the SDK says: nothing is wrong  *)
(* with it where the caller told the program to look, unless it was left   *)
(* out.                                                                    *)
(***************************************************************************)
LEMMA TapChecked ==
    ASSUME NEW existing \in Existing, NEW key, NEW tap, key \in tap.candidates, NEW last, NEW shape,
           NEW relative \in {-1, -2}, NEW args,
           args.verifyArgsRelativeIndex = relative,
           LET built == C!BuildSecp256r1VerifyInstructionFromWebAuthnResponse(key, tap, existing)
           IN /\ args.signedMessageIndex = built.signedMessageIndex
              /\ args.clientDataJson = built.clientDataJson
    PROVE  LET built == C!BuildSecp256r1VerifyInstructionFromWebAuthnResponse(key, tap, existing)
               sent == Shaped(<<built.instruction>>, last, shape)
           IN P!AssertionError(sent, Len(sent), args, tap.challenge, key) =
                IF relative # (IF shape = "apart" THEN -2 ELSE -1)
                THEN "InvalidSecp256r1Instruction"
                ELSE IF Lost(existing) THEN "SignatureIndexOutOfBounds" ELSE "none"
<1> DEFINE built == C!BuildSecp256r1VerifyInstructionFromWebAuthnResponse(key, tap, existing)
           first == built.instruction
           sent == Shaped(<<first>>, last, shape)
           found == {ix \in P!RelativeInstruction(sent, Len(sent), relative) :
                        ix.program = P!Secp256r1Program}
           i == args.signedMessageIndex
<1>1. /\ first.program = C!Secp256r1Program
      /\ P!EntryError(first.data, i) =
            IF Lost(existing) THEN "SignatureIndexOutOfBounds" ELSE "none"
      /\ ~Lost(existing) =>
            /\ P!PublicKeyData(first.data, i) = {key}
            /\ P!MessageData(first.data, i) = {C!BuildSecp256r1Message(tap)}
      /\ args.clientDataJson = C!ClientDataJson(tap)
  <2>1. /\ first.program = C!Secp256r1Program
        /\ built.clientDataJson = C!ClientDataJson(tap)
        /\ P!EntryError(first.data, built.signedMessageIndex) =
            IF Lost(existing) THEN "SignatureIndexOutOfBounds" ELSE "none"
        /\ ~Lost(existing) =>
            /\ P!PublicKeyData(first.data, built.signedMessageIndex) = {key}
            /\ P!MessageData(first.data, built.signedMessageIndex)
                = {C!BuildSecp256r1Message(tap)}
    BY SMTT(30), TapRead
  <2>2. /\ args.signedMessageIndex = built.signedMessageIndex
        /\ args.clientDataJson = built.clientDataJson
    OBVIOUS
  <2> HIDE DEF built
  <2> QED
    BY <2>1, <2>2
<1> HIDE DEF built
<1>2. first.program = Secp256r1Program
  BY <1>1 DEF C!Secp256r1Program, Secp256r1Program
<1>3. found = IF relative = (IF shape = "apart" THEN -2 ELSE -1) THEN {first} ELSE {}
  BY <1>2, PrecompileFound
<1>4. ASSUME NEW x PROVE P!Sole({x}) = x
  BY DEF P!Sole
<1>5. /\ args.clientDataJson[2] = tap.challenge
      /\ P!Covers(C!BuildSecp256r1Message(tap), args.clientDataJson)
  BY <1>1, ChallengesMatch
<1> HIDE DEF first, sent
<1>6. P!AssertionError(sent, Len(sent), args, tap.challenge, key) =
        IF found = {} THEN "InvalidSecp256r1Instruction"
        ELSE IF P!EntryError(P!Sole(found).data, i) # "none"
        THEN P!EntryError(P!Sole(found).data, i)
        ELSE IF ~P!Covers(P!Sole(P!MessageData(P!Sole(found).data, i)), args.clientDataJson)
        THEN "ClientDataHashMismatch"
        ELSE IF P!Sole(P!PublicKeyData(P!Sole(found).data, i)) # key
        THEN "Secp256r1PubkeyMismatch"
        ELSE "none"
  BY <1>5, Zenon DEF P!AssertionError
<1> HIDE DEF found, i
<1>7. CASE relative = IF shape = "apart" THEN -2 ELSE -1
  <2>1. P!Sole(found) = first /\ found # {}
    BY <1>3, <1>4, <1>7
  <2>3. CASE Lost(existing)
    BY <1>1, <1>6, <1>7, <2>1, <2>3 DEF sent, first, built
  <2>4. CASE ~Lost(existing)
    <3>1. /\ P!Sole(P!MessageData(first.data, i)) = C!BuildSecp256r1Message(tap)
          /\ P!Sole(P!PublicKeyData(first.data, i)) = key
      BY <1>1, <1>4, <2>4
    <3> QED
      BY <1>1, <1>5, <1>6, <1>7, <2>1, <2>4, <3>1 DEF sent, first, built
  <2> QED
    BY <2>3, <2>4
<1>8. CASE relative # IF shape = "apart" THEN -2 ELSE -1
  BY <1>3, <1>6, <1>8 DEF sent, first, built
<1> QED
  BY <1>7, <1>8

(***************************************************************************)
(* The strengthened invariant gives the property.                          *)
(***************************************************************************)
LEMMA TapTold == TapInv => TapIsFound
<1> SUFFICES ASSUME TapInv, stage = "sent", asked.tap # {}, AskedWell
             PROVE  LET sent == CHOOSE t \in asked.tap : TRUE
                        earlier == sent.existing.entries
                        lost == sent.existing.given /\ earlier = <<>>
                        placed == asked.values.verifyArgsRelativeIndex =
                                    IF asked.shape = "apart" THEN -2 ELSE -1
                    IN /\ sent.id = sent.tap.signer
                       /\ Verified <=>
                            /\ ~lost /\ Len(earlier) < MaxSignatures
                            /\ \A i \in DOMAIN earlier :
                                P!SignedBy(earlier[i].signature, earlier[i].publicKey,
                                           earlier[i].message)
                       /\ TapError = IF ~placed THEN "InvalidSecp256r1Instruction"
                                     ELSE IF lost THEN "SignatureIndexOutOfBounds" ELSE "none"
  BY DEF TapIsFound
<1> DEFINE challenge == IF asked.name = "SetOwner"
                        THEN C!BuildTransferChallenge(asked.given.phygitalToken,
                                                      asked.given.recipient,
                                                      SlotHash(asked.values.slotNumber))
                        ELSE C!BuildVerifyChallenge(asked.values.messageHash)
           call == P!Call(Ours)
           relative == asked.values.verifyArgsRelativeIndex
           builder == IF asked.name = "SetOwner" THEN C!GetSetOwnerInstruction
                      ELSE C!GetVerifyInstruction
           last == C!Build(builder, Main, asked.given, OnWire(asked.values))
<1>1. Inv /\ KeysHeld(accounts) /\ TapSent
  BY DEF TapInv
<1>2. PICK tap \in Taps(challenge), existing \in Existing :
        LET built == C!BuildSecp256r1VerifyInstructionFromWebAuthnResponse(
                        asked.key, tap, existing)
        IN /\ asked.name \in {"SetOwner", "Verify"} /\ asked.program = Main
           /\ asked.key = tap.signer /\ asked.tap = Tapped(tap, asked.key, existing)
           /\ relative \in {-1, -2}
           /\ asked.values.signedMessageIndex = built.signedMessageIndex
           /\ asked.values.clientDataJson = built.clientDataJson
           /\ instructions = Shaped(<<built.instruction>>, last, asked.shape)
  BY <1>1 DEF TapSent
<1> DEFINE built == C!BuildSecp256r1VerifyInstructionFromWebAuthnResponse(asked.key, tap, existing)
<1>3. /\ tap.signer \in Keys /\ tap.challenge = challenge /\ tap.signer \in tap.candidates
  BY TapsMade
<1>4. /\ asked.name \in {"SetOwner", "Verify"} /\ asked.program = Main
      /\ asked.key = tap.signer /\ asked.tap = Tapped(tap, asked.key, existing)
      /\ relative \in {-1, -2}
      /\ asked.values.signedMessageIndex = built.signedMessageIndex
      /\ asked.values.clientDataJson = built.clientDataJson
      /\ instructions = Shaped(<<built.instruction>>, last, asked.shape)
  BY <1>2
<1>14. [last EXCEPT !.metas = Listed(@, asked.shape)].program = Main
  BY DEF C!Build, C!Instruction
<1> HIDE DEF built, last, challenge
<1> DEFINE sent == CHOOSE t \in asked.tap : TRUE
<1>5. sent.id = sent.tap.signer /\ sent.existing = existing
  <2>1. sent = [tap |-> tap, id |-> asked.key, existing |-> existing]
    BY <1>4 DEF Tapped
  <2> HIDE DEF sent
  <2>2. sent.id = asked.key /\ sent.tap = tap /\ sent.existing = existing
    BY <2>1
  <2> QED
    BY <1>4, <2>2
<1> HIDE DEF sent
<1>6. /\ call.name = asked.name
      /\ \A n \in DOMAIN asked.given : call.accounts[n] = asked.given[n]
      /\ \A n \in DOMAIN call.values :
            call.values[n] = IF n = "tokenType" THEN P!TypeByte(asked.values[n])
                             ELSE asked.values[n]
  BY <1>1, Arrives DEF ArrivesAsMeant
<1>7. /\ AskedFor /\ SentAsBuilt
      /\ call.values = [n \in P!Names(P!Entries[asked.name].params) |-> OnWire(asked.values)[n]]
  BY <1>1, SentIsRead DEF Inv
<1> HIDE DEF call
<1>8. /\ {"verifyArgsRelativeIndex", "signedMessageIndex", "clientDataJson"}
            \subseteq DOMAIN call.values
      /\ asked.name = "SetOwner" => "slotNumber" \in DOMAIN call.values
      /\ asked.name = "Verify" => "messageHash" \in DOMAIN call.values
  BY <1>4, <1>7, TapBuilders
<1>9. /\ call.values.verifyArgsRelativeIndex = relative
      /\ call.values.signedMessageIndex = built.signedMessageIndex
      /\ call.values.clientDataJson = built.clientDataJson
      /\ asked.name = "SetOwner" => call.values.slotNumber = asked.values.slotNumber
      /\ asked.name = "Verify" => call.values.messageHash = asked.values.messageHash
  BY <1>4, <1>6, <1>8
<1>10. /\ "phygitalToken" \in DOMAIN asked.given
       /\ asked.name = "SetOwner" => "recipient" \in DOMAIN asked.given
  <2>1. PICK made \in Builders(asked.name) : DOMAIN asked.given = Needed(made)
    BY <1>7 DEF SentAsBuilt, Builders
  <2>2. CASE asked.name = "SetOwner"
    <3>1. made = C!GetSetOwnerInstruction
      BY <2>2 DEF Builders, C!Synchronous, C!PhygitalTokenProgram
    <3> QED
      BY <2>1, <3>1, TapBuilders
  <2>3. CASE asked.name = "Verify"
    <3>1. made = C!GetVerifyInstruction
      BY <2>3 DEF Builders, C!Synchronous, C!PhygitalTokenProgram
    <3> QED
      BY <2>1, <2>3, <3>1, TapBuilders
  <2> QED
    BY <1>4, <2>2, <2>3
<1>11. P!Token(call, accounts).publicKey = asked.key
  <2>1. call.accounts.phygitalToken = PhygitalTokenPda(Main, asked.key)
    BY <1>4, <1>6, <1>7, <1>10 DEF AskedFor
  <2>2. PhygitalTokenPda(Main, asked.key) \in DOMAIN accounts
    BY <1>4 DEF AskedWell, HasToken
  <2>3. Main \in Deployments
    BY DEF Deployments
  <2> QED
    BY <1>1, <1>3, <1>4, <2>1, <2>2, <2>3 DEF KeysHeld, P!Token
<1>12. TapError = P!AssertionError(instructions, Len(instructions), call.values, tap.challenge,
                                   asked.key)
  <2>1. CASE asked.name = "SetOwner"
    <3>1. P!BuildSetOwnerChallenge(call.accounts.phygitalToken, call.accounts.recipient,
                                   P!SlotHash(call.values.slotNumber)) = tap.challenge
      BY <1>3, <1>6, <1>9, <1>10, <2>1, ChallengesMatch DEF challenge
    <3> QED
      BY <1>6, <1>11, <2>1, <3>1 DEF TapError, P!TapError, call
  <2>2. CASE asked.name = "Verify"
    <3>1. P!BuildVerifyChallenge(call.values.messageHash) = tap.challenge
      BY <1>3, <1>9, <2>2, ChallengesMatch DEF challenge
    <3> QED
      BY <1>6, <1>11, <2>2, <3>1 DEF TapError, P!TapError, call
  <2> QED
    BY <1>4, <2>1, <2>2
<1>13. P!AssertionError(instructions, Len(instructions), call.values, tap.challenge, asked.key) =
        IF relative # (IF asked.shape = "apart" THEN -2 ELSE -1)
        THEN "InvalidSecp256r1Instruction"
        ELSE IF Lost(existing) THEN "SignatureIndexOutOfBounds" ELSE "none"
  BY <1>3, <1>4, <1>9, TapChecked DEF built
<1> DEFINE earlier == existing.entries
           good == /\ ~Lost(existing) /\ Len(earlier) < MaxSignatures
                   /\ \A i \in DOMAIN earlier :
                        P!SignedBy(earlier[i].signature, earlier[i].publicKey, earlier[i].message)
<1>15. Verified <=> good
  <2>1. /\ built.instruction.program = C!Secp256r1Program
        /\ P!PrecompileVerifies(built.instruction.data) <=> good
    BY <1>3, <1>4, TapRead DEF built
  <2> HIDE DEF good
  <2>2. built.instruction.program = Secp256r1Program
    BY <2>1 DEF C!Secp256r1Program, Secp256r1Program
  <2>3. Verified <=> P!PrecompileVerifies(built.instruction.data)
    BY <1>4, <1>14, <2>2, SentVerified DEF Verified
  <2> QED
    BY <2>1, <2>3
<1> QED
  BY <1>5, <1>12, <1>13, <1>15 DEF Lost, sent

(***************************************************************************)
(* Tokens hold the keys of their addresses from the start.                 *)
(***************************************************************************)
LEMMA StartsHeld == ASSUME Init PROVE KeysHeld(accounts)
<1>1. KeysHeld(<<>>)
  BY DEF KeysHeld
<1>2. ASSUME NEW program \in Deployments, NEW others, KeysHeld(others)
      PROVE  KeysHeld(WithRegistry(program, others))
  <2> DEFINE call == [name |-> "CreateConfig",
                      accounts |-> [authority |-> Somebody,
                                    adminConfig |-> AdminConfigPda(program)]]
  <2>1. WithRegistry(program, others) = P!Handle(call, others).accounts
    BY DEF WithRegistry
  <2>2. call.name = "CreateConfig" /\ call.accounts.adminConfig = AdminConfigPda(program)
    OBVIOUS
  <2> HIDE DEF call
  <2>3. P!Handle(call, others) = P!HandleCreateConfig(call, others)
    BY <2>2 DEF P!Handle
  <2>4. \E values : WithRegistry(program, others) =
                        P!Put(others, AdminConfigPda(program), P!Encode(P!AdminConfig, values))
    BY <2>1, <2>2, <2>3 DEF P!HandleCreateConfig, P!Outcome, P!PutConfig
  <2> QED
    BY <1>2, <2>4, WrittenHolds
<1>3. ASSUME NEW others, KeysHeld(others) PROVE KeysHeld(WithToken(others))
  <2> DEFINE key == CHOOSE k \in Keys : TRUE
             call == [name |-> "Initialize",
                      accounts |-> [authority |-> Somebody,
                                    phygitalToken |-> PhygitalTokenPda(Main, key)],
                      values |-> [identifier |-> CHOOSE i \in Identifiers : TRUE,
                                  secp256r1Pubkey |-> key, owner |-> SystemProgram,
                                  tokenType |-> P!TypeByte("Controlled")]]
             value == [owner |-> call.values.owner, mint |-> P!SystemProgram,
                       lastSignCount |-> <<"count", 0>>, tokenType |-> call.values.tokenType,
                       bump |-> <<"bump">>, publicKey |-> call.values.secp256r1Pubkey,
                       identifier |-> call.values.identifier]
  <2>1. key \in Keys
    BY InterfaceAssumption
  <2>2. WithToken(others) = P!Handle(call, others).accounts
    BY DEF WithToken
  <2> HIDE DEF key
  <2>3. /\ call.name = "Initialize" /\ call.accounts.phygitalToken = PhygitalTokenPda(Main, key)
        /\ call.values.secp256r1Pubkey = key
    OBVIOUS
  <2> HIDE DEF call
  <2>4. P!Handle(call, others) = P!HandleInitialize(call, others)
    BY <2>3 DEF P!Handle
  <2>5. WithToken(others) =
            P!Put(others, PhygitalTokenPda(Main, key), P!Encode(P!PhygitalToken, value))
    BY <2>2, <2>3, <2>4 DEF P!HandleInitialize, P!Outcome, P!PutToken
  <2>6. value.publicKey = key
    BY <2>3
  <2>7. Main \in Deployments
    BY DEF Deployments
  <2> HIDE DEF value
  <2> QED
    BY ZenonT(60), <1>3, <2>1, <2>5, <2>6, <2>7, WrittenHolds
<1>4. Main \in Deployments /\ Other \in Deployments
  BY DEF Deployments
<1>5. KeysHeld(WithRegistry(Main, WithRegistry(Other, <<>>)))
  BY <1>1, <1>2, <1>4
<1>6. KeysHeld(WithToken(WithRegistry(Main, WithRegistry(Other, <<>>))))
  BY <1>3, <1>5
<1> QED
  BY <1>1, <1>6 DEF Init

(***************************************************************************)
(* A tap is recognized as the key's that made it, by a list of keys or by  *)
(* the tokens there are, or not at all: nobody's key is in no list and has *)
(* no token.                                                               *)
(***************************************************************************)
LEMMA Recognized ==
    ASSUME NEW challenge, NEW tap \in Taps(challenge), NEW allowList, allowList \subseteq Keys,
           NEW rpc \in BOOLEAN, NEW data, InPlace(data), KeysHeld(data),
           NEW id \in C!ResolveCredentialId(tap, allowList, rpc, data)
    PROVE  id = tap.signer
<1>1. /\ tap.signer \in Keys
      /\ \/ tap.id = tap.signer
         \/ /\ tap.id = C!Placeholder
            /\ \/ tap.candidates = {tap.signer}
               \/ tap.candidates = {tap.signer, NobodysKey}
  BY TapsMade
<1>2. tap.signer # C!Placeholder /\ NobodysKey \notin Keys
  BY <1>1, TapAssumption
<1>3. ASSUME NEW S, NEW x \in C!Only(S) PROVE S = {x}
  BY <1>3 DEF C!Only
<1>4. CASE tap.id = tap.signer
  BY <1>2, <1>4 DEF C!ResolveCredentialId
<1>5. CASE tap.id = C!Placeholder /\ ~rpc
  <2>1. id \in C!Only(tap.candidates \cap allowList)
    BY <1>5 DEF C!ResolveCredentialId, C!RecoverSecp256r1PublicKeyWithAllowList
  <2>2. id \in tap.candidates /\ id \in Keys
    BY <1>3, <2>1
  <2> QED
    BY <1>1, <1>2, <1>5, <2>2
<1>6. CASE tap.id = C!Placeholder /\ rpc
  <2> DEFINE recovered == {C!FetchPhygitalToken(data, a).publicKey :
                            a \in {C!PhygitalTokenPda(C!Main, k) : k \in tap.candidates}
                                    \cap DOMAIN data}
  <2>1. id \in IF C!Only(tap.candidates) # {} THEN tap.candidates ELSE C!Only(recovered)
    BY <1>6 DEF C!ResolveCredentialId, C!RecoverSecp256r1PublicKeyWithPhygitalToken
  <2>2. CASE tap.candidates = {tap.signer}
    <3>1. C!Only(tap.candidates) # {}
      BY <2>2 DEF C!Only
    <3> QED
      BY <2>1, <2>2, <3>1
  <2>3. CASE tap.candidates = {tap.signer, NobodysKey}
    <3>1. C!Only(tap.candidates) = {}
      BY <1>1, <1>2, <1>3, <2>3
    <3>2. recovered = {id}
      BY <1>3, <2>1, <3>1
    <3>3. PICK k \in tap.candidates :
            /\ PhygitalTokenPda(Main, k) \in DOMAIN data
            /\ id = C!FetchPhygitalToken(data, PhygitalTokenPda(Main, k)).publicKey
      BY <3>2, SameAddresses
    <3>4. PhygitalTokenPda(Main, NobodysKey) \notin DOMAIN data
      <4>1. \A key \in Keys : \A p : PhygitalTokenPda(p, key) # PhygitalTokenPda(Main, NobodysKey)
        BY TapAssumption, AddressesTold
      <4> QED
        BY <4>1, AddressesTold DEF InPlace
    <3>5. k = tap.signer
      BY <2>3, <3>3, <3>4
    <3>6. Main \in Deployments
      BY DEF Deployments
    <3>7. C!FetchPhygitalToken(data, PhygitalTokenPda(Main, tap.signer)).publicKey = tap.signer
      <4>1. C!FetchPhygitalToken(data, PhygitalTokenPda(Main, tap.signer)) =
              P!Decode(P!PhygitalToken.fields, data[PhygitalTokenPda(Main, tap.signer)])
        BY SameCodec DEF C!FetchPhygitalToken, C!PhygitalToken, P!PhygitalToken,
             C!Layout, P!Layout, C!Field, P!Field, C!Secp256r1Pubkey
      <4> QED
        BY <1>1, <3>3, <3>5, <3>6, <4>1 DEF KeysHeld
    <3> QED
      BY <3>3, <3>5, <3>7
  <2> QED
    BY <1>1, <1>2, <1>6, <2>2, <2>3
<1> QED
  BY <1>1, <1>4, <1>5, <1>6

(***************************************************************************)
(* Asking without a tap keeps the strengthened invariant.                  *)
(***************************************************************************)
LEMMA AskSends == ASSUME TapInv, Ask PROVE TapInv'
<1>1. Inv'
  BY AskKeeps DEF TapInv
<1>2. PICK request, builder : request.tap = {} /\ Send(request, builder, <<>>)
  <2>1. PICK name \in DOMAIN C!Synchronous \ {"SetOwner", "Verify"}, way \in Ways,
             shape \in Shapes \ {"apart"} :
        \E signer \in Wallets, rentRecipient \in AnyOf(name, "rentRecipient", Wallets),
           key \in AnyOf(name, "phygitalToken", Keys), values \in ValuesOf(name),
           strayConfig \in {FALSE, "adminConfig" \in Needed(way.builders[name])} :
           LET program == C!ProgramOf(way.call, way.plugin)
               builder == way.builders[name]
           IN Send([name |-> name, program |-> program, values |-> values, key |-> key,
                    given |-> Given(builder, program, signer, rentRecipient, key, strayConfig),
                    stray |-> strayConfig, shape |-> shape, tap |-> {}],
                   builder, <<>>)
    BY DEF Ask
  <2> DEFINE program == C!ProgramOf(way.call, way.plugin)
             builder == way.builders[name]
  <2>2. PICK signer, rentRecipient, key, values, strayConfig :
          Send([name |-> name, program |-> program, values |-> values, key |-> key,
                given |-> Given(builder, program, signer, rentRecipient, key, strayConfig),
                stray |-> strayConfig, shape |-> shape, tap |-> {}],
               builder, <<>>)
    BY <2>1
  <2> HIDE DEF program, builder
  <2> DEFINE request ==
               [name |-> name, program |-> program, values |-> values, key |-> key,
                given |-> Given(builder, program, signer, rentRecipient, key, strayConfig),
                stray |-> strayConfig, shape |-> shape, tap |-> {}]
  <2>3. request.tap = {} /\ Send(request, builder, <<>>)
    BY <2>2
  <2> HIDE DEF request
  <2> QED
    BY <2>3
<1>3. accounts' = accounts /\ asked' = request
  BY <1>2 DEF Send
<1> QED
  BY <1>1, <1>2, <1>3 DEF TapInv

(***************************************************************************)
(* A transfer is sent with a tap of the accessory it is for.               *)
(***************************************************************************)
LEMMA AskTransferSends == ASSUME TapInv, AskTransfer PROVE TapInv'
<1>1. Inv'
  BY AskTransferKeeps DEF TapInv
<1>2. PICK key \in Keys, recipient \in Wallets, signer \in Wallets :
        LET session == C!BeginTransfer(key, recipient, <<"slot">>)
        IN \E tap \in Taps(session.challenge) :
            \E id \in C!AuthenticatePasskeyForTransfer(session, tap) :
            \E existing \in Existing, shape \in Shapes :
            \E built \in C!CompleteTransfer(session, id, tap, signer, existing) :
                Send([name |-> "SetOwner", program |-> Main, values |-> built.values,
                      key |-> key, given |-> built.given, stray |-> FALSE, shape |-> shape,
                      tap |-> Tapped(tap, id, existing)],
                     C!GetSetOwnerInstruction, <<built.instruction>>)
  BY DEF AskTransfer
<1> DEFINE session == C!BeginTransfer(key, recipient, <<"slot">>)
<1>3. PICK tap \in Taps(session.challenge) :
            \E id \in C!AuthenticatePasskeyForTransfer(session, tap) :
            \E existing \in Existing, shape \in Shapes :
            \E built \in C!CompleteTransfer(session, id, tap, signer, existing) :
                Send([name |-> "SetOwner", program |-> Main, values |-> built.values,
                      key |-> key, given |-> built.given, stray |-> FALSE, shape |-> shape,
                      tap |-> Tapped(tap, id, existing)],
                     C!GetSetOwnerInstruction, <<built.instruction>>)
  BY <1>2
<1>13. PICK id \in C!AuthenticatePasskeyForTransfer(session, tap), existing \in Existing,
            shape \in Shapes :
            \E built \in C!CompleteTransfer(session, id, tap, signer, existing) :
                Send([name |-> "SetOwner", program |-> Main, values |-> built.values,
                      key |-> key, given |-> built.given, stray |-> FALSE, shape |-> shape,
                      tap |-> Tapped(tap, id, existing)],
                     C!GetSetOwnerInstruction, <<built.instruction>>)
  BY <1>3
<1>4. PICK built \in C!CompleteTransfer(session, id, tap, signer, existing) :
                Send([name |-> "SetOwner", program |-> Main, values |-> built.values,
                      key |-> key, given |-> built.given, stray |-> FALSE, shape |-> shape,
                      tap |-> Tapped(tap, id, existing)],
                     C!GetSetOwnerInstruction, <<built.instruction>>)
  BY <1>13
<1>5. /\ session.secp256r1Pubkey = key /\ session.recipient = recipient
      /\ session.phygitalToken = C!PhygitalTokenPda(C!Main, key)
      /\ session.slotNumber = <<"slot">>
      /\ session.challenge = C!BuildTransferChallenge(session.phygitalToken, recipient,
                                                      C!SlotHash(<<"slot">>))
  BY DEF C!BeginTransfer
<1> HIDE DEF session
<1>6. id = tap.signer /\ id = key
  <2>1. InPlace(<<>>) /\ KeysHeld(<<>>)
    BY DEF InPlace, KeysHeld
  <2>2. id \in C!ResolveCredentialId(tap, {key}, FALSE, <<>>)
    BY <1>5 DEF C!AuthenticatePasskeyForTransfer
  <2>3. id = tap.signer
    BY <2>1, <2>2, Recognized
  <2>4. id = key
    BY <2>2 DEF C!ResolveCredentialId
  <2> QED
    BY <2>3, <2>4
<1> DEFINE precompile == C!BuildSecp256r1VerifyInstructionFromWebAuthnResponse(id, tap, existing)
<1>7. /\ signer = recipient
      /\ built = [instruction |-> precompile.instruction,
                  given |-> [recipient |-> signer, phygitalToken |-> session.phygitalToken],
                  values |-> [verifyArgsRelativeIndex |-> -1,
                              signedMessageIndex |-> precompile.signedMessageIndex,
                              clientDataJson |-> precompile.clientDataJson,
                              slotNumber |-> session.slotNumber]]
  BY <1>5 DEF C!CompleteTransfer, C!VerifyArgs
<1> HIDE DEF precompile
<1>8. /\ built.instruction = precompile.instruction
      /\ built.given.recipient = recipient /\ built.given.phygitalToken = session.phygitalToken
      /\ built.values.verifyArgsRelativeIndex = -1
      /\ built.values.signedMessageIndex = precompile.signedMessageIndex
      /\ built.values.clientDataJson = precompile.clientDataJson
      /\ built.values.slotNumber = <<"slot">>
  BY <1>5, <1>7
<1> DEFINE request == [name |-> "SetOwner", program |-> Main, values |-> built.values,
                       key |-> key, given |-> built.given, stray |-> FALSE, shape |-> shape,
                       tap |-> Tapped(tap, id, existing)]
<1>9. /\ request.name = "SetOwner" /\ request.program = Main /\ request.values = built.values
      /\ request.key = key /\ request.given = built.given /\ request.shape = shape
      /\ request.tap = Tapped(tap, id, existing)
      /\ Send(request, C!GetSetOwnerInstruction, <<built.instruction>>)
  BY <1>4
<1> HIDE DEF request
<1>10. /\ accounts' = accounts /\ asked' = request
       /\ instructions' = Shaped(<<precompile.instruction>>,
                                 C!Build(C!GetSetOwnerInstruction, Main, built.given,
                                         OnWire(built.values)), shape)
  BY <1>8, <1>9 DEF Send
<1>11. session.challenge = C!BuildTransferChallenge(asked'.given.phygitalToken,
                                                    asked'.given.recipient,
                                                    SlotHash(asked'.values.slotNumber))
  <2>1. C!SlotHash(<<"slot">>) = SlotHash(<<"slot">>)
    BY DEF C!SlotHash, SlotHash
  <2> QED
    BY <1>5, <1>8, <1>9, <1>10, <2>1
<1>12. TapSent'
  <2>1. /\ asked'.name = "SetOwner" /\ asked'.program = Main /\ asked'.key = tap.signer
        /\ asked'.key = id /\ asked'.tap = Tapped(tap, asked'.key, existing)
        /\ asked'.values.verifyArgsRelativeIndex \in {-1, -2}
        /\ asked'.values.signedMessageIndex = precompile.signedMessageIndex
        /\ asked'.values.clientDataJson = precompile.clientDataJson
        /\ instructions' = Shaped(<<precompile.instruction>>,
                                  C!Build(C!GetSetOwnerInstruction, Main, asked'.given,
                                          OnWire(asked'.values)), asked'.shape)
    BY <1>6, <1>8, <1>9, <1>10
  <2>2. precompile = C!BuildSecp256r1VerifyInstructionFromWebAuthnResponse(
                        asked'.key, tap, existing)
    BY <2>1 DEF precompile
  <2> QED
    BY <1>11, <2>1, <2>2 DEF TapSent
<1> QED
  BY <1>1, <1>10, <1>12 DEF TapInv

(***************************************************************************)
(* A tap is sent to be verified at the token of the accessory tapped.      *)
(***************************************************************************)
LEMMA AskVerifySends == ASSUME TapInv, AskVerify PROVE TapInv'
<1>1. Inv'
  BY AskVerifyKeeps DEF TapInv
<1> DEFINE challenge == C!BuildVerifyChallenge(<<"messageHash">>)
<1>2. PICK tap \in Taps(challenge), rpc \in BOOLEAN :
        \E id \in C!ResolveCredentialId(tap, IF rpc THEN {} ELSE Keys, rpc, accounts) :
        \E existing \in Existing, shape \in Shapes, relative \in {-1, -2} :
            LET built == C!BuildSecp256r1VerifyInstruction(id, tap, existing, relative)
                args == built.secp256r1VerifyArgs
            IN Send([name |-> "Verify", program |-> Main, key |-> id, stray |-> FALSE,
                     values |-> [verifyArgsRelativeIndex |-> args.verifyArgsRelativeIndex,
                                 signedMessageIndex |-> args.signedMessageIndex,
                                 clientDataJson |-> args.clientDataJson,
                                 messageHash |-> <<"messageHash">>,
                                 expectedRpIdHash |-> <<"rp">>,
                                 expectedOrigins |-> <<"origins">>],
                     given |-> [phygitalToken |-> built.phygitalTokenPda],
                     shape |-> shape, tap |-> Tapped(tap, id, existing)],
                    C!GetVerifyInstruction, <<built.instruction>>)
  BY DEF AskVerify
<1>3. PICK id \in C!ResolveCredentialId(tap, IF rpc THEN {} ELSE Keys, rpc, accounts),
           existing \in Existing, shape \in Shapes, relative \in {-1, -2} :
            LET built == C!BuildSecp256r1VerifyInstruction(id, tap, existing, relative)
                args == built.secp256r1VerifyArgs
            IN Send([name |-> "Verify", program |-> Main, key |-> id, stray |-> FALSE,
                     values |-> [verifyArgsRelativeIndex |-> args.verifyArgsRelativeIndex,
                                 signedMessageIndex |-> args.signedMessageIndex,
                                 clientDataJson |-> args.clientDataJson,
                                 messageHash |-> <<"messageHash">>,
                                 expectedRpIdHash |-> <<"rp">>,
                                 expectedOrigins |-> <<"origins">>],
                     given |-> [phygitalToken |-> built.phygitalTokenPda],
                     shape |-> shape, tap |-> Tapped(tap, id, existing)],
                    C!GetVerifyInstruction, <<built.instruction>>)
  BY <1>2
<1>4. id = tap.signer
  <2>1. InPlace(accounts) /\ KeysHeld(accounts)
    BY DEF TapInv, Inv
  <2>2. (IF rpc THEN {} ELSE Keys) \subseteq Keys
    OBVIOUS
  <2> HIDE DEF challenge
  <2> QED
    BY <2>1, <2>2, Recognized
<1> DEFINE precompile == C!BuildSecp256r1VerifyInstructionFromWebAuthnResponse(id, tap, existing)
           b == C!BuildSecp256r1VerifyInstruction(id, tap, existing, relative)
           args == b.secp256r1VerifyArgs
           values == [verifyArgsRelativeIndex |-> args.verifyArgsRelativeIndex,
                      signedMessageIndex |-> args.signedMessageIndex,
                      clientDataJson |-> args.clientDataJson,
                      messageHash |-> <<"messageHash">>,
                      expectedRpIdHash |-> <<"rp">>,
                      expectedOrigins |-> <<"origins">>]
           given == [phygitalToken |-> b.phygitalTokenPda]
           request == [name |-> "Verify", program |-> Main, key |-> id, stray |-> FALSE,
                       values |-> values, given |-> given,
                       shape |-> shape, tap |-> Tapped(tap, id, existing)]
<1>5. /\ b.instruction = precompile.instruction
      /\ args.verifyArgsRelativeIndex = relative
      /\ args.signedMessageIndex = precompile.signedMessageIndex
      /\ args.clientDataJson = precompile.clientDataJson
  BY DEF C!BuildSecp256r1VerifyInstruction, C!VerifyArgs
<1>6. Send(request, C!GetVerifyInstruction, <<b.instruction>>)
  BY <1>3
<1> HIDE DEF precompile, b
<1>7. /\ values.verifyArgsRelativeIndex = relative
      /\ values.signedMessageIndex = precompile.signedMessageIndex
      /\ values.clientDataJson = precompile.clientDataJson
      /\ values.messageHash = <<"messageHash">>
  BY <1>5
<1> HIDE DEF values, given
<1>8. /\ request.name = "Verify" /\ request.program = Main /\ request.values = values
      /\ request.key = id /\ request.given = given /\ request.shape = shape
      /\ request.tap = Tapped(tap, id, existing)
  OBVIOUS
<1> HIDE DEF request
<1>9. /\ accounts' = accounts /\ asked' = request
      /\ instructions' = Shaped(<<precompile.instruction>>,
                                C!Build(C!GetVerifyInstruction, Main, given, OnWire(values)),
                                shape)
  BY <1>5, <1>6, <1>8 DEF Send
<1>10. TapSent'
  <2>1. /\ asked'.name = "Verify" /\ asked'.name # "SetOwner" /\ asked'.program = Main
        /\ asked'.key = tap.signer
        /\ asked'.key = id /\ asked'.tap = Tapped(tap, asked'.key, existing)
        /\ asked'.values.verifyArgsRelativeIndex \in {-1, -2}
        /\ asked'.values.signedMessageIndex = precompile.signedMessageIndex
        /\ asked'.values.clientDataJson = precompile.clientDataJson
        /\ instructions' = Shaped(<<precompile.instruction>>,
                                  C!Build(C!GetVerifyInstruction, Main, asked'.given,
                                          OnWire(asked'.values)), asked'.shape)
    BY <1>4, <1>7, <1>8, <1>9
  <2>2. precompile = C!BuildSecp256r1VerifyInstructionFromWebAuthnResponse(
                        asked'.key, tap, existing)
    BY <2>1 DEF precompile
  <2>3. challenge = C!BuildVerifyChallenge(asked'.values.messageHash)
    BY <1>7, <1>8, <1>9
  <2> HIDE DEF challenge
  <2> QED
    BY <2>1, <2>2, <2>3 DEF TapSent
<1> QED
  BY <1>1, <1>9, <1>10 DEF TapInv

(***************************************************************************)
(* What is done with a tap that was sent keeps it too.                     *)
(***************************************************************************)
LEMMA OutcomesHold ==
    ASSUME TapInv, Inv', PrecompileFails \/ Run \/ Done
    PROVE  TapInv'
<1>1. CASE Accept
  <2>1. /\ AskedFor /\ SentAsBuilt /\ InPlace(accounts) /\ KeysHeld(accounts)
        /\ P!Admitted(Ours, accounts) /\ stage' = "landed"
        /\ accounts' = P!Handle(P!Call(Ours), accounts).accounts
    BY <1>1 DEF Accept, TapInv, Inv
  <2>2. KeysHeld(accounts')
    BY <2>1, HandlingHolds
  <2> QED
    BY <2>1, <2>2 DEF TapInv
<1>2. CASE ~Accept
  <2>1. stage' # "sent" /\ accounts' = accounts
    BY <1>2 DEF Run, PrecompileFails, StrangerFails, Refuse, Done, Reject, Fail
  <2> QED
    BY <2>1 DEF TapInv
<1> QED
  BY <1>1, <1>2

(***************************************************************************)
(* In every state a token holds the key its address is made of, and a tap  *)
(* that is on its way was made by the key it is sent under, in the         *)
(* instruction built of it.                                                *)
(***************************************************************************)
THEOREM TapInvCorrect == Spec => []TapInv
<1>1. Init => TapInv
  BY StartsInPlace, StartsHeld DEF Init, TapInv
<1>2. TapInv /\ [Next]_vars => TapInv'
  <2> SUFFICES ASSUME TapInv, [Next]_vars PROVE TapInv'
    OBVIOUS
  <2>1. CASE Ask
    BY <2>1, AskSends
  <2>2. CASE AskTransfer
    BY <2>2, AskTransferSends
  <2>3. CASE AskVerify
    BY <2>3, AskVerifySends
  <2>4. CASE PrecompileFails \/ Run \/ Done
    BY <2>4, OutcomesKeep, OutcomesHold DEF TapInv
  <2>5. CASE UNCHANGED vars
    <3>1. Inv'
      BY <2>5 DEF TapInv, vars, Inv, AskedFor, SentAsBuilt, Handled, FailedSo, Ours
    <3>2. TapSent => TapSent'
      BY <2>5 DEF vars, TapSent
    <3> QED
      BY <2>5, <3>1, <3>2 DEF TapInv, vars
  <2> QED
    BY <2>1, <2>2, <2>3, <2>4, <2>5 DEF Next
<1> QED
  BY <1>1, <1>2, PTL DEF Spec

(***************************************************************************)
(* A tap is the accessory's that was tapped and is found where the caller  *)
(* told the program to look, past the precompile if the signatures of the  *)
(* caller's array are good and leave it room; sent anywhere else it is not *)
(* found, and into an array given empty it is not written.                 *)
(***************************************************************************)
THEOREM AlwaysTapIsFound == Spec => []TapIsFound
BY TapInvCorrect, TapTold, PTL
=============================================================================
