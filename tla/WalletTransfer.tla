--------------------------- MODULE WalletTransfer ---------------------------
(***************************************************************************)
(* What a transfer of SOL or of a token costs, how much can be sent, why   *)
(* it cannot be, and the instructions it is made of.  Amounts are typed    *)
(* and shown as decimal numbers: a text is a whole part and the digits     *)
(* after the point.                                                        *)
(***************************************************************************)
EXTENDS Integers, Sequences, FiniteSets

CONSTANTS
    LamportsPerSignature,
    PriorityFee,            \* of TRANSFER_TX_CONFIG
    TokenAccountRent,       \* what the client takes a new token account to cost
    SystemAccountRent,      \* the least an account that exists may hold
    SolDecimals

ASSUME CostAssumption ==
    /\ LamportsPerSignature \in Nat /\ PriorityFee \in Nat
    /\ TokenAccountRent \in Nat /\ SystemAccountRent \in Nat \ {0}
    /\ SolDecimals \in Nat

-----------------------------------------------------------------------------
(* amount.ts *)

\* What is typed stands for no amount at all.
NoAmount == -1

Text == [whole : Nat, frac : Seq(0..9)]
NoText == [whole |-> 0, frac |-> <<>>]

\* 10n ** BigInt(n)
TenTo[n \in Nat] == IF n = 0 THEN 1 ELSE 10 * TenTo[n - 1]

Digits(n, places) == [i \in 1..places |-> (n \div TenTo[places - i]) % 10]

\* Where the zeros at the end begin.
Significant(digits, places) ==
    CHOOSE last \in 0..places :
        /\ last = 0 \/ digits[last] # 0
        /\ \A i \in last + 1 .. places : digits[i] = 0

FormatTokenAmount(raw, decimals) ==
    LET digits == Digits(raw % TenTo[decimals], decimals)
    IN [whole |-> raw \div TenTo[decimals],
        frac  |-> SubSeq(digits, 1, Significant(digits, decimals))]

PadEnd(digits, places) == [i \in 1..places |-> IF i \in DOMAIN digits THEN digits[i] ELSE 0]

\* The numbers that the first digits make: BigInt of a text, digit after digit.
Read(digits, places) ==
    LET number[n \in 0..places] == IF n = 0 THEN 0 ELSE 10 * number[n - 1] + digits[n]
    IN number

UiAmountToRaw(text, decimals) ==
    LET raw == text.whole * TenTo[decimals]
                 + Read(PadEnd(text.frac, decimals), decimals)[decimals]
    IN IF Len(text.frac) > decimals \/ raw = 0 THEN NoAmount ELSE raw

-----------------------------------------------------------------------------
(* wallet-fee.ts, wallet-transfer.ts *)

NetworkFeeLamports(signatures) == signatures * LamportsPerSignature + PriorityFee

TransferFeeLamports == NetworkFeeLamports(1)

RentToOpen(openAccount) == IF openAccount THEN TokenAccountRent ELSE 0

TransferCost(request) ==
    LET rent == RentToOpen(request.openAccount)
        sent == IF request.asset.kind = "sol" THEN request.amount ELSE 0
    IN [fee         |-> TransferFeeLamports,
        accountRent |-> rent,
        solOut      |-> sent + TransferFeeLamports + rent]

\* Faulty variant of the next definition: the wallet is emptied below its own rent.
ReservedForFee(openAccount) == TransferFeeLamports + RentToOpen(openAccount)

Reserved(openAccount) == TransferFeeLamports + RentToOpen(openAccount) + SystemAccountRent

MaxSendable(holdings, asset, openAccount) ==
    IF asset.kind = "token" THEN asset.amount
    ELSE IF holdings.lamports > Reserved(openAccount)
         THEN holdings.lamports - Reserved(openAccount) ELSE 0

\* The wallet cannot pay a fee and live on.
NeedsSolForFees(holdings) == holdings.lamports < TransferFeeLamports + SystemAccountRent

\* Faulty variant of the next definition: the account that is opened is not counted.
LeftOfAmount(request, holdings) ==
    holdings.lamports - TransferCost([request EXCEPT !.openAccount = FALSE]).solOut

\* What the wallet keeps.
Left(request, holdings) == holdings.lamports - TransferCost(request).solOut

\* Why a transfer cannot go through: the first reason that applies, or none.
TransferProblem(request, holdings, recipientLamports) ==
    LET asset == request.asset
        left  == Left(request, holdings)
    IN IF request.recipient = request.owner THEN "own_address"
       ELSE IF request.amount <= 0 THEN "no_amount"
       ELSE IF asset.kind = "token" /\ asset.frozen THEN "frozen"
       ELSE IF asset.kind = "token" /\ request.amount > asset.amount THEN "too_much"
       ELSE IF left < 0 THEN "not_enough_sol"
       ELSE IF left < SystemAccountRent THEN "leave_rent"
       ELSE IF /\ asset.kind = "sol" /\ recipientLamports = 0
               /\ request.amount < SystemAccountRent THEN "new_address"
       ELSE "none"

-----------------------------------------------------------------------------
Pay(from, to, amount) == [call |-> "pay", from |-> from, to |-> to, amount |-> amount]

\* The token account of an owner is named by the owner.
OpenAccount(payer, owner) == [call |-> "open", payer |-> payer, owner |-> owner]

TransferToken(account, authority, to, amount) ==
    [call |-> "token", from |-> account, authority |-> authority, to |-> to, amount |-> amount]

TransferInstructions(request) ==
    LET owner == request.owner
        open  == <<OpenAccount(owner, request.recipient)>>
    IN IF request.asset.kind = "sol" THEN <<Pay(owner, request.recipient, request.amount)>>
       ELSE (IF request.openAccount THEN open ELSE <<>>)
              \o <<TransferToken(request.asset.account, owner, request.recipient, request.amount)>>

BuildTransferTransaction(request) ==
    [feePayer |-> request.owner,
     signers  |-> {request.owner},
     calls    |-> TransferInstructions(request)]

\* An instruction wallets may add: of the compute budget or Lighthouse program.
Guard == [call |-> "guard"]

\* The calls of a transaction that stand for the expected ones, in that order.
Matching(calls, expected) ==
    {place \in [DOMAIN expected -> DOMAIN calls] :
        /\ \A m, n \in DOMAIN expected : m < n => place[m] < place[n]
        /\ \A n \in DOMAIN expected : calls[place[n]] = expected[n]}

\* Faulty variant of the next definition: a call besides those expected is let through.
AssertTransferIntactInPart(signed, expected, owner) ==
    /\ signed.feePayer = owner
    /\ Cardinality(signed.signers) = 1
    /\ Matching(signed.calls, expected) # {}

\* Besides what the page expected there are guards only.
AssertTransferIntact(signed, expected, owner) ==
    /\ signed.feePayer = owner
    /\ Cardinality(signed.signers) = 1
    /\ \E place \in Matching(signed.calls, expected) :
         \A i \in DOMAIN signed.calls :
             signed.calls[i] # Guard => \E n \in DOMAIN expected : place[n] = i

=============================================================================
