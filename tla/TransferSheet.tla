---------------------------- MODULE TransferSheet ----------------------------
(***************************************************************************)
(* The sheet that sends SOL or a token from the connected wallet.  What is *)
(* typed is reviewed against what the wallet holds and what the chain says *)
(* of the recipient; what was reviewed is signed by the wallet, compared   *)
(* and sent.  Meanwhile balances change, wallets are switched, the sheet   *)
(* is closed and opened again, and a transaction may land after the page   *)
(* has given up on it.                                                     *)
(*                                                                         *)
(* A person has one token account of the one mint at most, named by its    *)
(* owner.  An event handler, with the effects its changes cause, is one    *)
(* step, and so is what follows an await.                                  *)
(***************************************************************************)
EXTENDS WalletTransfer

CONSTANTS
    Wallets,                \* addresses of the person's wallets
    Strangers,              \* other addresses
    SendsItself,            \* wallets that do not return what they signed
    Connected,              \* wallets that may be connected at first
    None,
    Ledgers,                \* what the chain may say at first
    Lamports,               \* balances that accounts may come to have by others
    Typed,                  \* amounts that are typed, as texts
    TokenDecimals,
    ExtensionRent,          \* rent of the extensions a token program adds to an account
    MaxReviews, MaxSends, MaxChanges    \* bounds

Accounts == Wallets \cup Strangers

Ledger == [lamports : [Accounts -> Nat], tokens : [Accounts -> Nat],
           opened : SUBSET Accounts, frozen : SUBSET Accounts]

ASSUME SheetAssumption ==
    /\ None \notin Accounts
    /\ SendsItself \subseteq Wallets /\ Connected \subseteq Wallets
    /\ \A n \in Lamports : n = 0 \/ n >= SystemAccountRent
    /\ \A l \in Ledgers :
         /\ \A a \in Accounts : l.lamports[a] = 0 \/ l.lamports[a] >= SystemAccountRent
         /\ \A a \in Accounts \ l.opened : l.tokens[a] = 0 /\ a \notin l.frozen
    /\ \A l \in Ledgers : l \in Ledger
    /\ Lamports \subseteq Nat /\ None \notin Ledger \cup Nat \cup BOOLEAN
    /\ Typed \subseteq Text
    /\ TokenDecimals \in Nat /\ ExtensionRent \in Nat

VARIABLES
    ledger,     \* the chain: lamports and tokens of each account, accounts opened, frozen
    wallet,     \* who is connected
    holdings,   \* what the page has read of that wallet
    sheet,      \* its state variables and properties
    work,       \* what the review or send under way has so far
    sent,       \* transactions submitted
    reviews,    \* how many plans were made
    pressed,    \* history: what the sheet showed when Send was pressed
    told,       \* history: reviews whose sending the sheet said has failed
    changes     \* how often others changed the chain, or the wallet was switched

vars == <<ledger, wallet, holdings, sheet, work, sent, reviews, pressed, told, changes>>

Sol == [kind |-> "sol"]
NoAsset == [kind |-> "none"]

\* What a wallet holds, as read at one time.
Snapshot(w) ==
    [wallet   |-> w,
     lamports |-> ledger.lamports[w],
     token    |-> [kind |-> "token", account |-> w, amount |-> ledger.tokens[w],
                   frozen |-> w \in ledger.frozen]]

\* What the list lets one choose.
Listed(held) ==
    {Sol} \cup (IF held.token.amount = 0 \/ held.token.frozen THEN {} ELSE {held.token})

Decimals(asset) == IF asset.kind = "sol" THEN SolDecimals ELSE TokenDecimals

-----------------------------------------------------------------------------
(* The chain: what a transaction does. *)

Lives(n) == n = 0 \/ n >= SystemAccountRent

Moved(balances, from, to, amount) ==
    [[balances EXCEPT ![from] = @ - amount] EXCEPT ![to] = @ + amount]

\* One call, on a ledger or after a call that failed.
Execute(l, call) ==
    IF l = None THEN None
    ELSE CASE call.call = "guard" -> l
      [] call.call = "pay" ->
            IF call.amount > l.lamports[call.from] THEN None
            ELSE [l EXCEPT !.lamports = Moved(@, call.from, call.to, call.amount)]
      [] call.call = "open" ->
            IF call.owner \in l.opened THEN l
            ELSE IF l.lamports[call.payer] < TokenAccountRent + ExtensionRent THEN None
            ELSE [l EXCEPT !.opened = @ \cup {call.owner},
                           !.lamports[call.payer] = @ - TokenAccountRent - ExtensionRent]
      [] call.call = "token" ->
            IF \/ call.authority # call.from \/ call.amount > l.tokens[call.from]
               \/ call.to \notin l.opened \/ {call.from, call.to} \cap l.frozen # {} THEN None
            ELSE [l EXCEPT !.tokens = Moved(@, call.from, call.to, call.amount)]

Charged(l, tx) == [l EXCEPT !.lamports[tx.feePayer] = @ - TransferFeeLamports]

\* A transaction the network takes: its fee can be paid.
Payable(l, tx) ==
    /\ l.lamports[tx.feePayer] >= TransferFeeLamports
    /\ Lives(Charged(l, tx).lamports[tx.feePayer])

\* The ledger after each of its calls.
After(l, tx) ==
    LET after[n \in 0 .. Len(tx.calls)] ==
            IF n = 0 THEN Charged(l, tx) ELSE Execute(after[n - 1], tx.calls[n])
    IN after

\* What it comes to: nothing when a call fails, or an account could not live on.
Outcome(l, tx) ==
    LET end == After(l, tx)[Len(tx.calls)]
    IN IF end = None THEN None
       ELSE IF \E a \in Accounts : end.lamports[a] # l.lamports[a] /\ ~Lives(end.lamports[a])
       THEN None ELSE end

Succeeds(l, tx) == Payable(l, tx) /\ Outcome(l, tx) # None

-----------------------------------------------------------------------------
(* What the sheet shows. *)

Current(s) == IF s.chosen = NoAsset THEN Sol ELSE s.chosen

Balance(s, held) ==
    IF Current(s).kind = "token" THEN Current(s).amount
    ELSE IF held = None THEN 0 ELSE held.lamports

Raw(s) == IF s.amount = NoText THEN NoAmount ELSE UiAmountToRaw(s.amount, Decimals(Current(s)))

\* The form is filled in with what might be sent.
Ready(s, held) ==
    /\ s.open /\ s.chosen # NoAsset
    /\ s.recipient # None
    /\ Raw(s) # NoAmount /\ Raw(s) <= Balance(s, held)

\* The button reads Send, and can be pressed.
Offers(s, held) ==
    /\ Ready(s, held) /\ s.busy = "none"
    /\ s.plan # None /\ s.plan.problem = "none"

-----------------------------------------------------------------------------
(* The state variables of the sheet, with the effects of changing them. *)

Edited(s, recipient, amount) ==
    [s EXCEPT !.recipient = recipient, !.amount = amount,
              !.plan = IF recipient = s.recipient /\ amount = s.amount THEN @ ELSE None]

Chosen(s, asset) ==
    [s EXCEPT !.chosen = asset, !.amount = NoText, !.plan = None, !.failed = FALSE]

Closed(s) ==
    [s EXCEPT !.open = FALSE, !.recipient = None, !.amount = NoText, !.plan = None,
              !.failed = FALSE]

\* Faulty variant of the next definition: a success leaves the sheet as it is.
FinishedOpen(s) == [s EXCEPT !.busy = "none"]

Finished(s) == [Closed(s) EXCEPT !.busy = "none"]

Init ==
    /\ ledger \in Ledgers
    /\ wallet \in Connected
    /\ holdings = None
    /\ sheet = [open |-> FALSE, choosing |-> FALSE, chosen |-> Sol, recipient |-> None,
                amount |-> NoText, plan |-> None, busy |-> "none", failed |-> FALSE]
    /\ work = None
    /\ sent = <<>> /\ pressed = <<>>
    /\ reviews = 0 /\ changes = 0 /\ told = {}

chainVars == <<ledger, changes>>
walletVars == <<wallet, holdings>>
sendVars == <<work, sent, reviews, pressed, told>>

(* Bound: the page is used only while something may still come of it. *)
Going ==
    \/ reviews < MaxReviews
    \/ sheet.busy # "none"
    \/ sheet.plan # None /\ Len(pressed) < MaxSends

(* startSend: from the list, or by the button, which lets one choose if there is a choice. *)
OpenSheet ==
    /\ Going /\ ~sheet.open /\ holdings # None
    /\ \E asset \in Listed(holdings) \cup (IF Listed(holdings) = {Sol} THEN {} ELSE {NoAsset}) :
         sheet' = [sheet EXCEPT !.open = TRUE, !.choosing = (asset = NoAsset), !.chosen = asset]
    /\ UNCHANGED <<chainVars, walletVars, sendVars>>

CloseSheet ==
    /\ sheet.open
    /\ sheet' = Closed(sheet)
    /\ UNCHANGED <<chainVars, walletVars, sendVars>>

Choose ==
    /\ Going /\ sheet.open
    /\ \/ /\ sheet.chosen = NoAsset /\ holdings # None
          /\ \E asset \in Listed(holdings) : sheet' = Chosen(sheet, asset)
       \/ /\ sheet.chosen # NoAsset /\ sheet.choosing /\ sheet.busy = "none"
          /\ sheet' = Chosen(sheet, NoAsset)
    /\ UNCHANGED <<chainVars, walletVars, sendVars>>

(* The inputs are disabled while something is under way. *)
Editable == Going /\ sheet.open /\ sheet.chosen # NoAsset /\ sheet.busy = "none"

TypeRecipient ==
    /\ Editable
    /\ \E recipient \in Accounts : sheet' = Edited(sheet, recipient, sheet.amount)
    /\ UNCHANGED <<chainVars, walletVars, sendVars>>

TypeAmount ==
    /\ Editable
    /\ \E amount \in Typed : sheet' = Edited(sheet, sheet.recipient, amount)
    /\ UNCHANGED <<chainVars, walletVars, sendVars>>

MaxText(asset) == FormatTokenAmount(MaxSendable(holdings, asset, FALSE), Decimals(asset))

PressMax ==
    /\ Editable /\ holdings # None
    /\ sheet' = Edited(sheet, sheet.recipient, MaxText(sheet.chosen))
    /\ UNCHANGED <<chainVars, walletVars, sendVars>>

-----------------------------------------------------------------------------
(* review, planTransfer *)

PressReview ==
    /\ Ready(sheet, holdings) /\ sheet.busy = "none" /\ sheet.plan = None
    /\ holdings # None
    /\ reviews < MaxReviews
    /\ reviews' = reviews + 1
    /\ sheet' = [sheet EXCEPT !.busy = "review", !.failed = FALSE]
    /\ work' = [owner |-> wallet, holdings |-> holdings, asset |-> sheet.chosen,
                recipient |-> sheet.recipient, amount |-> Raw(sheet),
                lamports |-> None,
                open |-> IF sheet.chosen.kind = "sol" THEN FALSE ELSE None]
    /\ UNCHANGED <<chainVars, walletVars, sent, pressed, told>>

(* The two requests are answered in any order, or one fails. *)
ReadRecipient ==
    /\ sheet.busy = "review"
    /\ \/ /\ work.lamports = None
          /\ work' = [work EXCEPT !.lamports = ledger.lamports[work.recipient]]
       \/ /\ work.open = None
          /\ work' = [work EXCEPT !.open = work.recipient \notin ledger.opened]
    /\ UNCHANGED <<chainVars, walletVars, sheet, sent, reviews, pressed, told>>

Planned ==
    /\ sheet.busy = "review" /\ work.lamports # None /\ work.open # None
    /\ LET request == [owner |-> work.owner, asset |-> work.asset, recipient |-> work.recipient,
                       amount |-> work.amount, openAccount |-> work.open]
       IN sheet' = [sheet EXCEPT
            !.busy = "none",
            !.plan = [request |-> request, cost |-> TransferCost(request),
                      problem |-> TransferProblem(request, work.holdings, work.lamports),
                      review |-> reviews, read |-> work]]
    /\ work' = None
    /\ UNCHANGED <<chainVars, walletVars, sent, reviews, pressed, told>>

Fail == /\ sheet' = [sheet EXCEPT !.busy = "none", !.failed = TRUE]
        /\ work' = None

PlanFails ==
    /\ sheet.busy = "review" /\ (work.lamports = None \/ work.open = None)
    /\ Fail
    /\ UNCHANGED <<chainVars, walletVars, sent, reviews, pressed, told>>

-----------------------------------------------------------------------------
(* send, sendTransfer *)

PressSend ==
    /\ Offers(sheet, holdings)
    /\ Len(pressed) < MaxSends
    /\ sheet' = [sheet EXCEPT !.busy = "send", !.failed = FALSE]
    /\ work' = [plan |-> sheet.plan, signer |-> wallet, tx |-> None, stage |-> "asked"]
    /\ pressed' = Append(pressed, [asset |-> sheet.chosen.kind, recipient |-> sheet.recipient,
                                   amount |-> Raw(sheet), payer |-> sheet.plan.request.owner])
    /\ UNCHANGED <<chainVars, walletVars, sent, reviews, told>>

(***************************************************************************)
(* What a wallet may make of a transaction: guards around it, another      *)
(* recipient or amount, a call more or less, another payer or signer.      *)
(***************************************************************************)
Altered(tx) ==
    LET last == Len(tx.calls)
    IN {tx,
        [tx EXCEPT !.calls = <<Guard>> \o @ \o <<Guard>>],
        [tx EXCEPT !.calls = @ \o <<@[last]>>],
        [tx EXCEPT !.calls = Tail(@)],
        [tx EXCEPT !.calls[last].amount = @ + 1]}
       \cup {[tx EXCEPT !.calls[last].to = a] : a \in Accounts}
       \cup {[tx EXCEPT !.feePayer = w] : w \in Wallets}
       \cup {[tx EXCEPT !.signers = @ \cup {w}] : w \in Wallets}

SendFails ==
    /\ sheet.busy = "send"
    /\ Fail
    /\ told' = told \cup {work.plan.review}
    /\ UNCHANGED <<chainVars, walletVars, sent, reviews, pressed>>

(* The approval was closed, which is not called a failure. *)
SendDismissed ==
    /\ sheet.busy = "send" /\ work.stage = "asked"
    /\ sheet' = [sheet EXCEPT !.busy = "none"]
    /\ work' = None
    /\ UNCHANGED <<chainVars, walletVars, sent, reviews, pressed, told>>

(* The wallet returns what it signed, and the page compares. *)
WalletSigns ==
    /\ sheet.busy = "send" /\ work.stage = "asked" /\ work.signer \notin SendsItself
    /\ LET asked == BuildTransferTransaction(work.plan.request)
       IN \E tx \in Altered(asked) :
            /\ AssertTransferIntact(tx, asked.calls, work.plan.request.owner)
            /\ work' = [work EXCEPT !.tx = tx, !.stage = "signed"]
    /\ UNCHANGED <<chainVars, walletVars, sheet, sent, reviews, pressed, told>>

Submitted(tx, by) ==
    Append(sent, [tx |-> tx, by |-> by, plan |-> work.plan, press |-> Len(pressed),
                  status |-> "pending"])

(***************************************************************************)
(* sendTransaction simulates first, and takes only what all its signers    *)
(* have signed.  Its answer may be lost.                                   *)
(***************************************************************************)
Broadcast ==
    /\ sheet.busy = "send" /\ work.stage = "signed"
    /\ work.tx.signers \cup {work.tx.feePayer} = {work.signer}
    /\ Succeeds(ledger, work.tx)
    /\ sent' = Submitted(work.tx, "page")
    /\ \/ /\ work' = [work EXCEPT !.stage = "sent"]
          /\ UNCHANGED <<sheet, told>>
       \/ /\ Fail
          /\ told' = told \cup {work.plan.review}
    /\ UNCHANGED <<chainVars, walletVars, reviews, pressed>>

(* A wallet that sends what it signed itself returns the signature only. *)
WalletSends ==
    /\ sheet.busy = "send" /\ work.stage = "asked" /\ work.signer \in SendsItself
    /\ \E tx \in Altered(BuildTransferTransaction(work.plan.request)) :
         /\ tx.signers \cup {tx.feePayer} = {work.signer}
         /\ sent' = Submitted(tx, "wallet")
         /\ work' = [work EXCEPT !.tx = tx, !.stage = "sent"]
    /\ UNCHANGED <<chainVars, walletVars, sheet, reviews, pressed, told>>

(* Success: the holdings are read again, and the sheet is closed. *)
Confirmed ==
    /\ sheet.busy = "send" /\ work.stage = "sent"
    /\ sent[Len(sent)].status = "landed"
    /\ sheet' = Finished(sheet)
    /\ holdings' \in {holdings} \cup (IF wallet = work.signer THEN {Snapshot(wallet)} ELSE {})
    /\ work' = None
    /\ UNCHANGED <<chainVars, wallet, sent, reviews, pressed, told>>

-----------------------------------------------------------------------------
(* Meanwhile. *)

Land ==
    /\ \E i \in DOMAIN sent :
         /\ sent[i].status = "pending"
         /\ \/ /\ Succeeds(ledger, sent[i].tx)
               /\ ledger' = Outcome(ledger, sent[i].tx)
               /\ sent' = [sent EXCEPT ![i].status = "landed"]
            \/ /\ Payable(ledger, sent[i].tx) /\ ~Succeeds(ledger, sent[i].tx)
               /\ ledger' = Charged(ledger, sent[i].tx)
               /\ sent' = [sent EXCEPT ![i].status = "failed"]
            \/ /\ sent' = [sent EXCEPT ![i].status = "dropped"]
               /\ UNCHANGED ledger
    /\ UNCHANGED <<changes, walletVars, sheet, work, reviews, pressed, told>>

(* Others pay, or are paid; a recipient's token account is opened or closed. *)
ChainChanges ==
    /\ Going /\ changes < MaxChanges
    /\ changes' = changes + 1
    /\ \E a \in Accounts :
         \/ \E n \in Lamports : ledger' = [ledger EXCEPT !.lamports[a] = n]
         \/ /\ a \notin ledger.opened
            /\ ledger' = [ledger EXCEPT !.opened = @ \cup {a}]
         \/ /\ a \in ledger.opened \ ledger.frozen /\ ledger.tokens[a] = 0
            /\ ledger' = [ledger EXCEPT !.opened = @ \ {a}]
    /\ UNCHANGED <<walletVars, sheet, sendVars>>

SwitchWallet ==
    /\ Going /\ changes < MaxChanges
    /\ changes' = changes + 1
    /\ \E w \in Wallets \ {wallet} : wallet' = w
    /\ holdings' = None
    /\ UNCHANGED <<ledger, sheet, sendVars>>

Fetch ==
    /\ Going
    /\ holdings' = Snapshot(wallet)
    /\ UNCHANGED <<chainVars, wallet, sheet, sendVars>>

Next ==
    \/ OpenSheet \/ CloseSheet \/ Choose \/ TypeRecipient \/ TypeAmount \/ PressMax
    \/ PressReview \/ ReadRecipient \/ Planned \/ PlanFails
    \/ PressSend \/ SendFails \/ SendDismissed \/ WalletSigns \/ Broadcast \/ WalletSends
    \/ Confirmed
    \/ Land \/ ChainChanges \/ SwitchWallet \/ Fetch

Spec == Init /\ [][Next]_vars

-----------------------------------------------------------------------------
(* Properties. *)

\* What the plan was made of still holds: nothing changed since it was read.
StillTrue(plan) ==
    LET read == plan.read
        to   == plan.request.recipient
    IN /\ read.holdings = Snapshot(plan.request.owner)
       /\ read.lamports = ledger.lamports[to]
       /\ read.asset \in {Sol, read.holdings.token}
       /\ read.open = (read.asset # Sol /\ to \notin ledger.opened)
       /\ to \notin ledger.frozen

\* Rent of the account it opens that no total counts: of the extensions its token program adds.
LeftOut(request) == IF request.openAccount THEN ExtensionRent ELSE 0

\* What is offered to be sent leaves the wallet with what it needs to live on, by the total shown.
\* If nothing changed since it was reviewed the chain accepts it, unless what the total leaves
\* out eats into that; and when it does, exactly the amount reaches the recipient and exactly the
\* total and what it leaves out leave the wallet (transferProblem and transferCost agree with the
\* fees and rents of the network, but for extensions of a token account they open).
OfferedIsSendable ==
    Offers(sheet, holdings) /\ StillTrue(sheet.plan) =>
        LET request == sheet.plan.request
            owner   == request.owner
            to      == request.recipient
            tx      == BuildTransferTransaction(request)
            end     == Outcome(ledger, tx)
            left    == ledger.lamports[owner] - sheet.plan.cost.solOut
        IN /\ left >= SystemAccountRent
           /\ Succeeds(ledger, tx) <=> Lives(left - LeftOut(request))
           /\ Succeeds(ledger, tx) =>
                 /\ end.lamports[owner] = left - LeftOut(request)
                 /\ IF request.asset = Sol
                    THEN end.lamports[to] - ledger.lamports[to] = request.amount
                    ELSE end.tokens[to] - ledger.tokens[to] = request.amount

\* Max fills in the most that can be sent: that text is taken as an amount that somebody who has
\* an account can be sent, and one unit more cannot be.  If it is taken as none, nothing can be
\* sent (maxSendable, the texts of amounts and transferProblem agree).
MaxIsMost ==
    holdings # None =>
        \A asset \in Listed(holdings), to \in Accounts \ {holdings.wallet} :
            LET raw == UiAmountToRaw(MaxText(asset), Decimals(asset))
                Problem(amount) ==
                    TransferProblem([owner |-> holdings.wallet, asset |-> asset, recipient |-> to,
                                     amount |-> amount, openAccount |-> FALSE],
                                    holdings, SystemAccountRent)
            IN IF raw = NoAmount THEN Problem(1) # "none"
               ELSE /\ Problem(raw) = "none" \/ (asset # Sol /\ NeedsSolForFees(holdings))
                    /\ Problem(raw + 1) # "none"

PaysAsShown(tx, shown) ==
    /\ tx.feePayer = shown.payer /\ tx.signers = {shown.payer}
    /\ \E n \in DOMAIN tx.calls :
         /\ {m \in DOMAIN tx.calls : tx.calls[m].call \in {"pay", "token"}} = {n}
         /\ tx.calls[n].from = shown.payer \/ tx.calls[n].call = "token"
         /\ tx.calls[n].to = shown.recipient /\ tx.calls[n].amount = shown.amount
         /\ tx.calls[n].call = "pay" <=> shown.asset = "sol"

\* A transaction the page sends makes one payment: what the sheet showed when Send was pressed,
\* to whom it showed, from the wallet reviewed and no other (the plan belongs to the form, and
\* assertTransferIntact lets through nothing but guards).
SentAsShown ==
    \A i \in DOMAIN sent :
        sent[i].by = "page" => PaysAsShown(sent[i].tx, pressed[sent[i].press])

\* What was reviewed once is sent a second time only after the sheet said that sending failed
\* (a send under way disables the form, and a success closes it).
AgainOnlyIfFailed ==
    \A i, j \in DOMAIN sent :
        i < j /\ sent[i].plan.review = sent[j].plan.review => sent[i].plan.review \in told

\* A transfer that succeeds takes no more SOL from the wallet than the total it was reviewed with
\* (TransferCost: "All the SOL that leaves the wallet").
NoMoreThanShown ==
    [][\A i \in DOMAIN sent :
         sent'[i].status = "landed" /\ sent[i].status = "pending" /\ sent[i].by = "page" =>
            LET payer == sent[i].tx.feePayer
            IN ledger.lamports[payer] - ledger'.lamports[payer] <= sent[i].plan.cost.solOut]_vars

-----------------------------------------------------------------------------
(* The inductive invariant behind SentAsShown and AgainOnlyIfFailed, in parts. *)

IsSequence(s) == s \in Seq({s[i] : i \in DOMAIN s})

\* The shape of the page's state; what amounts and plans are made of does not matter here.
TypeOK ==
    /\ wallet \in Wallets
    /\ DOMAIN sheet = {"open", "choosing", "chosen", "recipient", "amount", "plan", "busy", "failed"}
    /\ sheet.busy \in {"none", "review", "send"}
    /\ sheet.busy = "review" =>
          DOMAIN work = {"owner", "holdings", "asset", "recipient", "amount", "lamports", "open"}
    /\ sheet.busy = "send" => /\ DOMAIN work = {"plan", "signer", "tx", "stage"}
                              /\ work.stage \in {"asked", "signed", "sent"}
    /\ IsSequence(sent) /\ IsSequence(pressed)
    /\ \A i \in DOMAIN sent : DOMAIN sent[i] = {"tx", "by", "plan", "press", "status"}
    /\ reviews \in Nat

\* What is read for a review, and what was planned, is what the form says, if it says anything.
FormFits ==
    /\ ~sheet.open => sheet.recipient = None
    /\ sheet.busy = "review" =>
          /\ sheet.plan = None
          /\ sheet.recipient # None =>
                /\ work.recipient = sheet.recipient /\ work.amount = Raw(sheet)
                /\ work.asset = sheet.chosen /\ sheet.chosen # NoAsset
    /\ sheet.plan # None /\ sheet.recipient # None =>
          LET request == sheet.plan.request
          IN /\ request.recipient = sheet.recipient /\ request.amount = Raw(sheet)
             /\ request.asset = sheet.chosen

\* What the sheet shows of a request.
ShownFor(request) == [asset |-> request.asset.kind, recipient |-> request.recipient,
                      amount |-> request.amount, payer |-> request.owner]

\* What is being sent is the plan that was shown when Send was pressed last, and intact.
SendFits ==
    sheet.busy = "send" =>
        LET request == work.plan.request
        IN /\ sheet.plan \in {None, work.plan}
           /\ Len(pressed) \in DOMAIN pressed
           /\ pressed[Len(pressed)] = ShownFor(request)
           /\ work.stage = "signed" =>
                AssertTransferIntact(work.tx, TransferInstructions(request), request.owner)

\* Plans are numbered as they are made.
PlansNumbered ==
    /\ sheet.busy = "review" => reviews # 0
    /\ sheet.plan # None => sheet.plan.review \in 1 .. reviews
    /\ sheet.busy = "send" => work.plan.review \in 1 .. reviews
    /\ \A i \in DOMAIN sent : /\ sent[i].plan.review \in 1 .. reviews
                              /\ sheet.busy = "review" => sent[i].plan.review # reviews
                              /\ sent[i].press \in DOMAIN pressed

\* What was sent and not said to have failed is at hand only until its sending ends.
SentIsSpent ==
    \A i \in DOMAIN sent :
        \/ sent[i].plan.review \in told
        \/ /\ sheet.plan # None /\ sheet.plan.review = sent[i].plan.review => sheet.busy = "send"
           /\ sheet.busy = "send" /\ work.plan.review = sent[i].plan.review => work.stage = "sent"

Inv ==
    /\ TypeOK
    /\ FormFits /\ SendFits /\ SentAsShown
    /\ PlansNumbered /\ SentIsSpent /\ AgainOnlyIfFailed
-----------------------------------------------------------------------------
(* What stands behind the properties about the chain: the types of amounts, plans and
   transactions, and that a plan says what was found for its request. *)

Tokens == [kind : {"token"}, account : Accounts, amount : Nat, frozen : BOOLEAN]
Assets == {Sol} \cup Tokens
Holdings == [wallet : Wallets, lamports : Nat, token : Tokens]
Requests == [owner : Wallets, asset : Assets, recipient : Accounts, amount : Nat,
             openAccount : BOOLEAN]
Calls == {Guard}
         \cup [call : {"pay"}, from : Accounts, to : Accounts, amount : Nat]
         \cup [call : {"open"}, payer : Accounts, owner : Accounts]
         \cup [call : {"token"}, from : Accounts, authority : Accounts, to : Accounts,
               amount : Nat]
Transactions == [feePayer : Accounts, signers : SUBSET Wallets, calls : Seq(Calls)]

\* No account is left with less than its rent.
LedgerLives == ledger \in Ledger /\ \A a \in Accounts : Lives(ledger.lamports[a])

FormTyped ==
    /\ holdings = None \/ holdings \in Holdings
    /\ sheet.chosen \in Assets \cup {NoAsset}
    /\ sheet.recipient \in Accounts \cup {None}
    /\ sheet.amount \in Text

PlanFits(plan) ==
    /\ plan.request \in Requests
    /\ plan.read.asset = plan.request.asset /\ plan.read.open = plan.request.openAccount
    /\ plan.cost = TransferCost(plan.request)
    /\ plan.problem = TransferProblem(plan.request, plan.read.holdings, plan.read.lamports)

IntactFor(tx, request) ==
    AssertTransferIntact(tx, TransferInstructions(request), request.owner)

WorkFits ==
    /\ sheet.busy = "review" =>
          /\ work.owner \in Wallets /\ work.asset \in Assets /\ work.recipient \in Accounts
          /\ work.amount \in Nat /\ work.open \in BOOLEAN \cup {None}
    /\ sheet.busy = "send" =>
          /\ PlanFits(work.plan)
          /\ work.stage = "signed" => /\ work.tx \in Transactions
                                      /\ IntactFor(work.tx, work.plan.request)
    /\ sheet.plan # None => PlanFits(sheet.plan)

SentFits ==
    \A i \in DOMAIN sent :
        /\ PlanFits(sent[i].plan) /\ sent[i].tx \in Transactions
        /\ sent[i].by = "page" => IntactFor(sent[i].tx, sent[i].plan.request)

Sound == LedgerLives /\ FormTyped /\ WorkFits /\ SentFits
=============================================================================
