------------------------------ MODULE LinkFlow ------------------------------
(***************************************************************************)
(* Claiming an accessory on a phone: the screen that fetches a challenge   *)
(* naming the connected wallet, has the accessory sign it, has the wallet  *)
(* approve the set_owner transaction, and sends it.                        *)
(*                                                                         *)
(* The screen is a React component: its state variables, the refs that     *)
(* copy two of them at each render, one effect, and async functions that   *)
(* go on with the values of the render they began in.  An event handler,   *)
(* or what follows an await, runs with the render and the effect it causes *)
(* as one step; wallets are switched, answers arrive and timers fire       *)
(* between the steps.  (No clock: a timer that is set may fire any time.)  *)
(***************************************************************************)
EXTENDS Integers

CONSTANTS
    Wallets,
    None,
    MaxTaps         \* bound: the accessory's sign count

ASSUME LinkAssumption == None \notin Wallets /\ MaxTaps \in Nat

VARIABLES
    address,        \* wallet.address: who is connected
    prepared,       \* the wallet named by the challenge at hand
    tapping,        \* the wallet named by the challenge being signed
    tapped,         \* the tap to be used: wallet named and sign count
    phase,          \* of finishLink
    approving,      \* what finishLink was called with: the tap, the wallet
    linked,         \* the wallet the page says is the owner
    failure,        \* what went wrong, as the page tells it
    refreshing,     \* the wallet of the prepareTap awaited by this effect's refresh
    timer,          \* the stale timer is set
    failures,       \* prepareFailures, up to two
    counter,        \* the accessory's sign count
    submitted,      \* transactions sent, until they are refused or too old
    landed,         \* those executed
    told            \* history: what the page said of the approval with each tap

effectVars == <<prepared, tapped, refreshing, timer>>
screenVars == <<address, tapping, phase, approving, linked, failure, failures>>
chainVars == <<counter, submitted, landed, told>>
vars == <<effectVars, screenVars, chainVars>>

Counts == 1 .. MaxTaps

Tap == [wallet : Wallets, count : Counts]

(* A set_owner transaction: the recipient, who signs and pays, and the tap. *)
Transaction == [signer : Wallets, tap : Tap]

Phases == {"none", "preparing", "approve", "confirming"}

Failures == {"none", "unknown", "wallet_rejected", "too_slow", "already_used",
             "tap_unfinished"}

Verdicts == {"nothing", "dismissed", "unknown", "wallet_rejected", "too_slow", "already_used",
             "linked"}

View ==
    IF linked # None THEN "done"
    ELSE IF address = None THEN "choose"
    ELSE IF tapped = None THEN "tap"
    ELSE "confirm"

-----------------------------------------------------------------------------
(* The effect, on [wallet.address, phase, linked, retry]. *)

\* Faulty variant of the next definition: the tap is kept for another try.
StartOverKeeping(rendered) ==
    /\ prepared' = None
    /\ tapped' = rendered
    /\ refreshing' = IF rendered = None THEN address' ELSE None

(***************************************************************************)
(* The tap and the challenge are dropped, and refresh called, which does   *)
(* nothing while the ref still holds the tap of this render.               *)
(***************************************************************************)
StartOver(rendered) ==
    /\ prepared' = None
    /\ tapped' = None
    /\ refreshing' = IF rendered = None THEN address' ELSE None

(***************************************************************************)
(* A dependency has changed.  The refresh under way is cancelled, and the  *)
(* screen starts over unless a tap or an approval is going on.             *)
(***************************************************************************)
Effect(rendered) ==
    /\ timer' = FALSE
    /\ \/ /\ tapping' # None \/ phase' # "none" \/ linked' # None
          /\ tapped' = rendered
          /\ refreshing' = None
          /\ UNCHANGED prepared
       \/ /\ tapping' = None /\ phase' = "none" /\ linked' = None
          /\ StartOver(rendered)

(* wallet-context: a wallet is connected, switched or disconnected. *)
SwitchWallet(wallet) ==
    /\ wallet # address
    /\ address' = wallet
    /\ UNCHANGED <<tapping, phase, approving, linked, failure, failures, chainVars>>
    /\ Effect(tapped)

(***************************************************************************)
(* prepareTap answers with a challenge for the wallet it was called with,  *)
(* the timer is set; or it fails, which the first time nobody is told.     *)
(***************************************************************************)
Prepared ==
    /\ refreshing # None
    /\ refreshing' = None
    /\ tapped = None
    /\ prepared' = refreshing
    /\ timer' = TRUE
    /\ failures' = 0
    /\ UNCHANGED <<tapped, address, tapping, phase, approving, linked, failure, chainVars>>

PreparedTooLate ==
    /\ refreshing # None
    /\ tapped # None
    /\ refreshing' = None
    /\ UNCHANGED <<prepared, tapped, timer, screenVars, chainVars>>

PrepareFails ==
    /\ refreshing # None
    /\ refreshing' = None
    /\ failures' = IF failures = 2 THEN 2 ELSE failures + 1
    /\ failure' = IF failures = 0 THEN failure ELSE "unknown"
    /\ UNCHANGED <<prepared, tapped, timer, address, tapping, phase, approving, linked,
                   chainVars>>

TimerFires ==
    /\ timer
    /\ timer' = FALSE
    /\ refreshing' = IF tapped = None /\ tapping = None THEN address ELSE None
    /\ UNCHANGED <<prepared, tapped, screenVars, chainVars>>

-----------------------------------------------------------------------------
(* tap *)

PressTap ==
    /\ View = "tap"
    /\ prepared # None
    /\ tapping = None
    /\ tapping' = prepared
    /\ prepared' = None
    /\ failure' = "none"
    /\ UNCHANGED <<tapped, refreshing, timer, address, phase, approving, linked, failures,
                   chainVars>>

Tapped ==
    /\ tapping # None
    /\ counter < MaxTaps
    /\ counter' = counter + 1
    /\ tapped' = [wallet |-> tapping, count |-> counter']
    /\ tapping' = None
    /\ UNCHANGED <<prepared, refreshing, timer, address, phase, approving, linked, failure,
                   failures, submitted, landed, told>>

(* The prompt is dismissed, or another accessory tapped: retry changes. *)
TapFails ==
    /\ tapping # None
    /\ tapping' = None
    /\ failure' = "tap_unfinished"
    /\ UNCHANGED <<address, phase, approving, linked, failures, chainVars>>
    /\ Effect(tapped)

MayExpire == tapped # None /\ phase = "none" /\ linked = None

(* tapExpired, called by the countdown. *)
TapExpires ==
    /\ MayExpire
    /\ tapped' = None
    /\ failure' = "too_slow"
    /\ UNCHANGED <<prepared, refreshing, timer, address, tapping, phase, approving, linked,
                   failures, chainVars>>

-----------------------------------------------------------------------------
(* approveHere and finishLink *)

Approve ==
    /\ View = "confirm"
    /\ phase = "none"
    /\ phase' = "preparing"
    /\ approving' = [tap |-> tapped, wallet |-> address]
    /\ failure' = "none"
    /\ UNCHANGED <<address, tapping, linked, failures, chainVars>>
    /\ Effect(tapped)

Proceed(to) ==
    /\ phase' = to
    /\ UNCHANGED <<address, tapping, approving, linked, failure, failures>>
    /\ Effect(tapped)

(* The approval is over; one that was dismissed is not reported. *)
Fail(how) ==
    /\ phase' = "none"
    /\ approving' = None
    /\ failure' = IF how = "dismissed" THEN "none" ELSE how
    /\ told' = [told EXCEPT ![approving.tap.count] = how]
    /\ UNCHANGED <<address, tapping, linked, failures, counter>>
    /\ Effect(tapped)

\* Faulty variant of the next definition: the tap of another wallet will do.
NamedByAnyTap(wallet, tap) == TRUE

NamedByTap(wallet, tap) == tap.wallet = wallet

(* completeTransfer refuses a wallet the tap does not name. *)
Build ==
    /\ phase = "preparing"
    /\ \/ /\ NamedByTap(approving.wallet, approving.tap)
          /\ Proceed("approve")
          /\ UNCHANGED chainVars
       \/ Fail("unknown") /\ UNCHANGED <<submitted, landed>>

(***************************************************************************)
(* The wallet is dismissed, refuses, or gives back a transaction that      *)
(* validateLinkTransaction rejects; or the preflight does.  Nothing is     *)
(* sent.                                                                   *)
(***************************************************************************)
NotSent ==
    /\ phase = "approve"
    /\ \E how \in {"dismissed", "wallet_rejected", "too_slow", "already_used"} : Fail(how)
    /\ UNCHANGED <<submitted, landed>>

(***************************************************************************)
(* Signed and sent, by the page or by the wallet.  The answer may be lost. *)
(***************************************************************************)
Send ==
    /\ phase = "approve"
    /\ submitted' = submitted \cup {[signer |-> approving.wallet, tap |-> approving.tap]}
    /\ UNCHANGED landed
    /\ \/ Proceed("confirming") /\ UNCHANGED <<counter, told>>
       \/ Fail("unknown")

Ours(tx) == tx.tap.count = approving.tap.count

\* Faulty variant of the next definition: the last transaction of the accessory will do.
ExecutedAny == landed # {}

Executed == \E tx \in landed : Ours(tx)

(* waitForConfirmation finds the transaction, executed or refused. *)
Confirmed ==
    /\ phase = "confirming"
    /\ UNCHANGED <<submitted, landed>>
    /\ \/ /\ Executed
          /\ linked' = approving.wallet
          /\ phase' = "none"
          /\ approving' = None
          /\ told' = [told EXCEPT ![approving.tap.count] = "linked"]
          /\ UNCHANGED <<address, tapping, failure, failures, counter>>
          /\ Effect(tapped)
       \/ /\ ~\E tx \in submitted : Ours(tx)
          /\ \E how \in {"too_slow", "already_used"} : Fail(how)

\* Faulty variant of the next definition: polling goes on for ever.
GiveUpNever == FALSE

(* A status request fails, or none has found the transaction for 90 seconds. *)
GiveUp ==
    /\ phase = "confirming"
    /\ Fail("unknown")
    /\ UNCHANGED <<submitted, landed>>

(* The program accepts a tap that names the signer and is newer than the last. *)
Land(tx) ==
    /\ tx.signer = tx.tap.wallet
    /\ \A earlier \in landed : earlier.tap.count < tx.tap.count
    /\ landed' = landed \cup {tx}
    /\ UNCHANGED <<effectVars, screenVars, counter, submitted, told>>

(* It is refused, or its blockhash or slot is too old. *)
Drop(tx) ==
    /\ tx \notin landed
    /\ submitted' = submitted \ {tx}
    /\ UNCHANGED <<effectVars, screenVars, counter, landed, told>>

-----------------------------------------------------------------------------

(* The page is opened with the wallet restored by an earlier session, or none. *)
Init ==
    /\ address \in Wallets \cup {None}
    /\ refreshing = address
    /\ prepared = None /\ tapping = None /\ tapped = None
    /\ phase = "none" /\ approving = None /\ linked = None
    /\ failure = "none" /\ timer = FALSE /\ failures = 0
    /\ counter = 0 /\ submitted = {} /\ landed = {}
    /\ told = [count \in Counts |-> "nothing"]

Person ==
    \/ \E wallet \in Wallets \cup {None} : SwitchWallet(wallet)
    \/ PressTap \/ Tapped \/ TapFails
    \/ Approve \/ NotSent

Page ==
    \/ Prepared \/ PreparedTooLate \/ PrepareFails \/ TimerFires \/ TapExpires
    \/ Build \/ Send \/ Confirmed \/ GiveUp

Chain == \E tx \in submitted : Land(tx) \/ Drop(tx)

Next == Person \/ Page \/ Chain

(***************************************************************************)
(* Requests are answered or fail, timers fire, the poll for a transaction  *)
(* ends.  People, wallets and the chain promise nothing.                   *)
(***************************************************************************)
Fairness ==
    /\ WF_vars(Prepared \/ PreparedTooLate \/ PrepareFails)
    /\ WF_vars(TimerFires)
    /\ WF_vars(TapExpires)
    /\ WF_vars(Build)
    /\ WF_vars(Confirmed \/ GiveUp)

Spec == Init /\ [][Next]_vars /\ Fairness

-----------------------------------------------------------------------------

(* The shape of the screen's state, and of the transactions it sent. *)
TypeOK ==
    /\ {address, prepared, tapping, linked, refreshing} \subseteq Wallets \cup {None}
    /\ tapped \in Tap \cup {None}
    /\ phase \in Phases
    /\ approving \in [tap : Tap, wallet : Wallets] \cup {None}
    /\ failure \in Failures
    /\ timer \in BOOLEAN
    /\ failures \in 0 .. 2
    /\ counter \in 0 .. MaxTaps
    /\ landed \subseteq submitted /\ submitted \subseteq Transaction
    /\ told \in [Counts -> Verdicts]

(***************************************************************************)
(* The page sends a transaction only for the wallet the accessory was      *)
(* asked to approve: a wallet switched while the accessory is held, or     *)
(* after the tap, is never signed up with somebody else's tap.             *)
(***************************************************************************)
SentForTheTapped == \A tx \in submitted : tx.signer = tx.tap.wallet

(***************************************************************************)
(* What the page says of an approval is so, and stays so: linked means the *)
(* program has made this wallet the owner; cancelled, too slow or already  *)
(* used mean this tap never does, however late transactions land.          *)
(***************************************************************************)
SaidIsSo ==
    \A count \in Counts :
        LET executed == {tx \in landed : tx.tap.count = count} IN
        /\ told[count] = "linked" => \E tx \in executed : tx.signer = linked
        /\ told[count] \in {"dismissed", "wallet_rejected", "too_slow", "already_used"}
           => executed = {}

(***************************************************************************)
(* A tap is good for one approval: once the page has said how it ended, it *)
(* never takes the same tap to the wallet again.                           *)
(***************************************************************************)
OneApprovalPerTap == approving # None => told[approving.tap.count] = "nothing"

(***************************************************************************)
(* The page never waits for a transaction for ever.                        *)
(***************************************************************************)
ConfirmingEnds == phase = "confirming" ~> phase = "none"

(***************************************************************************)
(* What the page says of any other failure: "Nothing was changed".         *)
(* (Refuted: it says so of a transaction that was sent and lands later.)   *)
(***************************************************************************)
NothingWasChanged ==
    \A tx \in landed : told[tx.tap.count] # "unknown"

-----------------------------------------------------------------------------
(* The inductive invariant behind these properties, in parts. *)

(* One thing at a time: a tap is asked for, then used, and its use ends the page. *)
OneThingAtATime ==
    /\ tapping # None => tapped = None /\ phase = "none"
    /\ phase = "none" => approving = None
    /\ phase # "none" => /\ approving \in [tap : Tap, wallet : Wallets]
                         /\ tapped = approving.tap /\ tapped # None
                         /\ linked = None

(* Taps are numbered as they come: nothing is sent or said of one to come. *)
NothingOfLaterTaps ==
    /\ \A tx \in submitted : tx.tap.count <= counter
    /\ \A count \in Counts : count > counter => told[count] = "nothing"

(* The tap at hand is not used yet: nothing is said of it, or sent before the approval. *)
TapIsUnused ==
    tapped # None /\ linked = None =>
        /\ tapped.count <= counter
        /\ told[tapped.count] = "nothing"
        /\ phase # "confirming" => \A tx \in submitted : tx.tap.count # tapped.count

(* From the build on, the wallet that approves is the one the tap names, and it alone sends. *)
ApprovedAsTapped ==
    /\ phase \in {"approve", "confirming"} => approving.tap.wallet = approving.wallet
    /\ phase = "confirming" => \A tx \in submitted : Ours(tx) => tx.signer = approving.wallet

(* What is said of a tap leaves no transaction that could still belie it. *)
SaidForGood ==
    \A count \in Counts :
        /\ told[count] = "linked" =>
              /\ linked # None
              /\ \E tx \in landed : tx.tap.count = count /\ tx.signer = linked
        /\ told[count] \in {"dismissed", "wallet_rejected", "too_slow", "already_used"} =>
              \A tx \in submitted : tx.tap.count # count

Inv ==
    /\ TypeOK
    /\ OneThingAtATime
    /\ NothingOfLaterTaps
    /\ TapIsUnused
    /\ ApprovedAsTapped
    /\ SentForTheTapped
    /\ SaidForGood
=============================================================================
