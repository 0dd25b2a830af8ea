--------------------------- MODULE LinkFlowProofs ---------------------------
(***************************************************************************)
(* Proofs about the claim screen, for any wallets and any number of taps.  *)
(***************************************************************************)
EXTENDS LinkFlow, TLAPS

(***************************************************************************)
(* What the effect may do to the tap at hand: keep it, or drop it when no  *)
(* tap, approval or result is on the screen.                               *)
(***************************************************************************)
LEMMA EffectKeepsOrDrops ==
    ASSUME NEW rendered, Effect(rendered), TypeOK,
           address' \in Wallets \cup {None}
    PROVE  /\ timer' \in BOOLEAN
           /\ prepared' \in Wallets \cup {None}
           /\ refreshing' \in Wallets \cup {None}
           /\ tapped' = rendered \/ tapped' = None
           /\ tapping' # None \/ phase' # "none" \/ linked' # None => tapped' = rendered
           /\ tapping' = None /\ phase' = "none" /\ linked' = None => tapped' = None
BY DEF Effect, StartOver, TypeOK

(***************************************************************************)
(* A step that sends nothing, says nothing and leaves approvals alone, and *)
(* that changes the tap at hand, if it does, by dropping it.               *)
(***************************************************************************)
LEMMA QuietStep ==
    ASSUME Inv, TypeOK',
           UNCHANGED <<phase, approving, linked, counter, submitted, landed, told>>,
           tapped' = tapped \/ tapped' = None,
           phase # "none" => tapped' = tapped,
           tapping' # None => tapped' = None /\ phase = "none"
    PROVE  Inv'
<1>1. OneThingAtATime'
  BY DEF Inv, OneThingAtATime
<1>2. NothingOfLaterTaps' /\ SentForTheTapped' /\ SaidForGood'
  BY DEF Inv, NothingOfLaterTaps, SentForTheTapped, SaidForGood
<1>3. TapIsUnused'
  BY DEF Inv, TapIsUnused
<1>4. ApprovedAsTapped'
  BY DEF Inv, ApprovedAsTapped, Ours
<1> QED
  BY <1>1, <1>2, <1>3, <1>4 DEF Inv

(***************************************************************************)
(* Before the approval: wallets are switched, challenges come and go, taps *)
(* are asked for, fail or run out.                                         *)
(***************************************************************************)
LEMMA BeforeStep ==
    ASSUME Inv,
           \/ \E wallet \in Wallets \cup {None} : SwitchWallet(wallet)
           \/ Prepared \/ PreparedTooLate \/ PrepareFails \/ TimerFires
           \/ PressTap \/ TapFails \/ TapExpires
    PROVE  Inv'
<1> USE DEF screenVars, chainVars
<1>1. CASE \E wallet \in Wallets \cup {None} : SwitchWallet(wallet)
  <2>1. address' \in Wallets \cup {None} /\ Effect(tapped)
        /\ UNCHANGED <<tapping, phase, approving, linked, failure, failures, chainVars>>
    BY <1>1 DEF SwitchWallet
  <2>2. TypeOK'
    BY <2>1, EffectKeepsOrDrops DEF Inv, TypeOK
  <2> QED
    BY <2>1, <2>2, EffectKeepsOrDrops, QuietStep DEF Inv, OneThingAtATime
<1>2. CASE TapFails
  <2>1. Effect(tapped) /\ tapping' = None /\ failure' = "tap_unfinished"
        /\ UNCHANGED <<address, phase, approving, linked, failures, chainVars>>
    BY <1>2 DEF TapFails
  <2>2. TypeOK'
    BY <2>1, EffectKeepsOrDrops DEF Inv, TypeOK, Failures
  <2> QED
    BY <2>1, <2>2, EffectKeepsOrDrops, QuietStep DEF Inv, TypeOK
<1>3. CASE Prepared \/ PreparedTooLate \/ PrepareFails \/ TimerFires
  <2>1. TypeOK'
    <3>1. CASE Prepared
      <4>1. timer' \in BOOLEAN /\ failures' \in 0 .. 2
        BY <3>1 DEF Prepared
      <4> QED
        BY <3>1, <4>1 DEF Prepared, Inv, TypeOK
    <3>4. CASE PreparedTooLate
      BY <3>4 DEF PreparedTooLate, Inv, TypeOK
    <3>2. CASE PrepareFails
      <4>1. failures' \in 0 .. 2 /\ failure' \in Failures
        BY <3>2 DEF PrepareFails, Inv, TypeOK, Failures
      <4> QED
        BY <3>2, <4>1 DEF PrepareFails, Inv, TypeOK
    <3>3. CASE TimerFires
      BY <3>3 DEF TimerFires, Inv, TypeOK
    <3> QED
      BY <1>3, <3>1, <3>2, <3>3, <3>4
  <2> QED
    BY <1>3, <2>1, QuietStep
       DEF Prepared, PreparedTooLate, PrepareFails, TimerFires, Inv, OneThingAtATime
<1>4. CASE PressTap
  <2>1. TypeOK'
    BY <1>4 DEF PressTap, Inv, TypeOK, Failures
  <2>2. tapped = None /\ tapped' = None /\ phase = "none"
    BY <1>4 DEF PressTap, View, Inv, OneThingAtATime
  <2> QED
    BY <1>4, <2>1, <2>2, QuietStep DEF PressTap
<1>5. CASE TapExpires
  <2>1. TypeOK'
    BY <1>5 DEF TapExpires, Inv, TypeOK, Failures
  <2> QED
    BY <1>5, <2>1, QuietStep DEF TapExpires, MayExpire, Inv, OneThingAtATime
<1> QED
  BY <1>1, <1>2, <1>3, <1>4, <1>5

(***************************************************************************)
(* A tap: its count is the next, so nothing has been sent or said of it.   *)
(***************************************************************************)
LEMMA TappedStep == Inv /\ Tapped => Inv'
<1> SUFFICES ASSUME Inv, Tapped
             PROVE  Inv'
  OBVIOUS
<1> USE LinkAssumption
<1>1. /\ tapped' = [wallet |-> tapping, count |-> counter + 1] /\ counter' = counter + 1
      /\ tapping \in Wallets /\ tapping' = None
      /\ counter \in 0 .. MaxTaps /\ counter + 1 \in Counts
      /\ phase = "none"
      /\ UNCHANGED <<prepared, refreshing, timer, address, phase, approving, linked, failure,
                     failures, submitted, landed, told>>
  BY DEF Tapped, Inv, TypeOK, OneThingAtATime, Counts
<1>2. TypeOK'
  <2>1. tapped' \in Tap
    BY <1>1 DEF Tap
  <2> QED
    BY <1>1, <2>1 DEF Inv, TypeOK, Counts
<1>3. OneThingAtATime'
  BY <1>1 DEF Inv, OneThingAtATime
<1>4. NothingOfLaterTaps'
  BY <1>1 DEF Inv, TypeOK, NothingOfLaterTaps, Transaction, Tap, Counts
<1>5. TapIsUnused'
  BY <1>1 DEF Inv, TypeOK, NothingOfLaterTaps, TapIsUnused, Transaction, Tap, Counts
<1>6. ApprovedAsTapped' /\ SentForTheTapped' /\ SaidForGood'
  BY <1>1 DEF Inv, ApprovedAsTapped, SentForTheTapped, SaidForGood
<1> QED
  BY <1>2, <1>3, <1>4, <1>5, <1>6 DEF Inv

(***************************************************************************)
(* The approval begins, with the tap at hand, or goes on to its next       *)
(* phase: the tap is kept.                                                 *)
(***************************************************************************)
LEMMA ApproveStep == Inv /\ Approve => Inv'
<1> SUFFICES ASSUME Inv, Approve
             PROVE  Inv'
  OBVIOUS
<1>1. /\ tapped # None /\ tapped \in Tap /\ linked = None /\ address \in Wallets
      /\ phase = "none" /\ phase' = "preparing" /\ tapping = None
      /\ approving' = [tap |-> tapped, wallet |-> address] /\ failure' = "none"
      /\ UNCHANGED <<address, tapping, linked, failures, counter, submitted, landed, told>>
      /\ Effect(tapped)
  BY DEF Approve, View, Inv, TypeOK, OneThingAtATime, chainVars
<1>2. /\ tapped' = tapped /\ timer' \in BOOLEAN
      /\ prepared' \in Wallets \cup {None} /\ refreshing' \in Wallets \cup {None}
  BY <1>1, EffectKeepsOrDrops DEF Inv
<1>3. TypeOK'
  BY <1>1, <1>2 DEF Inv, TypeOK, Phases, Failures
<1>4. OneThingAtATime'
  BY <1>1, <1>2 DEF Inv, OneThingAtATime
<1>5. TapIsUnused' /\ NothingOfLaterTaps' /\ ApprovedAsTapped'
  BY <1>1, <1>2 DEF Inv, TapIsUnused, NothingOfLaterTaps, ApprovedAsTapped
<1>6. SentForTheTapped' /\ SaidForGood'
  BY <1>1 DEF Inv, SentForTheTapped, SaidForGood
<1> QED
  BY <1>3, <1>4, <1>5, <1>6 DEF Inv

(***************************************************************************)
(* The approval fails: the tap is dropped, and what the page says of it    *)
(* leaves no transaction that could belie it.                              *)
(***************************************************************************)
LEMMA FailStep ==
    ASSUME Inv, phase # "none",
           NEW how \in {"dismissed", "unknown", "wallet_rejected", "too_slow", "already_used"},
           Fail(how), landed' = landed,
           \/ submitted' = submitted
           \/ /\ phase = "approve" /\ how = "unknown"
              /\ submitted' = submitted \cup {[signer |-> approving.wallet, tap |-> approving.tap]},
           how # "unknown" => \A tx \in submitted' : tx.tap.count # approving.tap.count
    PROVE  Inv'
<1>1. /\ phase' = "none" /\ approving' = None /\ tapping' = None /\ linked' = None
      /\ tapped' = None /\ timer' \in BOOLEAN
      /\ prepared' \in Wallets \cup {None} /\ refreshing' \in Wallets \cup {None}
      /\ told' = [told EXCEPT ![approving.tap.count] = how]
      /\ UNCHANGED <<address, tapping, linked, failures, counter>>
      /\ failure' = IF how = "dismissed" THEN "none" ELSE how
  BY EffectKeepsOrDrops DEF Fail, Inv, TypeOK, OneThingAtATime
<1>2. /\ approving.tap \in Tap /\ approving.wallet \in Wallets
      /\ approving.tap.count \in Counts
      /\ approving.tap.count <= counter
      /\ told[approving.tap.count] = "nothing"
      /\ phase # "confirming" => \A tx \in submitted : tx.tap.count # approving.tap.count
      /\ phase = "approve" => approving.wallet = approving.tap.wallet
  BY DEF Inv, OneThingAtATime, TapIsUnused, ApprovedAsTapped, Tap
<1>3. /\ submitted' \subseteq Transaction /\ submitted \subseteq submitted'
      /\ \A tx \in submitted' :
            \/ tx \in submitted
            \/ /\ phase = "approve" /\ how = "unknown"
               /\ tx.signer = approving.wallet /\ tx.tap = approving.tap
  BY <1>2 DEF Inv, TypeOK, Transaction
<1>4. /\ told'[approving.tap.count] = how
      /\ \A count \in Counts \ {approving.tap.count} : told'[count] = told[count]
      /\ told' \in [Counts -> Verdicts]
  BY <1>1, <1>2 DEF Inv, TypeOK, Verdicts
<1>5. TypeOK'
  BY <1>1, <1>3, <1>4 DEF Inv, TypeOK, Phases, Failures
<1>6. OneThingAtATime' /\ TapIsUnused' /\ ApprovedAsTapped'
  BY <1>1 DEF OneThingAtATime, TapIsUnused, ApprovedAsTapped
<1>7. NothingOfLaterTaps' /\ SentForTheTapped'
  BY <1>1, <1>2, <1>3, <1>4 DEF Inv, TypeOK, NothingOfLaterTaps, SentForTheTapped, Counts
<1>8. SaidForGood'
  BY <1>1, <1>2, <1>3, <1>4 DEF Inv, OneThingAtATime, SaidForGood
<1> QED
  BY <1>5, <1>6, <1>7, <1>8 DEF Inv

(***************************************************************************)
(* The transaction is built: only for the wallet the tap names.            *)
(***************************************************************************)
LEMMA BuildStep == Inv /\ Build => Inv'
<1> SUFFICES ASSUME Inv, Build
             PROVE  Inv'
  OBVIOUS
<1>1. CASE Fail("unknown") /\ UNCHANGED <<submitted, landed>>
  BY <1>1, FailStep DEF Build
<1>2. CASE /\ NamedByTap(approving.wallet, approving.tap) /\ Proceed("approve")
           /\ UNCHANGED chainVars
  <2>1. /\ phase = "preparing" /\ phase' = "approve"
        /\ approving.tap.wallet = approving.wallet /\ approving' = approving
        /\ UNCHANGED <<address, tapping, linked, failure, failures, counter, submitted, landed,
                       told>>
        /\ tapped' = tapped /\ timer' \in BOOLEAN
        /\ prepared' \in Wallets \cup {None} /\ refreshing' \in Wallets \cup {None}
    BY <1>2, EffectKeepsOrDrops DEF Build, Proceed, NamedByTap, chainVars, Inv, TypeOK
  <2>2. TypeOK'
    BY <2>1 DEF Inv, TypeOK, Phases
  <2>3. OneThingAtATime' /\ NothingOfLaterTaps' /\ TapIsUnused' /\ ApprovedAsTapped'
    BY <2>1 DEF Inv, OneThingAtATime, NothingOfLaterTaps, TapIsUnused, ApprovedAsTapped
  <2>4. SentForTheTapped' /\ SaidForGood'
    BY <2>1 DEF Inv, SentForTheTapped, SaidForGood
  <2> QED
    BY <2>2, <2>3, <2>4 DEF Inv
<1> QED
  BY <1>1, <1>2 DEF Build

(***************************************************************************)
(* The transaction is sent: the first with this tap, by the wallet it      *)
(* names.                                                                  *)
(***************************************************************************)
LEMMA SendStep == Inv /\ Send => Inv'
<1> SUFFICES ASSUME Inv, Send
             PROVE  Inv'
  OBVIOUS
<1>1. CASE Fail("unknown")
  BY <1>1, FailStep DEF Send
<1>2. CASE Proceed("confirming") /\ UNCHANGED <<counter, told>>
  <2>1. /\ phase = "approve" /\ phase' = "confirming" /\ approving' = approving
        /\ UNCHANGED <<address, tapping, linked, failure, failures, counter, landed, told>>
        /\ submitted' = submitted \cup {[signer |-> approving.wallet, tap |-> approving.tap]}
        /\ tapped' = tapped /\ timer' \in BOOLEAN
        /\ prepared' \in Wallets \cup {None} /\ refreshing' \in Wallets \cup {None}
    BY <1>2, EffectKeepsOrDrops DEF Send, Proceed, Inv, TypeOK
  <2>2. /\ approving.tap \in Tap /\ approving.wallet \in Wallets
        /\ approving.tap.count \in Counts
        /\ approving.tap.count <= counter
        /\ told[approving.tap.count] = "nothing"
        /\ \A tx \in submitted : tx.tap.count # approving.tap.count
        /\ approving.wallet = approving.tap.wallet
    BY <2>1 DEF Inv, OneThingAtATime, TapIsUnused, ApprovedAsTapped, Tap
  <2>3. TypeOK'
    BY <2>1, <2>2 DEF Inv, TypeOK, Phases, Transaction
  <2>4. OneThingAtATime' /\ TapIsUnused'
    BY <2>1 DEF Inv, OneThingAtATime, TapIsUnused
  <2>5. NothingOfLaterTaps' /\ SentForTheTapped'
    BY <2>1, <2>2 DEF Inv, NothingOfLaterTaps, SentForTheTapped
  <2>6. ApprovedAsTapped'
    BY <2>1, <2>2 DEF Inv, ApprovedAsTapped, Ours
  <2>7. SaidForGood'
    BY <2>1, <2>2 DEF Inv, SaidForGood
  <2> QED
    BY <2>3, <2>4, <2>5, <2>6, <2>7 DEF Inv
<1> QED
  BY <1>1, <1>2 DEF Send

(***************************************************************************)
(* The wait ends: the transaction that executed is the one the page sent.  *)
(***************************************************************************)
LEMMA ConfirmedStep == Inv /\ Confirmed => Inv'
<1> SUFFICES ASSUME Inv, Confirmed
             PROVE  Inv'
  OBVIOUS
<1>1. CASE /\ ~\E tx \in submitted : Ours(tx)
           /\ \E how \in {"too_slow", "already_used"} : Fail(how)
  BY <1>1, FailStep DEF Confirmed, Ours
<1>2. CASE /\ Executed
           /\ linked' = approving.wallet /\ phase' = "none" /\ approving' = None
           /\ told' = [told EXCEPT ![approving.tap.count] = "linked"]
           /\ UNCHANGED <<address, tapping, failure, failures, counter>>
           /\ Effect(tapped)
  <2>1. /\ phase = "confirming" /\ submitted' = submitted /\ landed' = landed
        /\ approving.tap \in Tap /\ approving.wallet \in Wallets
        /\ approving.tap.count \in Counts
        /\ approving.tap.count <= counter
        /\ linked = None /\ tapping = None
    BY DEF Confirmed, Inv, TypeOK, OneThingAtATime, TapIsUnused, Tap
  <2>2. PICK tx \in landed : tx.tap.count = approving.tap.count /\ tx.signer = approving.wallet
    BY <1>2, <2>1 DEF Executed, Ours, Inv, TypeOK, ApprovedAsTapped
  <2>3. /\ tapped' = tapped /\ timer' \in BOOLEAN /\ linked' # None
        /\ prepared' \in Wallets \cup {None} /\ refreshing' \in Wallets \cup {None}
    BY <1>2, <2>1, EffectKeepsOrDrops, LinkAssumption DEF Inv, TypeOK
  <2>4. /\ told'[approving.tap.count] = "linked"
        /\ \A count \in Counts \ {approving.tap.count} : told'[count] = told[count]
        /\ told' \in [Counts -> Verdicts]
    BY <1>2, <2>1 DEF Inv, TypeOK, Verdicts
  <2>5. TypeOK'
    BY <1>2, <2>1, <2>3, <2>4 DEF Inv, TypeOK, Phases
  <2>6. OneThingAtATime' /\ TapIsUnused' /\ ApprovedAsTapped'
    BY <1>2, <2>1, <2>3 DEF OneThingAtATime, TapIsUnused, ApprovedAsTapped
  <2>7. NothingOfLaterTaps' /\ SentForTheTapped'
    BY <1>2, <2>1, <2>4 DEF Inv, TypeOK, NothingOfLaterTaps, SentForTheTapped, Counts
  <2>8. SaidForGood'
    BY <1>2, <2>1, <2>2, <2>3, <2>4 DEF Inv, SaidForGood
  <2> QED
    BY <2>5, <2>6, <2>7, <2>8 DEF Inv
<1> QED
  BY <1>1, <1>2 DEF Confirmed

(***************************************************************************)
(* Transactions land or are dropped, at any time.                          *)
(***************************************************************************)
LEMMA ChainStep == Inv /\ Chain => Inv'
<1> SUFFICES ASSUME Inv, NEW tx \in submitted, Land(tx) \/ Drop(tx)
             PROVE  Inv'
  BY DEF Chain
<1>1. /\ UNCHANGED <<effectVars, screenVars, counter, told>>
      /\ submitted' \subseteq submitted /\ landed \subseteq landed'
      /\ landed' \subseteq submitted'
  BY DEF Land, Drop, Inv, TypeOK
<1> USE DEF effectVars, screenVars
<1>2. TypeOK'
  BY <1>1 DEF Inv, TypeOK
<1>3. OneThingAtATime' /\ NothingOfLaterTaps' /\ TapIsUnused'
  BY <1>1 DEF Inv, OneThingAtATime, NothingOfLaterTaps, TapIsUnused
<1>4. ApprovedAsTapped' /\ SentForTheTapped' /\ SaidForGood'
  BY <1>1 DEF Inv, ApprovedAsTapped, Ours, SentForTheTapped, SaidForGood
<1> QED
  BY <1>2, <1>3, <1>4 DEF Inv

-----------------------------------------------------------------------------
(***************************************************************************)
(* The inductive invariant: the tap at hand is unused until its approval   *)
(* ends, and what is then said of it is for good.                          *)
(***************************************************************************)
THEOREM InvCorrect == Spec => []Inv
<1>1. Init => Inv
  <2> SUFFICES ASSUME Init
               PROVE  Inv
    OBVIOUS
  <2>1. TypeOK
    <3>1. phase \in Phases /\ failure \in Failures /\ failures \in 0 .. 2
      BY DEF Init, Phases, Failures
    <3>3. timer \in BOOLEAN
      BY Zenon DEF Init
    <3>2. counter \in 0 .. MaxTaps /\ told \in [Counts -> Verdicts]
      BY LinkAssumption DEF Init, Verdicts
    <3> QED
      BY <3>1, <3>2, <3>3 DEF Init, TypeOK
  <2>2. OneThingAtATime /\ NothingOfLaterTaps /\ TapIsUnused
    BY DEF Init, OneThingAtATime, NothingOfLaterTaps, TapIsUnused
  <2>3. ApprovedAsTapped /\ SentForTheTapped /\ SaidForGood
    BY DEF Init, ApprovedAsTapped, SentForTheTapped, SaidForGood
  <2> QED
    BY <2>1, <2>2, <2>3 DEF Inv
<1>2. Inv /\ [Next]_vars => Inv'
  <2> SUFFICES ASSUME Inv, [Next]_vars
               PROVE  Inv'
    OBVIOUS
  <2>1. CASE UNCHANGED vars
    BY <2>1 DEF vars, effectVars, screenVars, chainVars, Inv, TypeOK, OneThingAtATime,
       NothingOfLaterTaps, TapIsUnused, ApprovedAsTapped, Ours, SentForTheTapped, SaidForGood
  <2>2. CASE NotSent
    <3>1. \A tx \in submitted : tx.tap.count # approving.tap.count
      BY <2>2 DEF NotSent, Inv, OneThingAtATime, TapIsUnused
    <3> QED
      BY <2>2, <3>1, FailStep DEF NotSent
  <2>3. CASE GiveUp
    BY <2>3, FailStep DEF GiveUp
  <2> QED
    BY <2>1, <2>2, <2>3, BeforeStep, TappedStep, ApproveStep, BuildStep, SendStep,
       ConfirmedStep, ChainStep DEF Next, Person, Page
<1> QED
  BY <1>1, <1>2, PTL DEF Spec

(***************************************************************************)
(* Every transaction the page sends is signed by the wallet the accessory  *)
(* was asked to approve.                                                   *)
(***************************************************************************)
THEOREM AlwaysSentForTheTapped == Spec => []SentForTheTapped
<1>1. Inv => SentForTheTapped
  BY DEF Inv
<1> QED
  BY <1>1, InvCorrect, PTL

(***************************************************************************)
(* What the page says of an approval is so, and stays so.                  *)
(***************************************************************************)
THEOREM AlwaysSaidIsSo == Spec => []SaidIsSo
<1>1. Inv => SaidIsSo
  BY DEF Inv, TypeOK, SaidForGood, SaidIsSo
<1> QED
  BY <1>1, InvCorrect, PTL

(***************************************************************************)
(* No tap is taken to the wallet again once the page has said how its      *)
(* approval ended.                                                         *)
(***************************************************************************)
THEOREM AlwaysOneApprovalPerTap == Spec => []OneApprovalPerTap
<1>1. Inv => OneApprovalPerTap
  BY DEF Inv, OneThingAtATime, TapIsUnused, OneApprovalPerTap
<1> QED
  BY <1>1, InvCorrect, PTL
=============================================================================
