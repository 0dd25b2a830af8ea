------------------------------ MODULE TapScreen ------------------------------
(***************************************************************************)
(* The page /tap/expired: a person whose session ran out presses Continue  *)
(* and taps the accessory over a challenge the page has asked for          *)
(* beforehand (TapScreen.tsx, /api/tap/challenge, /api/tap/resume).        *)
(*                                                                         *)
(* Requests are answered late, in any order, or not at all.  Time is       *)
(* counted in periods of the page's timer (15 s), which runs in the        *)
(* foreground only: the page is taken to stay there.  A challenge is its   *)
(* two ages, so time needs no last moment.  What becomes of a response     *)
(* beyond its challenge's expiry is in TapAdmission.                       *)
(***************************************************************************)
EXTENDS Integers, FiniteSets

CONSTANTS
    ChallengeTTL,       \* CHALLENGE_TTL_MS, in periods
    RefreshAfter,       \* 90 s, in periods
    Calls,              \* bound: requests for a challenge under way at once
    Taps,               \* bound: taps under way at once
    NoChallenge

ASSUME TapScreenAssumption ==
    /\ ChallengeTTL \in Nat /\ RefreshAfter \in Nat
    /\ RefreshAfter + 1 < ChallengeTTL
    /\ Calls # {}

VARIABLES
    able,           \* the tap had expired, and canTapHere()
    page,           \* what the browser shows
    challenge,      \* the state of that name
    tapping,        \* the state of that name
    failure,        \* the state of that name: what the notice is about
    calls,          \* each prepare() under way
    taps,           \* each resume() under way
    lost            \* history: a request failed since the challenge under the button came

vars == <<able, page, challenge, tapping, failure, calls, taps, lost>>

Ages == 0 .. ChallengeTTL

(* age: since the server issued it.  held: since the page got it. *)
Challenge == [age : Ages, held : Ages]

(* waited: a period has gone by since it was sent. *)
Call == [stage : {"none", "asked", "issued"}, age : Ages, waited : BOOLEAN]

(* age: of the challenge that the accessory is asked to sign. *)
Tap == [stage : {"none", "prompt", "sent"}, age : Ages]

NoCall == [stage |-> "none", age |-> 0, waited |-> FALSE]

NoTap == [stage |-> "none", age |-> 0]

Failures == {"none", "network", "too_slow", "tap"}

Shown == page = "screen"

Older(age) == IF age = ChallengeTTL THEN age ELSE age + 1

(* consumeChallenge would still find it: expiresAt > now. *)
Alive(age) == age < ChallengeTTL

InTime(tap) == Alive(tap.age)

-----------------------------------------------------------------------------
(* prepare *)

(* The calls once prepare() was called; beyond the bound it is not. *)
Prepared(now) ==
    LET free == {c \in Calls : now[c].stage = "none"} IN
    IF free = {} THEN now
    ELSE [now EXCEPT ![CHOOSE c \in free : TRUE] = [NoCall EXCEPT !.stage = "asked"]]

Ended(c) == calls' = [calls EXCEPT ![c] = NoCall]

(* POST /api/tap/challenge: the lifetime begins here. *)
Issue(c) ==
    /\ calls[c].stage = "asked"
    /\ calls' = [calls EXCEPT ![c].stage = "issued"]
    /\ UNCHANGED <<able, page, challenge, tapping, failure, taps, lost>>

(* Whatever challenge there was is replaced, whichever is the newer. *)
Receive(c) ==
    /\ calls[c].stage = "issued"
    /\ Ended(c)
    /\ challenge' = IF Shown THEN [age |-> calls[c].age, held |-> 0] ELSE challenge
    /\ lost' = FALSE
    /\ UNCHANGED <<able, page, tapping, failure, taps>>

PrepareFails(c) ==
    /\ calls[c].stage # "none"
    /\ Ended(c)
    /\ failure' = IF Shown THEN "network" ELSE failure
    /\ lost' = TRUE
    /\ UNCHANGED <<able, page, challenge, tapping, taps>>

-----------------------------------------------------------------------------
(* The timer. *)

\* Faulty variants of the next definition: refreshed when it has expired; when it is old only.
DueAtExpiry(current) == able /\ (current = NoChallenge \/ current.held >= ChallengeTTL)

DueIfOld(current) == able /\ current # NoChallenge /\ current.held > RefreshAfter

(***************************************************************************)
(* The callback is the one of the first render, whose tapping is FALSE for *)
(* ever: it asks for a challenge while a tap is under way too.             *)
(***************************************************************************)
Due(current) == able /\ (current = NoChallenge \/ current.held > RefreshAfter)

Aged(call) ==
    IF call.stage = "none" THEN NoCall
    ELSE [call EXCEPT !.waited = TRUE, !.age = IF call.stage = "issued" THEN Older(@) ELSE @]

(* A period of the timer goes by. *)
Period ==
    LET aged == [c \in Calls |-> Aged(calls[c])]
        later == IF challenge = NoChallenge THEN challenge
                 ELSE [age |-> Older(challenge.age), held |-> Older(challenge.held)] IN
    /\ Shown
    /\ challenge' = later
    /\ taps' = [t \in Taps |-> IF taps[t].stage = "none" THEN NoTap
                               ELSE [taps[t] EXCEPT !.age = Older(@)]]
    /\ calls' = IF Due(later) THEN Prepared(aged) ELSE aged
    /\ UNCHANGED <<able, page, tapping, failure, lost>>

-----------------------------------------------------------------------------
(* resume *)

\* Faulty variant of the next definition: the button looks at the challenge only.
CanContinueWhenever == Shown /\ able /\ challenge # NoChallenge

CanContinue == Shown /\ able /\ challenge # NoChallenge /\ ~tapping

Continue(t) ==
    /\ CanContinue
    /\ taps[t].stage = "none"
    /\ taps' = [taps EXCEPT ![t] = [stage |-> "prompt", age |-> challenge.age]]
    /\ challenge' = NoChallenge
    /\ tapping' = TRUE
    /\ failure' = "none"
    /\ UNCHANGED <<able, page, calls, lost>>

(* startAuthentication answers. *)
Tapped(t) ==
    /\ taps[t].stage = "prompt"
    /\ taps' = [taps EXCEPT ![t].stage = "sent"]
    /\ UNCHANGED <<able, page, challenge, tapping, failure, calls, lost>>

\* Faulty variant of the next definition: a failed tap leaves the page tapping.
ReturnsAnyway(t) ==
    /\ taps' = [taps EXCEPT ![t] = NoTap]
    /\ UNCHANGED tapping

(* The finally clause. *)
Returns(t) ==
    /\ taps' = [taps EXCEPT ![t] = NoTap]
    /\ tapping' = IF Shown THEN FALSE ELSE tapping

(* The catch clause; a page that is gone shows nothing and asks all the same. *)
Fails(t, reason) ==
    /\ Returns(t)
    /\ failure' = IF Shown THEN reason ELSE failure
    /\ calls' = Prepared(calls)
    /\ UNCHANGED <<able, page, challenge, lost>>

(* The prompt was dismissed or timed out, or the answer is no passkey's. *)
PromptFails(t) == taps[t].stage = "prompt" /\ Fails(t, "tap")

(* verifyResume found no such challenge. *)
TooSlow(t) == taps[t].stage = "sent" /\ ~InTime(taps[t]) /\ Fails(t, "too_slow")

(* The tap was refused, or the answer was lost. *)
ResumeFails(t) ==
    \/ taps[t].stage = "sent" /\ InTime(taps[t]) /\ Fails(t, "tap")
    \/ taps[t].stage = "sent" /\ Fails(t, "network")

(* router.replace(next): wherever the person went in the meantime. *)
Resumed(t) ==
    /\ taps[t].stage = "sent" /\ InTime(taps[t])
    /\ Returns(t)
    /\ page' = "accessory"
    /\ UNCHANGED <<able, challenge, failure, calls, lost>>

(* "Your accessories" *)
Leave ==
    /\ Shown
    /\ page' = "home"
    /\ UNCHANGED <<able, challenge, tapping, failure, calls, taps, lost>>

-----------------------------------------------------------------------------

Init ==
    /\ able \in BOOLEAN
    /\ page = "screen"
    /\ challenge = NoChallenge
    /\ tapping = FALSE
    /\ failure = "none"
    /\ calls = IF able THEN Prepared([c \in Calls |-> NoCall]) ELSE [c \in Calls |-> NoCall]
    /\ taps = [t \in Taps |-> NoTap]
    /\ lost = FALSE

TapEnds(t) == PromptFails(t) \/ TooSlow(t) \/ ResumeFails(t) \/ Resumed(t)

Next ==
    \/ Period
    \/ Leave
    \/ \E c \in Calls : Issue(c) \/ Receive(c) \/ PrepareFails(c)
    \/ \E t \in Taps : Continue(t) \/ Tapped(t) \/ TapEnds(t)

(***************************************************************************)
(* The timer goes on while the page is shown.  A prompt ends (browsers     *)
(* time them out), its request is answered or fails, and of the requests   *)
(* for a challenge not every one fails.  Nobody has to press anything.     *)
(***************************************************************************)
Fairness ==
    /\ WF_vars(Period)
    /\ SF_vars(\E c \in Calls : Issue(c))
    /\ SF_vars(\E c \in Calls : Receive(c))
    /\ WF_vars(\E t \in Taps : Tapped(t) \/ TapEnds(t))

Spec == Init /\ [][Next]_vars /\ Fairness

-----------------------------------------------------------------------------

(* The shape of the page's state and of what it has under way. *)
TypeOK ==
    /\ able \in BOOLEAN
    /\ page \in {"screen", "home", "accessory"}
    /\ challenge \in Challenge \cup {NoChallenge}
    /\ tapping \in BOOLEAN
    /\ failure \in Failures
    /\ calls \in [Calls -> Call]
    /\ taps \in [Taps -> Tap]
    /\ lost \in BOOLEAN

(***************************************************************************)
(* Continue is not offered over a challenge the server would refuse.  The  *)
(* only exceptions: the challenge was on its way for a period or more, a   *)
(* newer one is, or a request for a newer one failed since it came.        *)
(***************************************************************************)
OfferedIsGood ==
    CanContinue /\ ~Alive(challenge.age) =>
        \/ challenge.age > challenge.held
        \/ \E c \in Calls : calls[c].waited
        \/ lost

(***************************************************************************)
(* There is one tap at a time, and the page knows of it: although the      *)
(* timer puts a new challenge under the button during a tap.               *)
(***************************************************************************)
OneTapAtATime ==
    Shown => Cardinality({t \in Taps : taps[t].stage # "none"}) = IF tapping THEN 1 ELSE 0

(***************************************************************************)
(* However many requests and taps failed, the person comes to press        *)
(* Continue, unless they leave: the page is never preparing for good.      *)
(***************************************************************************)
ComesToContinue == Shown /\ able ~> CanContinue \/ ~Shown

-----------------------------------------------------------------------------
(* The inductive invariant behind these properties, in parts. *)

UnderWay(c) == calls[c].stage # "none"

(* A challenge due to be replaced is being replaced, unless a request for another failed. *)
RefreshedInTime ==
    /\ \A c \in Calls : calls[c].waited => UnderWay(c)
    /\ Shown /\ able /\ challenge # NoChallenge /\ ~lost =>
          \/ challenge.held <= RefreshAfter
          \/ challenge.held <= RefreshAfter + 1 /\ \E c \in Calls : UnderWay(c)
          \/ \E c \in Calls : calls[c].waited

(* The tap the page knows of is the one that is under way. *)
TappingIsOneTap ==
    Shown =>
        /\ tapping => \E t \in Taps : {u \in Taps : taps[u].stage # "none"} = {t}
        /\ ~tapping => {u \in Taps : taps[u].stage # "none"} = {}

Inv == TypeOK /\ RefreshedInTime /\ TappingIsOneTap
=============================================================================
