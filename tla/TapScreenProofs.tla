-------------------------- MODULE TapScreenProofs --------------------------
(***************************************************************************)
(* Proofs about the page of an expired tap, for any lifetimes and any      *)
(* number of requests and taps under way.                                  *)
(***************************************************************************)
EXTENDS TapScreen, FiniteSetTheorems, TLAPS

(***************************************************************************)
(* A call for a challenge takes a free place and leaves the others alone.  *)
(***************************************************************************)
LEMMA PreparedCalls ==
    ASSUME NEW now \in [Calls -> Call]
    PROVE  /\ Prepared(now) \in [Calls -> Call]
           /\ \A c \in Calls : \/ Prepared(now)[c] = now[c]
                               \/ /\ now[c].stage = "none"
                                  /\ Prepared(now)[c].stage = "asked"
                                  /\ ~Prepared(now)[c].waited
           /\ \E c \in Calls : Prepared(now)[c].stage # "none"
<1> DEFINE free == {c \in Calls : now[c].stage = "none"}
           asked == [NoCall EXCEPT !.stage = "asked"]
           first == CHOOSE c \in free : TRUE
<1>1. asked \in Call /\ asked.stage = "asked" /\ ~asked.waited
  <2>1. NoCall \in Call /\ ~NoCall.waited
    BY TapScreenAssumption DEF NoCall, Call, Ages
  <2> QED
    BY <2>1 DEF Call
<1>2. Prepared(now) = IF free = {} THEN now ELSE [now EXCEPT ![first] = asked]
  BY DEF Prepared
<1>3. free # {} => first \in free
  OBVIOUS
<1> HIDE DEF asked, first
<1>4. CASE free = {}
  BY <1>2, <1>4, TapScreenAssumption
<1>5. CASE free # {}
  BY <1>1, <1>2, <1>3, <1>5
<1> QED
  BY <1>4, <1>5

(***************************************************************************)
(* A period makes what is under way a period older.                        *)
(***************************************************************************)
LEMMA AgedCall ==
    ASSUME NEW call \in Call
    PROVE  /\ Aged(call) \in Call
           /\ Aged(call).stage = call.stage
           /\ Aged(call).waited <=> call.stage # "none"
<1>1. NoCall \in Call /\ NoCall.stage = "none" /\ ~NoCall.waited
  BY TapScreenAssumption DEF NoCall, Call, Ages
<1>2. CASE call.stage = "none"
  BY <1>1, <1>2 DEF Aged
<1>3. CASE call.stage # "none"
  <2> DEFINE marked == [call EXCEPT !.waited = TRUE]
             age == IF call.stage = "issued" THEN Older(call.age) ELSE call.age
  <2>1. marked \in Call /\ marked.stage = call.stage /\ marked.waited /\ marked.age = call.age
    BY DEF Call
  <2>2. age \in Ages
    BY TapScreenAssumption DEF Call, Ages, Older
  <2>3. Aged(call) = [marked EXCEPT !.age = age]
    BY <1>3 DEF Aged
  <2> HIDE DEF marked, age
  <2> QED
    BY <1>3, <2>1, <2>2, <2>3 DEF Call
<1> QED
  BY <1>2, <1>3

(***************************************************************************)
(* A lifetime has an end, and ages come to it one at a time.               *)
(***************************************************************************)
LEMMA OlderAge ==
    ASSUME NEW age \in Ages
    PROVE  Older(age) \in Ages /\ Older(age) <= age + 1
BY TapScreenAssumption DEF Ages, Older

(***************************************************************************)
(* Steps that leave the challenge alone: whatever was asked for is still   *)
(* under way, and what is asked for now has not waited yet.                *)
(***************************************************************************)
CallsGoOn ==
    \A c \in Calls :
        /\ calls[c].waited => calls'[c].waited
        /\ UnderWay(c) => UnderWay(c)'
        /\ calls'[c].waited => UnderWay(c)'

LEMMA SameChallenge ==
    ASSUME RefreshedInTime, CallsGoOn, UNCHANGED <<able, page, challenge, lost>>
    PROVE  RefreshedInTime'
BY DEF RefreshedInTime, CallsGoOn, Shown

(***************************************************************************)
(* A page that shows no challenge, or is gone, owes nothing.               *)
(***************************************************************************)
LEMMA NothingOffered ==
    ASSUME RefreshedInTime, UNCHANGED calls, challenge' = NoChallenge \/ ~Shown'
    PROVE  RefreshedInTime'
BY DEF RefreshedInTime, UnderWay

(***************************************************************************)
(* Steps after which the same taps are under way.                          *)
(***************************************************************************)
LEMMA SameTaps ==
    ASSUME TappingIsOneTap, UNCHANGED <<page, tapping>>,
           \A t \in Taps : taps'[t].stage = "none" <=> taps[t].stage = "none"
    PROVE  TappingIsOneTap'
<1>1. {u \in Taps : taps'[u].stage # "none"} = {u \in Taps : taps[u].stage # "none"}
  OBVIOUS
<1> QED
  BY <1>1 DEF TappingIsOneTap, Shown

(***************************************************************************)
(* The timer: an old challenge is replaced.                                *)
(***************************************************************************)
LEMMA PeriodStep ==
    ASSUME Inv, Period
    PROVE  Inv'
<1> DEFINE aged == [c \in Calls |-> Aged(calls[c])]
           later == IF challenge = NoChallenge THEN challenge
                    ELSE [age |-> Older(challenge.age), held |-> Older(challenge.held)]
           older == [t \in Taps |-> IF taps[t].stage = "none" THEN NoTap
                                    ELSE [taps[t] EXCEPT !.age = Older(@)]]
<1>1. /\ Shown
      /\ challenge' = later
      /\ taps' = older
      /\ calls' = IF Due(later) THEN Prepared(aged) ELSE aged
      /\ UNCHANGED <<able, page, tapping, failure, lost>>
  BY DEF Period
<1>2. TypeOK
  BY DEF Inv
<1>3. /\ aged \in [Calls -> Call]
      /\ \A c \in Calls : /\ aged[c].stage = calls[c].stage
                          /\ aged[c].waited <=> UnderWay(c)
  BY <1>2, AgedCall DEF TypeOK, UnderWay
<1>4. /\ later \in Challenge \cup {NoChallenge}
      /\ later # NoChallenge => challenge # NoChallenge
      /\ challenge # NoChallenge =>
             later.held \in Ages /\ challenge.held \in Ages /\ later.held <= challenge.held + 1
  <2>1. CASE challenge = NoChallenge
    BY <2>1
  <2>2. CASE challenge # NoChallenge
    <3>1. challenge.age \in Ages /\ challenge.held \in Ages
      BY <1>2, <2>2 DEF TypeOK, Challenge
    <3> QED
      BY <2>2, <3>1, OlderAge DEF Challenge
  <2> QED
    BY <2>1, <2>2
<1>5. /\ older \in [Taps -> Tap]
      /\ \A t \in Taps : older[t].stage = "none" <=> taps[t].stage = "none"
  <2> SUFFICES ASSUME NEW t \in Taps
               PROVE  older[t] \in Tap /\ (older[t].stage = "none" <=> taps[t].stage = "none")
    BY Zenon
  <2>1. taps[t] \in Tap
    BY <1>2 DEF TypeOK
  <2>2. CASE taps[t].stage = "none"
    <3>1. older[t] = NoTap /\ NoTap.stage = "none" /\ 0 \in Ages
      BY <2>2, TapScreenAssumption DEF NoTap, Ages
    <3> QED
      BY <2>2, <3>1 DEF NoTap, Tap
  <2>3. CASE taps[t].stage # "none"
    <3>1. Older(taps[t].age) \in Ages
      BY <2>1, OlderAge DEF Tap
    <3>2. older[t] = [taps[t] EXCEPT !.age = Older(taps[t].age)]
      BY <2>3
    <3> QED
      BY <2>1, <2>3, <3>1, <3>2 DEF Tap
  <2> QED
    BY <2>2, <2>3
<1> HIDE DEF aged, later, older
<1>6. /\ calls' \in [Calls -> Call]
      /\ \A c \in Calls : /\ UnderWay(c) => calls'[c].waited
                          /\ calls'[c].waited => UnderWay(c)'
      /\ Due(later) => \E c \in Calls : UnderWay(c)'
  BY <1>1, <1>3, PreparedCalls DEF UnderWay
<1>7. TypeOK'
  BY <1>1, <1>2, <1>4, <1>5, <1>6 DEF TypeOK
<1>8. RefreshedInTime'
  <2> SUFFICES ASSUME able, challenge # NoChallenge, ~lost, later # NoChallenge,
                      ~ \E c \in Calls : calls'[c].waited
               PROVE  \/ later.held <= RefreshAfter
                      \/ later.held <= RefreshAfter + 1 /\ \E c \in Calls : UnderWay(c)'
    BY <1>1, <1>4, <1>6 DEF RefreshedInTime, UnderWay
  <2>1. \A c \in Calls : ~UnderWay(c)
    BY <1>6
  <2>2. challenge.held <= RefreshAfter
    BY <1>1, <2>1 DEF Inv, RefreshedInTime
  <2>3. later.held <= RefreshAfter + 1
    BY <1>4, <2>2, TapScreenAssumption DEF Ages
  <2>4. CASE later.held > RefreshAfter
    BY <1>6, <2>3, <2>4 DEF Due
  <2>5. CASE ~(later.held > RefreshAfter)
    BY <1>4, <2>5, TapScreenAssumption DEF Ages
  <2> QED
    BY <2>4, <2>5
<1>9. TappingIsOneTap'
  BY <1>1, <1>5, SameTaps DEF Inv
<1> QED
  BY <1>7, <1>8, <1>9 DEF Inv

(***************************************************************************)
(* Requests for a challenge.                                               *)
(***************************************************************************)
LEMMA NoCallFree == NoCall \in Call /\ NoCall.stage = "none" /\ ~NoCall.waited
BY TapScreenAssumption DEF NoCall, Call, Ages

LEMMA IssueStep ==
    ASSUME Inv, NEW c \in Calls, Issue(c)
    PROVE  Inv'
<1>1. /\ calls[c] \in Call
      /\ calls' = [calls EXCEPT ![c].stage = "issued"]
      /\ UNCHANGED <<able, page, challenge, tapping, failure, taps, lost>>
  BY DEF Issue, Inv, TypeOK
<1>2. calls' \in [Calls -> Call]
  BY <1>1 DEF Inv, TypeOK, Call
<1>3. CallsGoOn
  BY <1>1 DEF CallsGoOn, Inv, TypeOK, Call, UnderWay, Issue, RefreshedInTime
<1>4. RefreshedInTime'
  BY <1>1, <1>3, SameChallenge DEF Inv
<1>5. TappingIsOneTap'
  BY <1>1, SameTaps DEF Inv
<1> QED
  BY <1>1, <1>2, <1>4, <1>5 DEF Inv, TypeOK

LEMMA ReceiveStep ==
    ASSUME Inv, NEW c \in Calls, Receive(c)
    PROVE  Inv'
<1>1. /\ calls' = [calls EXCEPT ![c] = NoCall]
      /\ challenge' = IF Shown THEN [age |-> calls[c].age, held |-> 0] ELSE challenge
      /\ lost' = FALSE
      /\ UNCHANGED <<able, page, tapping, failure, taps>>
  BY DEF Receive, Ended
<1>2. calls' \in [Calls -> Call] /\ \A d \in Calls : calls'[d].waited => UnderWay(d)'
  BY <1>1, NoCallFree DEF Inv, TypeOK, RefreshedInTime, UnderWay
<1>3. challenge' \in Challenge \cup {NoChallenge}
  <2>1. calls[c].age \in Ages /\ 0 \in Ages
    BY TapScreenAssumption DEF Inv, TypeOK, Call, Ages
  <2> QED
    BY <1>1, <2>1 DEF Inv, TypeOK, Challenge
<1>4. RefreshedInTime'
  <2>1. CASE Shown
    <3>1. challenge'.held = 0 /\ 0 <= RefreshAfter
      BY <1>1, <2>1, TapScreenAssumption
    <3> QED
      BY <1>2, <3>1 DEF RefreshedInTime
  <2>2. CASE ~Shown
    BY <1>1, <1>2, <2>2 DEF RefreshedInTime, Shown
  <2> QED
    BY <2>1, <2>2
<1>5. TappingIsOneTap'
  BY <1>1, SameTaps DEF Inv
<1> QED
  BY <1>1, <1>2, <1>3, <1>4, <1>5 DEF Inv, TypeOK

LEMMA PrepareFailsStep ==
    ASSUME Inv, NEW c \in Calls, PrepareFails(c)
    PROVE  Inv'
<1>1. /\ calls' = [calls EXCEPT ![c] = NoCall]
      /\ failure' = IF Shown THEN "network" ELSE failure
      /\ lost' = TRUE
      /\ UNCHANGED <<able, page, challenge, tapping, taps>>
  BY DEF PrepareFails, Ended
<1>2. calls' \in [Calls -> Call] /\ \A d \in Calls : calls'[d].waited => UnderWay(d)'
  BY <1>1, NoCallFree DEF Inv, TypeOK, RefreshedInTime, UnderWay
<1>3. RefreshedInTime'
  BY <1>1, <1>2 DEF RefreshedInTime, Shown
<1>4. TappingIsOneTap'
  BY <1>1, SameTaps DEF Inv
<1> QED
  BY <1>1, <1>2, <1>3, <1>4 DEF Inv, TypeOK, Failures

(***************************************************************************)
(* Taps: they begin when none is under way, and the one under way ends.    *)
(***************************************************************************)
LEMMA NoTapFree == NoTap \in Tap /\ NoTap.stage = "none"
BY TapScreenAssumption DEF NoTap, Tap, Ages

LEMMA ContinueStep ==
    ASSUME Inv, NEW t \in Taps, Continue(t)
    PROVE  Inv'
<1>1. /\ Shown /\ ~tapping /\ challenge # NoChallenge
      /\ taps' = [taps EXCEPT ![t] = [stage |-> "prompt", age |-> challenge.age]]
      /\ challenge' = NoChallenge
      /\ tapping' = TRUE
      /\ failure' = "none"
      /\ UNCHANGED <<able, page, calls, lost>>
  BY DEF Continue, CanContinue
<1>2. taps' \in [Taps -> Tap]
  BY <1>1 DEF Inv, TypeOK, Challenge, Tap
<1>3. RefreshedInTime'
  BY <1>1, NothingOffered DEF Inv
<1>4. {u \in Taps : taps'[u].stage # "none"} = {t}
  <2>1. \A u \in Taps : taps[u].stage = "none"
    BY <1>1 DEF Inv, TappingIsOneTap
  <2> QED
    BY <1>1, <2>1 DEF Inv, TypeOK
<1>5. TappingIsOneTap'
  BY <1>1, <1>4 DEF TappingIsOneTap
<1> QED
  BY <1>1, <1>2, <1>3, <1>5 DEF Inv, TypeOK, Failures

LEMMA TappedStep ==
    ASSUME Inv, NEW t \in Taps, Tapped(t)
    PROVE  Inv'
<1>1. /\ taps[t].stage = "prompt"
      /\ taps' = [taps EXCEPT ![t].stage = "sent"]
      /\ UNCHANGED <<able, page, challenge, tapping, failure, calls, lost>>
  BY DEF Tapped
<1>2. taps' \in [Taps -> Tap] /\ \A u \in Taps : taps'[u].stage = "none" <=> taps[u].stage = "none"
  BY <1>1 DEF Inv, TypeOK, Tap
<1>3. CallsGoOn
  BY <1>1 DEF CallsGoOn, UnderWay, Inv, RefreshedInTime
<1> QED
  BY <1>1, <1>2, <1>3, SameTaps, SameChallenge DEF Inv, TypeOK

LEMMA ReturnsStep ==
    ASSUME Inv, NEW t \in Taps, taps[t].stage # "none", Returns(t)
    PROVE  /\ taps' \in [Taps -> Tap] /\ tapping' \in BOOLEAN
           /\ UNCHANGED page => TappingIsOneTap'
<1>1. /\ taps' = [taps EXCEPT ![t] = NoTap]
      /\ tapping' = IF Shown THEN FALSE ELSE tapping
  BY DEF Returns
<1>2. taps' \in [Taps -> Tap] /\ tapping' \in BOOLEAN
  BY <1>1, NoTapFree DEF Inv, TypeOK
<1>3. ASSUME UNCHANGED page, Shown
      PROVE  {u \in Taps : taps'[u].stage # "none"} = {}
  <2>1. \A u \in Taps : taps[u].stage # "none" => u = t
    BY <1>3 DEF Inv, TappingIsOneTap
  <2> QED
    BY <1>1, <2>1, NoTapFree DEF Inv, TypeOK
<1>4. UNCHANGED page => TappingIsOneTap'
  BY <1>1, <1>3 DEF TappingIsOneTap, Shown
<1> QED
  BY <1>2, <1>4

LEMMA FailsStep ==
    ASSUME Inv, NEW t \in Taps, taps[t].stage # "none", NEW reason \in Failures \ {"none"},
           Fails(t, reason)
    PROVE  Inv'
<1>1. /\ Returns(t)
      /\ failure' = IF Shown THEN reason ELSE failure
      /\ calls' = Prepared(calls)
      /\ UNCHANGED <<able, page, challenge, lost>>
  BY DEF Fails
<1>2. calls' \in [Calls -> Call] /\ CallsGoOn
  BY <1>1, PreparedCalls DEF Inv, TypeOK, CallsGoOn, UnderWay, RefreshedInTime
<1>3. RefreshedInTime'
  BY <1>1, <1>2, SameChallenge DEF Inv
<1> QED
  BY <1>1, <1>2, <1>3, ReturnsStep DEF Inv, TypeOK

LEMMA ResumedStep ==
    ASSUME Inv, NEW t \in Taps, Resumed(t)
    PROVE  Inv'
<1>1. /\ Returns(t) /\ taps[t].stage # "none"
      /\ page' = "accessory" /\ ~Shown'
      /\ UNCHANGED <<able, challenge, failure, calls, lost>>
  BY DEF Resumed, Shown
<1>2. RefreshedInTime' /\ TappingIsOneTap'
  BY <1>1, NothingOffered DEF Inv, TappingIsOneTap
<1> QED
  BY <1>1, <1>2, ReturnsStep DEF Inv, TypeOK

LEMMA LeaveStep ==
    ASSUME Inv, Leave
    PROVE  Inv'
<1>1. /\ page' = "home" /\ ~Shown'
      /\ UNCHANGED <<able, challenge, tapping, failure, calls, taps, lost>>
  BY DEF Leave, Shown
<1>2. RefreshedInTime' /\ TappingIsOneTap'
  BY <1>1, NothingOffered DEF Inv, TappingIsOneTap
<1> QED
  BY <1>1, <1>2 DEF Inv, TypeOK

-----------------------------------------------------------------------------

LEMMA InitInv == Init => Inv
<1> SUFFICES ASSUME Init
             PROVE  Inv
  OBVIOUS
<1> DEFINE idle == [c \in Calls |-> NoCall]
<1>1. /\ able \in BOOLEAN /\ page = "screen" /\ challenge = NoChallenge
      /\ tapping = FALSE /\ failure = "none"
      /\ calls = IF able THEN Prepared(idle) ELSE idle
      /\ taps = [t \in Taps |-> NoTap] /\ lost = FALSE
  BY DEF Init
<1>2. idle \in [Calls -> Call] /\ \A c \in Calls : ~idle[c].waited
  BY NoCallFree
<1> HIDE DEF idle
<1>3. calls \in [Calls -> Call] /\ \A c \in Calls : ~calls[c].waited
  BY <1>1, <1>2, PreparedCalls
<1>4. TypeOK
  BY <1>1, <1>3, NoTapFree DEF TypeOK, Failures
<1>5. RefreshedInTime
  BY <1>1, <1>3 DEF RefreshedInTime
<1>6. TappingIsOneTap
  BY <1>1, NoTapFree DEF TappingIsOneTap
<1> QED
  BY <1>4, <1>5, <1>6 DEF Inv

LEMMA NextInv == Inv /\ [Next]_vars => Inv'
<1> SUFFICES ASSUME Inv, [Next]_vars
             PROVE  Inv'
  OBVIOUS
<1>1. ASSUME NEW t \in Taps, TapEnds(t)
      PROVE  Inv'
  <2>1. CASE Resumed(t)
    BY <2>1, ResumedStep
  <2>2. ASSUME NEW reason \in {"tap", "too_slow", "network"}, taps[t].stage # "none",
               Fails(t, reason)
        PROVE  Inv'
    BY <2>2, FailsStep DEF Failures
  <2> QED
    BY <1>1, <2>1, <2>2 DEF TapEnds, PromptFails, TooSlow, ResumeFails
<1>2. CASE UNCHANGED vars
  BY <1>2 DEF Inv, TypeOK, RefreshedInTime, TappingIsOneTap, UnderWay, Shown, vars
<1> QED
  BY <1>1, <1>2, PeriodStep, LeaveStep, IssueStep, ReceiveStep, PrepareFailsStep,
     ContinueStep, TappedStep DEF Next

(***************************************************************************)
(* The inductive invariant: an old challenge is being replaced, or a       *)
(* request to replace it failed, and the tap under way is the one the page *)
(* knows of.                                                               *)
(***************************************************************************)
THEOREM InvCorrect == Spec => []Inv
BY InitInv, NextInv, PTL DEF Spec

(***************************************************************************)
(* Continue is not offered over a challenge the server would refuse, for   *)
(* any lifetime that is longer than the time of the timer: by the end of   *)
(* its life the challenge is due for more than a period.  The exceptions   *)
(* are a challenge that came late and a newer one that does, or was lost.  *)
(***************************************************************************)
THEOREM AlwaysOfferedIsGood == Spec => []OfferedIsGood
<1>1. Inv => OfferedIsGood
  <2> SUFFICES ASSUME Inv, CanContinue, ~Alive(challenge.age),
                      ~(challenge.age > challenge.held), ~lost
               PROVE  \E c \in Calls : calls[c].waited
    BY DEF OfferedIsGood
  <2>1. challenge.age \in Ages /\ challenge.held \in Ages
    BY DEF Inv, TypeOK, CanContinue, Challenge
  <2>2. challenge.held = ChallengeTTL
    BY <2>1, TapScreenAssumption DEF Ages, Alive
  <2>3. ~(challenge.held <= RefreshAfter) /\ ~(challenge.held <= RefreshAfter + 1)
    BY <2>2, TapScreenAssumption
  <2> QED
    BY <2>3 DEF Inv, RefreshedInTime, CanContinue
<1> QED
  BY <1>1, InvCorrect, PTL

(***************************************************************************)
(* There is one tap at a time and the page knows of it, however many the   *)
(* phone could have under way.                                             *)
(***************************************************************************)
THEOREM AlwaysOneTapAtATime == Spec => []OneTapAtATime
<1>1. Inv => OneTapAtATime
  BY FS_EmptySet, FS_Singleton DEF Inv, TypeOK, TappingIsOneTap, OneTapAtATime
<1> QED
  BY <1>1, InvCorrect, PTL
=============================================================================
