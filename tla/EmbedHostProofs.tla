-------------------------- MODULE EmbedHostProofs --------------------------
(***************************************************************************)
(* Proofs about the in-app browser, for any wallets and any number of      *)
(* requests and reloads.                                                   *)
(***************************************************************************)
EXTENDS EmbedHost, TLAPS

(***************************************************************************)
(* Answering a request changes its step and its answer only.               *)
(***************************************************************************)
LEMMA AnsweredTask ==
    ASSUME NEW asked \in Task, NEW answer \in Answers
    PROVE  LET ended == Answered(asked, answer) IN
           /\ ended \in Task
           /\ ended.step = "done" /\ ended.kind = asked.kind
           /\ ended.host = asked.host /\ ended.account = asked.account
           /\ ended.answer = IF asked.host = host THEN answer ELSE "none"
<1> DEFINE given == IF asked.host = host THEN answer ELSE "none"
           ended == [asked EXCEPT !.step = "done"]
<1>1. Answered(asked, answer) = [ended EXCEPT !.answer = given]
  BY DEF Answered
<1>2. ended \in Task /\ ended.step = "done" /\ ended.kind = asked.kind
      /\ ended.host = asked.host /\ ended.account = asked.account
  BY DEF Task, Steps
<1>3. given \in Answers
  BY DEF Answers
<1> HIDE DEF ended, given
<1>4. [ended EXCEPT !.answer = given] \in Task
  BY <1>2, <1>3 DEF Task
<1>5. /\ [ended EXCEPT !.answer = given].step = "done"
      /\ [ended EXCEPT !.answer = given].kind = asked.kind
      /\ [ended EXCEPT !.answer = given].host = asked.host
      /\ [ended EXCEPT !.answer = given].account = asked.account
      /\ [ended EXCEPT !.answer = given].answer = given
  BY <1>2, <1>3 DEF Task
<1> QED
  BY <1>1, <1>4, <1>5 DEF given

(***************************************************************************)
(* A request that asks the person, or waits for the wallet, is otherwise   *)
(* as it was.                                                              *)
(***************************************************************************)
LEMMA WaitingTask ==
    ASSUME NEW asked \in Task, NEW wallet \in Account, NEW to \in Steps
    PROVE  LET asking == Waiting(asked, to, wallet) IN
           /\ asking \in Task
           /\ asking.step = to /\ asking.account = wallet
           /\ asking.host = asked.host /\ asking.answer = asked.answer
<1> DEFINE moved == [asked EXCEPT !.step = to]
<1>1. Waiting(asked, to, wallet) = [moved EXCEPT !.account = wallet]
  BY DEF Waiting
<1>2. moved \in Task /\ moved.step = to /\ moved.host = asked.host
      /\ moved.answer = asked.answer
  BY DEF Task
<1> HIDE DEF moved
<1>3. [moved EXCEPT !.account = wallet] \in Task
  BY <1>2 DEF Task
<1>4. /\ [moved EXCEPT !.account = wallet].step = to
      /\ [moved EXCEPT !.account = wallet].account = wallet
      /\ [moved EXCEPT !.account = wallet].host = asked.host
      /\ [moved EXCEPT !.account = wallet].answer = asked.answer
  BY <1>2 DEF Task
<1> QED
  BY <1>1, <1>3, <1>4

LEMMA SentTask ==
    ASSUME TypeOK, NEW kind \in Kinds
    PROVE  /\ Sent(kind) \in Task
           /\ Sent(kind).host = host /\ Sent(kind).answer = "none"
           /\ Sent(kind).kind = kind
BY DEF Sent, Task, Steps, Answers, Account, TypeOK

(***************************************************************************)
(* How a connect request goes on: it is answered, with the account if it   *)
(* is the one remembered, or the person is asked about the account.        *)
(***************************************************************************)
LEMMA ProceedOutcome ==
    ASSUME TypeOK, NEW request \in Requests, NEW asked \in Task, NEW wallet \in Account,
           Proceed(request, asked, wallet)
    PROVE  /\ UNCHANGED <<remembered, consents, host>>
           /\ task' \in [Requests -> Task]
           /\ \A other \in Requests \ {request} : task'[other] = task[other]
           /\ task'[request].host = asked.host
           /\ \/ task'[request].answer = asked.answer
              \/ task'[request].answer \in {"refused", "none"}
              \/ task'[request].answer = wallet /\ wallet = remembered
           /\ \/ task'[request].step = "done" /\ approval' = approval
              \/ /\ task'[request].step = "asking" /\ approval' = request
                 /\ task'[request].account = wallet /\ wallet \in Wallets
           /\ told' = told \/ (told' = told \cup {remembered} /\ remembered \in Wallets)
<1> USE DEF TypeOK
<1>1. CASE wallet = None
  <2>1. "refused" \in Answers
    BY DEF Answers
  <2> QED
    BY <1>1, <2>1, AnsweredTask DEF Proceed
<1>2. CASE wallet # None /\ wallet = remembered
  <2>1. wallet \in Answers /\ wallet \in Wallets
    BY <1>2 DEF Answers, Account
  <2>2. task' = [task EXCEPT ![request] = Answered(asked, wallet)]
        /\ UNCHANGED <<remembered, consents, host, approval>>
        /\ told' = IF asked.host = host THEN told \cup {wallet} ELSE told
    BY <1>2 DEF Proceed, Ask
  <2> QED
    BY <1>2, <2>1, <2>2, AnsweredTask
<1>3. CASE wallet # None /\ wallet # remembered
  <2>1. Ask(request, asked, wallet) /\ UNCHANGED <<remembered, consents, host, told>>
    BY <1>3 DEF Proceed
  <2>2. "refused" \in Answers /\ "asking" \in Steps /\ wallet \in Wallets
    BY <1>3 DEF Answers, Steps, Account
  <2>3. CASE task' = [task EXCEPT ![request] = Answered(asked, "refused")]
             /\ UNCHANGED approval
    BY <2>1, <2>2, <2>3, AnsweredTask
  <2>4. CASE /\ task' = [task EXCEPT ![request] = Waiting(asked, "asking", wallet)]
             /\ approval' = request
    BY <2>1, <2>2, <2>4, WaitingTask
  <2> QED
    BY <2>1, <2>3, <2>4 DEF Ask
<1> QED
  BY <1>1, <1>2, <1>3

LEMMA NoneIsNoRequest == None \notin Requests
BY EmbedAssumption DEF Requests

-----------------------------------------------------------------------------
(***************************************************************************)
(* A request received: the first one not sent yet, handled only when the   *)
(* host has no other; nothing that settled promises go on with is left.    *)
(***************************************************************************)
LEMMA ReceivedStep ==
    ASSUME Inv, TypeOK', NEW request \in Requests, Idle, Fresh(request),
           UNCHANGED <<walletVars, chooserVars, remembered, consents, host>>,
           \A other \in Requests \ {request} : task'[other] = task[other],
           task'[request].host = host,
           task'[request].step = "done" \/ ~Busy,
           \/ task'[request].step \in {"done", "restoring"} /\ approval' = approval
           \/ /\ task'[request].step = "signing" /\ approval' = approval
              /\ task'[request].account \in Agreed
           \/ /\ task'[request].step = "asking" /\ approval' = request
              /\ task'[request].account \in Wallets /\ account # None,
           told' \subseteq told \cup ({remembered} \ {None})
    PROVE  Inv'
<1> USE DEF walletVars, chooserVars
<1>1. /\ task[request].step = "unsent"
      /\ \A earlier \in 1 .. (request - 1) : task[earlier].step # "unsent"
      /\ login \in {"closed", "open"}
      /\ ready => \A other \in Requests : task[other].step # "restoring"
      /\ approval # request /\ waiter # request
  BY NoneIsNoRequest DEF Fresh, Idle, Resumable, Inv, QuestionsFit
<1>2. RestoredFirst' /\ RememberedAgreed'
  BY DEF Inv, RestoredFirst, RememberedAgreed, Agreed
<1>3. ConsentFirst'
  BY DEF Inv, ConsentFirst, RememberedAgreed, Agreed
<1>4. QuestionsFit'
  BY <1>1 DEF Inv, TypeOK, QuestionsFit
<1>5. /\ \A later \in Requests : later > request => task[later].step = "unsent"
      /\ \A later \in Requests : \A earlier \in 1 .. (later - 1) :
            earlier \in Requests /\ earlier # later /\ earlier < later
      /\ host \in Int
  BY <1>1, EmbedAssumption DEF Inv, TypeOK, SentInOrder, Requests
<1>6. SentInOrder'
  BY <1>1, <1>5, EmbedAssumption DEF Inv, SentInOrder, Requests
<1>7. OneAtATime'
  BY <1>1 DEF Inv, OneAtATime, Pending, Busy
<1>8. ResumedInOrder'
  <2>1. account # None => ready
    BY DEF Inv, RestoredFirst
  <2> QED
    BY <1>1, <1>5, <2>1 DEF Inv, ResumedInOrder
<1>9. ResumedAtOnce'
  BY <1>1 DEF Inv, ResumedAtOnce
<1>10. StoppedHostWaits'
  BY <1>1 DEF Inv, TypeOK, StoppedHostWaits
<1>11. WaitsOnScreen'
  BY <1>1 DEF Inv, WaitsOnScreen, Busy, Pending
<1> QED
  BY <1>2, <1>3, <1>4, <1>6, <1>7, <1>8, <1>9, <1>10, <1>11 DEF Inv

(***************************************************************************)
(* What the frame does: it says hello, or sends a request.                 *)
(***************************************************************************)
LEMMA FrameStep == Inv /\ Frame => Inv'
<1> SUFFICES ASSUME Inv, Frame
             PROVE  Inv'
  OBVIOUS
<1> USE DEF walletVars, chooserVars, siteVars, frameVars
<1>1. CASE Hello
  <2>1. /\ UNCHANGED <<walletVars, chooserVars, siteVars, host, task>>
        /\ told' \subseteq told \cup ({remembered} \ {None})
    BY <1>1 DEF Hello, PushAccounts, Visible
  <2>2. TypeOK'
    BY <2>1 DEF Inv, TypeOK, Account
  <2>3. ConsentFirst' /\ RememberedAgreed' /\ RestoredFirst'
    BY <2>1 DEF Inv, ConsentFirst, RememberedAgreed, Agreed, RestoredFirst
  <2>4. QuestionsFit' /\ SentInOrder' /\ OneAtATime'
    BY <2>1 DEF Inv, QuestionsFit, SentInOrder, OneAtATime, Pending
  <2>5. ResumedInOrder' /\ ResumedAtOnce' /\ StoppedHostWaits' /\ WaitsOnScreen'
    BY <2>1 DEF Inv, ResumedInOrder, ResumedAtOnce, StoppedHostWaits, WaitsOnScreen
  <2> QED
    BY <2>2, <2>3, <2>4, <2>5 DEF Inv
<1>2. ASSUME NEW request \in Requests, NEW kind \in Kinds, ReceiveWhenBusy(request, kind)
      PROVE  Inv'
  <2>1. /\ Answered(Sent(kind), "busy") \in Task
        /\ Answered(Sent(kind), "busy").host = host
        /\ Answered(Sent(kind), "busy").step = "done"
    BY SentTask, AnsweredTask DEF Inv, Answers
  <2>2. /\ task' = [task EXCEPT ![request] = Answered(Sent(kind), "busy")]
        /\ UNCHANGED <<walletVars, chooserVars, siteVars, host, told>>
        /\ Idle /\ Fresh(request)
    BY <1>2 DEF ReceiveWhenBusy
  <2>3. TypeOK'
    BY <2>1, <2>2 DEF Inv, TypeOK
  <2> QED
    BY <2>1, <2>2, <2>3, ReceivedStep DEF Inv, TypeOK
<1>3. ASSUME NEW request \in Requests, NEW kind \in {"connect", "silent"},
             ReceiveConnect(request, kind)
      PROVE  Inv'
  <2>1. /\ Idle /\ Fresh(request) /\ ~Busy
        /\ UNCHANGED <<walletVars, chooserVars>>
        /\ kind \in Kinds
    BY <1>3 DEF ReceiveConnect, Kinds
  <2>2. Sent(kind) \in Task /\ Sent(kind).host = host
    BY <2>1, SentTask DEF Inv
  <2>3. CASE account # None /\ Proceed(request, Sent(kind), account)
    <3>1. account \in Account
      BY DEF Inv, TypeOK
    <3>2. /\ UNCHANGED <<remembered, consents, host>>
          /\ task' \in [Requests -> Task]
          /\ \A other \in Requests \ {request} : task'[other] = task[other]
          /\ task'[request].host = host
          /\ \/ task'[request].step = "done" /\ approval' = approval
             \/ /\ task'[request].step = "asking" /\ approval' = request
                /\ task'[request].account = account /\ account \in Wallets
          /\ told' = told \/ (told' = told \cup {remembered} /\ remembered \in Wallets)
      BY <2>2, <2>3, <3>1, ProceedOutcome DEF Inv
    <3>3. TypeOK'
      BY <2>1, <3>2 DEF Inv, TypeOK
    <3>4. told' \subseteq told \cup ({remembered} \ {None})
      BY <3>2, EmbedAssumption
    <3> QED
      BY <2>1, <2>3, <3>2, <3>3, <3>4, ReceivedStep
  <2>4. CASE /\ task' = [task EXCEPT ![request] = [Sent(kind) EXCEPT !.step = "restoring"]]
             /\ UNCHANGED <<siteVars, host, told>>
    <3>1. /\ [Sent(kind) EXCEPT !.step = "restoring"] \in Task
          /\ [Sent(kind) EXCEPT !.step = "restoring"].host = host
          /\ [Sent(kind) EXCEPT !.step = "restoring"].step = "restoring"
      BY <2>2 DEF Task, Steps
    <3>2. TypeOK'
      BY <2>1, <2>4, <3>1 DEF Inv, TypeOK
    <3> QED
      BY <2>1, <2>4, <3>1, <3>2, ReceivedStep DEF Inv, TypeOK
  <2> QED
    BY <1>3, <2>3, <2>4 DEF ReceiveConnect
<1>4. ASSUME NEW request \in Requests, ReceiveSign(request)
      PROVE  Inv'
  <2>1. /\ Idle /\ Fresh(request) /\ ~Busy
        /\ UNCHANGED <<walletVars, chooserVars, siteVars, host, told>>
    BY <1>4 DEF ReceiveSign
  <2>2. Sent("sign") \in Task /\ Sent("sign").host = host
    BY SentTask DEF Inv, Kinds
  <2>3. CASE task' = [task EXCEPT ![request] = Answered(Sent("sign"), "refused")]
    <3>1. /\ Answered(Sent("sign"), "refused") \in Task
          /\ Answered(Sent("sign"), "refused").host = host
          /\ Answered(Sent("sign"), "refused").step = "done"
      BY <2>2, AnsweredTask DEF Answers
    <3>2. TypeOK'
      BY <2>1, <2>3, <3>1 DEF Inv, TypeOK
    <3> QED
      BY <2>1, <2>3, <3>1, <3>2, ReceivedStep DEF Inv, TypeOK
  <2>4. CASE /\ Approved(account)
             /\ task' = [task EXCEPT ![request] = Waiting(Sent("sign"), "signing", account)]
    <3>1. account \in Agreed /\ account \in Account
      BY <2>4 DEF Approved, Inv, TypeOK, RememberedAgreed
    <3>2. /\ Waiting(Sent("sign"), "signing", account) \in Task
          /\ Waiting(Sent("sign"), "signing", account).host = host
          /\ Waiting(Sent("sign"), "signing", account).step = "signing"
          /\ Waiting(Sent("sign"), "signing", account).account = account
      BY <2>2, <3>1, WaitingTask DEF Steps
    <3>3. TypeOK'
      BY <2>1, <2>4, <3>2 DEF Inv, TypeOK
    <3> QED
      BY <2>1, <2>4, <3>1, <3>2, <3>3, ReceivedStep DEF Inv, TypeOK
  <2> QED
    BY <1>4, <2>3, <2>4 DEF ReceiveSign
<1> QED
  BY <1>1, <1>2, <1>3, <1>4 DEF Frame

-----------------------------------------------------------------------------
(***************************************************************************)
(* A request that does not wait for the login is dealt with: its question, *)
(* if it asked one, is gone from the screen.                               *)
(***************************************************************************)
LEMMA EndedStep ==
    ASSUME Inv, TypeOK', NEW request \in Requests,
           task[request].step # "unsent", waiter # request,
           UNCHANGED <<walletVars, chooserVars, host>>,
           \A other \in Requests \ {request} : task'[other] = task[other],
           task'[request].host = task[request].host, task'[request].step = "done",
           \/ approval = request /\ approval' = None
           \/ approval # request /\ approval' = approval,
           consents \subseteq consents',
           remembered' # None => remembered' \in Agreed',
           told' \subseteq Agreed'
    PROVE  Inv'
<1> USE DEF walletVars, chooserVars
<1>1. RestoredFirst' /\ RememberedAgreed'
  BY DEF Inv, RestoredFirst, RememberedAgreed
<1>2. ConsentFirst'
  BY DEF Inv, ConsentFirst, Agreed
<1>3. QuestionsFit'
  BY DEF Inv, TypeOK, QuestionsFit
<1>4. SentInOrder'
  <2>1. \A later \in Requests : \A earlier \in 1 .. (later - 1) : earlier \in Requests
    BY EmbedAssumption DEF Requests
  <2> QED
    BY <2>1 DEF Inv, SentInOrder
<1>5. OneAtATime'
  BY DEF Inv, OneAtATime, Pending
<1>6. ResumedInOrder' /\ ResumedAtOnce'
  <2>1. \A later \in Requests : \A earlier \in 1 .. (later - 1) : earlier \in Requests
    BY EmbedAssumption DEF Requests
  <2> QED
    BY <2>1 DEF Inv, ResumedInOrder, ResumedAtOnce
<1>7. StoppedHostWaits'
  BY DEF Inv, TypeOK, StoppedHostWaits
<1>8. WaitsOnScreen'
  BY DEF Inv, WaitsOnScreen
<1> QED
  BY <1>1, <1>2, <1>3, <1>4, <1>5, <1>6, <1>7, <1>8 DEF Inv

(***************************************************************************)
(* The wallet answers a request to sign, or the person a question.         *)
(***************************************************************************)
LEMMA AnswerStep ==
    ASSUME Inv,
           \/ \E request \in Requests : SignEnds(request)
           \/ PressConnect \/ PressCancel
    PROVE  Inv'
<1> USE DEF siteVars, frameVars
<1>1. ASSUME NEW request \in Requests, SignEnds(request)
      PROVE  Inv'
  <2>1. /\ task[request].step = "signing" /\ task[request] \in Task
        /\ waiter # request /\ approval # request
        /\ UNCHANGED <<walletVars, chooserVars, siteVars, host, told>>
    BY <1>1, NoneIsNoRequest DEF SignEnds, Inv, TypeOK, QuestionsFit
  <2>2. PICK answer \in {"signed", "refused"} :
            task' = [task EXCEPT ![request] = Answered(task[request], answer)]
    BY <1>1 DEF SignEnds
  <2>3. /\ Answered(task[request], answer) \in Task
        /\ Answered(task[request], answer).step = "done"
        /\ Answered(task[request], answer).host = task[request].host
    BY <2>1, AnsweredTask DEF Answers
  <2>4. TypeOK'
    BY <2>1, <2>2, <2>3 DEF Inv, TypeOK, walletVars, chooserVars
  <2>5. told' \subseteq Agreed' /\ (remembered' # None => remembered' \in Agreed')
    BY <2>1 DEF Inv, ConsentFirst, RememberedAgreed, Agreed
  <2> QED
    BY <2>1, <2>2, <2>3, <2>4, <2>5, EndedStep DEF Inv, TypeOK
<1>2. CASE PressConnect
  <2> DEFINE asked == task[approval]
             answer == IF StillCurrent(asked) THEN asked.account ELSE "refused"
  <2>1. /\ approval \in Requests /\ asked.step = "asking" /\ asked \in Task
        /\ asked.account \in Wallets /\ waiter # approval /\ account \in Account
    BY <1>2, NoneIsNoRequest DEF PressConnect, Inv, TypeOK, QuestionsFit
  <2>2. /\ remembered' = asked.account
        /\ consents' = consents \cup {[shown |-> account, meant |-> asked.account]}
        /\ task' = [task EXCEPT ![approval] = Answered(asked, answer)]
        /\ told' = told \/ told' = told \cup {asked.account}
        /\ approval' = None
        /\ UNCHANGED <<walletVars, chooserVars, host>>
    BY <1>2 DEF PressConnect
  <2>3. answer \in Answers
    BY <2>1 DEF Answers
  <2>4. /\ Answered(asked, answer) \in Task
        /\ Answered(asked, answer).step = "done"
        /\ Answered(asked, answer).host = asked.host
    BY <2>1, <2>3, AnsweredTask
  <2> HIDE DEF answer
  <2>5. [shown |-> account, meant |-> asked.account] \in Consent
    BY <2>1 DEF Consent
  <2>6. TypeOK'
    BY <2>1, <2>2, <2>4, <2>5 DEF Inv, TypeOK, Account, walletVars, chooserVars
  <2>7. asked.account \in Agreed' /\ Agreed \subseteq Agreed'
    <3> DEFINE consent == [shown |-> account, meant |-> asked.account]
    <3>1. consent \in consents' /\ consent.meant = asked.account
      BY <2>2
    <3> QED
      BY <2>2, <3>1 DEF Agreed
  <2>8. told' \subseteq Agreed' /\ (remembered' # None => remembered' \in Agreed')
    BY <2>2, <2>7 DEF Inv, ConsentFirst
  <2>9. /\ task'[approval] = Answered(asked, answer)
        /\ \A other \in Requests \ {approval} : task'[other] = task[other]
    BY <2>1, <2>2 DEF Inv, TypeOK
  <2> QED
    BY <2>1, <2>2, <2>4, <2>6, <2>8, <2>9, EndedStep
<1>3. CASE PressCancel
  <2>1. /\ approval \in Requests /\ task[approval].step = "asking"
        /\ task[approval] \in Task /\ waiter # approval
        /\ task' = [task EXCEPT ![approval] = Answered(task[approval], "refused")]
        /\ approval' = None
        /\ UNCHANGED <<walletVars, chooserVars, remembered, consents, host, told>>
    BY <1>3, NoneIsNoRequest DEF PressCancel, Inv, TypeOK, QuestionsFit
  <2>2. /\ Answered(task[approval], "refused") \in Task
        /\ Answered(task[approval], "refused").step = "done"
        /\ Answered(task[approval], "refused").host = task[approval].host
    BY <2>1, AnsweredTask DEF Answers
  <2>3. TypeOK'
    BY <2>1, <2>2 DEF Inv, TypeOK, walletVars, chooserVars
  <2>4. told' \subseteq Agreed' /\ (remembered' # None => remembered' \in Agreed')
    BY <2>1 DEF Inv, ConsentFirst, RememberedAgreed, Agreed
  <2>5. /\ task'[approval] = Answered(task[approval], "refused")
        /\ \A other \in Requests \ {approval} : task'[other] = task[other]
    BY <2>1 DEF Inv, TypeOK
  <2> QED
    BY <2>1, <2>2, <2>3, <2>4, <2>5, EndedStep
<1> QED
  BY <1>1, <1>2, <1>3

(***************************************************************************)
(* What the wallet and the person do between requests.                     *)
(***************************************************************************)
LEMMA WorldStep ==
    ASSUME Inv,
           \/ \E wallet \in Account : Restore(wallet) \/ SwitchWallet(wallet)
           \/ \E wallet \in Wallets : LogIn(wallet)
           \/ DismissLogin \/ PressHeaderConnect
    PROVE  Inv'
<1> USE DEF siteVars, frameVars
<1>1. /\ UNCHANGED <<waiter, siteVars, host, task>>
      /\ told' \subseteq told \cup ({remembered} \ {None})
      /\ choosing => choosing'
      /\ \/ ready' = ready
         \/ ready' /\ session' = account' /\ UNCHANGED <<choosing, login>> /\ ~ready
  BY DEF Restore, SwitchWallet, LogIn, DismissLogin, PressHeaderConnect, walletVars,
         chooserVars, Visible
<1>2. TypeOK'
  <2>1. told' \subseteq Wallets
    BY <1>1 DEF Inv, TypeOK, Account
  <2>2. CASE \E wallet \in Account : Restore(wallet) \/ SwitchWallet(wallet)
    BY <1>1, <2>1, <2>2 DEF Restore, SwitchWallet, walletVars, chooserVars, Inv, TypeOK
  <2>3. CASE (\E wallet \in Wallets : LogIn(wallet)) \/ DismissLogin
    BY <1>1, <2>1, <2>3 DEF LogIn, DismissLogin, walletVars, Inv, TypeOK, Account
  <2>4. CASE PressHeaderConnect
    BY <1>1, <2>1, <2>4 DEF PressHeaderConnect, walletVars, Inv, TypeOK
  <2> QED
    BY <2>2, <2>3, <2>4
<1>3. RestoredFirst'
  BY DEF Restore, SwitchWallet, LogIn, DismissLogin, PressHeaderConnect, walletVars, chooserVars,
         Inv, RestoredFirst
<1>4. ConsentFirst' /\ RememberedAgreed'
  BY <1>1 DEF Inv, ConsentFirst, RememberedAgreed, Agreed
<1>5. QuestionsFit' /\ SentInOrder' /\ OneAtATime' /\ ResumedInOrder' /\ WaitsOnScreen'
  BY <1>1 DEF Inv, QuestionsFit, SentInOrder, OneAtATime, Pending, ResumedInOrder, WaitsOnScreen
<1>6. ResumedAtOnce'
  BY <1>1 DEF Restore, SwitchWallet, LogIn, DismissLogin, PressHeaderConnect, walletVars,
              chooserVars, Idle, Resumable, Inv, RestoredFirst, ResumedAtOnce
<1>7. StoppedHostWaits'
  BY <1>1 DEF Restore, SwitchWallet, LogIn, DismissLogin, PressHeaderConnect, walletVars,
              chooserVars, Idle, Inv, RestoredFirst, StoppedHostWaits
<1> QED
  BY <1>2, <1>3, <1>4, <1>5, <1>6, <1>7 DEF Inv

-----------------------------------------------------------------------------
(***************************************************************************)
(* A request resumed once the session is restored: every request sent      *)
(* before it has gone on, so it displaces no question of its own host.     *)
(***************************************************************************)
LEMMA AloneOfItsHost ==
    ASSUME Inv, NEW request \in Requests, ready, task[request].step = "restoring",
           \A earlier \in 1 .. (request - 1) : ~Resumable(earlier)
    PROVE  /\ \A other \in Requests :
                task[other].host = host => task[other].step \notin {"asking", "choosing"}
           /\ \A earlier \in 1 .. (request - 1) : task[earlier].step # "restoring"
           /\ login \in {"closed", "open"}
           /\ approval # request /\ waiter # request
<1>1. \A earlier \in 1 .. (request - 1) : task[earlier].step # "restoring"
  BY DEF Resumable
<1>2. ASSUME NEW other \in Requests, task[other].host = host,
             task[other].step \in {"asking", "choosing"}
      PROVE  FALSE
  <2>1. CASE request < other
    BY <1>2, <2>1, EmbedAssumption DEF Inv, ResumedInOrder, Requests
  <2>2. CASE other < request
    <3>1. other \in 1 .. (request - 1)
      BY <2>2, EmbedAssumption DEF Requests
    <3>2. task[request].host \in Int /\ host \in Int
      BY EmbedAssumption DEF Inv, TypeOK, Task
    <3>3. task[request].host = host
      BY <1>2, <3>1, <3>2 DEF Inv, SentInOrder
    <3> QED
      BY <1>2, <2>2, <3>3, EmbedAssumption DEF Inv, OneAtATime, Pending, Requests
  <2>3. CASE other = request
    BY <1>2, <2>3
  <2> QED
    BY <2>1, <2>2, <2>3, EmbedAssumption DEF Requests
<1> QED
  BY <1>1, <1>2, NoneIsNoRequest DEF Inv, ResumedAtOnce, QuestionsFit

LEMMA ResumeStep ==
    ASSUME Inv, NEW request \in Requests, Resume(request)
    PROVE  Inv'
<1> USE DEF walletVars, siteVars
<1>1. /\ ready /\ task[request].step = "restoring" /\ task[request] \in Task
      /\ account \in Account
      /\ UNCHANGED walletVars
      /\ \A earlier \in 1 .. (request - 1) : ~Resumable(earlier)
  BY DEF Resume, Resumable, Inv, TypeOK
<1>2. /\ \A other \in Requests :
            task[other].host = host => task[other].step \notin {"asking", "choosing"}
      /\ \A earlier \in 1 .. (request - 1) : task[earlier].step # "restoring"
      /\ login \in {"closed", "open"}
      /\ approval # request /\ waiter # request
  BY <1>1, AloneOfItsHost
<1>3. \A later \in Requests : \A earlier \in 1 .. (later - 1) : earlier \in Requests
  BY EmbedAssumption DEF Requests
<1>4. CASE Proceed(request, task[request], account) /\ UNCHANGED chooserVars
  <2>1. /\ UNCHANGED <<remembered, consents, host, chooserVars>>
        /\ task' \in [Requests -> Task]
        /\ \A other \in Requests \ {request} : task'[other] = task[other]
        /\ task'[request].host = task[request].host
        /\ \/ task'[request].step = "done" /\ approval' = approval
           \/ /\ task'[request].step = "asking" /\ approval' = request
              /\ task'[request].account = account /\ account \in Wallets
        /\ told' = told \/ (told' = told \cup {remembered} /\ remembered \in Wallets)
    BY <1>1, <1>4, ProceedOutcome DEF Inv
  <2>2. TypeOK'
    BY <1>1, <2>1 DEF Inv, TypeOK, chooserVars
  <2>3. told' \subseteq Agreed' /\ (remembered' # None => remembered' \in Agreed')
    BY <2>1, EmbedAssumption DEF Inv, ConsentFirst, RememberedAgreed, Agreed
  <2>4. CASE task'[request].step = "done" /\ approval' = approval
    BY <1>1, <1>2, <2>1, <2>2, <2>3, <2>4, EndedStep
  <2>5. CASE /\ task'[request].step = "asking" /\ approval' = request
             /\ task'[request].account = account /\ account \in Wallets
    <3> USE DEF chooserVars
    <3>1. RestoredFirst' /\ RememberedAgreed'
      BY <1>1, <2>1, <2>3 DEF RestoredFirst, RememberedAgreed
    <3>2. ConsentFirst'
      BY <2>1, <2>3, <2>5 DEF Inv, ConsentFirst, Agreed
    <3>3. QuestionsFit'
      BY <1>2, <2>1, <2>5 DEF Inv, TypeOK, QuestionsFit
    <3>4. SentInOrder' /\ OneAtATime'
      BY <1>1, <1>3, <2>1, <2>5 DEF Inv, SentInOrder, OneAtATime, Pending
    <3>5. ResumedInOrder' /\ ResumedAtOnce'
      BY <1>1, <1>2, <1>3, <2>1, <2>5 DEF Inv, ResumedInOrder, ResumedAtOnce
    <3>6. StoppedHostWaits'
      <4>1. account # None
        BY <2>5, EmbedAssumption
      <4> QED
        BY <1>1, <1>2, <2>1, <4>1 DEF Inv, TypeOK, StoppedHostWaits
    <3>7. WaitsOnScreen'
      BY <1>2, <2>1, <2>5 DEF Inv, WaitsOnScreen
    <3> QED
      BY <2>2, <3>1, <3>2, <3>3, <3>4, <3>5, <3>6, <3>7 DEF Inv
  <2> QED
    BY <2>1, <2>4, <2>5
<1>5. CASE /\ account = None
           /\ task' = [other \in Requests |->
                         IF other = request THEN [task[other] EXCEPT !.step = "choosing"]
                         ELSE IF other = waiter THEN Answered(task[other], "refused")
                         ELSE task[other]]
           /\ waiter' = request
           /\ choosing' = TRUE
           /\ UNCHANGED <<open, login, siteVars, host, told>>
  <2>1. /\ [task[request] EXCEPT !.step = "choosing"] \in Task
        /\ [task[request] EXCEPT !.step = "choosing"].step = "choosing"
        /\ [task[request] EXCEPT !.step = "choosing"].host = task[request].host
    BY <1>1 DEF Task, Steps
  <2>2. \A other \in Requests :
            /\ Answered(task[other], "refused") \in Task
            /\ Answered(task[other], "refused").step = "done"
            /\ Answered(task[other], "refused").host = task[other].host
    BY AnsweredTask DEF Inv, TypeOK, Answers
  <2>3. /\ task' \in [Requests -> Task]
        /\ \A other \in Requests : task'[other].host = task[other].host
        /\ task'[request].step = "choosing"
        /\ \A other \in Requests \ {request, waiter} : task'[other] = task[other]
        /\ waiter # None => task'[waiter].step = "done" /\ task[waiter].step = "choosing"
    BY <1>2, <1>5, <2>1, <2>2 DEF Inv, TypeOK, QuestionsFit
  <2>4. \A other \in Requests \ {request} :
            \/ task'[other] = task[other]
            \/ task'[other].step = "done" /\ task[other].step = "choosing"
    BY <2>3, NoneIsNoRequest
  <2>5. TypeOK'
    BY <1>1, <1>5, <2>3 DEF Inv, TypeOK
  <2>6. RestoredFirst' /\ RememberedAgreed'
    BY <1>1, <1>5 DEF Inv, RestoredFirst, RememberedAgreed, Agreed
  <2>7. ConsentFirst'
    BY <1>5, <2>3, <2>4 DEF Inv, ConsentFirst, Agreed
  <2>8. QuestionsFit'
    BY <1>2, <1>5, <2>3, <2>4, NoneIsNoRequest DEF Inv, TypeOK, QuestionsFit
  <2>9. SentInOrder' /\ OneAtATime'
    BY <1>1, <1>3, <1>5, <2>3, <2>4 DEF Inv, SentInOrder, OneAtATime, Pending
  <2>10. ResumedInOrder'
    BY <1>1, <1>2, <1>3, <2>3, <2>4 DEF Inv, ResumedInOrder
  <2>11. ResumedAtOnce'
    BY <1>1, <1>5, <2>3, <2>4 DEF Inv, ResumedAtOnce
  <2>12. StoppedHostWaits'
    <3>1. \A other \in Requests : task'[other].host = host => task'[other].step # "asking"
      BY <1>2, <2>3, <2>4
    <3>2. task[request].host # host => session = None /\ account = None
      BY <1>1, <1>5 DEF Inv, ResumedAtOnce
    <3> QED
      BY <1>1, <1>5, <2>3, <3>1, <3>2 DEF StoppedHostWaits
  <2>13. WaitsOnScreen'
    BY <1>2, <1>5, <2>3, <2>4 DEF WaitsOnScreen
  <2> QED
    BY <2>5, <2>6, <2>7, <2>8, <2>9, <2>10, <2>11, <2>12, <2>13 DEF Inv
<1> QED
  BY <1>4, <1>5 DEF Resume

(***************************************************************************)
(* The login ends: the request it was for goes on, and no other is waiting *)
(* for it.                                                                 *)
(***************************************************************************)
LEMMA FinishStep == Inv /\ Finish => Inv'
<1> SUFFICES ASSUME Inv, Finish
             PROVE  Inv'
  OBVIOUS
<1> USE DEF walletVars, siteVars, frameVars
<1> DEFINE wallet == IF login = "connected" THEN account ELSE None
<1>1. /\ login \in {"connected", "dismissed"} /\ login' = "closed" /\ choosing' = FALSE
      /\ waiter' = None /\ UNCHANGED <<walletVars, open>>
      /\ ready
      /\ \A request \in Requests : task[request].step # "restoring"
      /\ wallet \in Account
  BY DEF Finish, SettleConnect, Inv, TypeOK, RestoredFirst, ResumedAtOnce, Account
<1>2. \A later \in Requests : \A earlier \in 1 .. (later - 1) : earlier \in Requests
  BY EmbedAssumption DEF Requests
<1>3. CASE waiter = None /\ UNCHANGED <<siteVars, frameVars>>
  <2>1. TypeOK'
    BY <1>1, <1>3 DEF Inv, TypeOK
  <2>2. RestoredFirst' /\ ConsentFirst' /\ RememberedAgreed'
    BY <1>1, <1>3 DEF Inv, RestoredFirst, ConsentFirst, RememberedAgreed, Agreed
  <2>3. QuestionsFit' /\ SentInOrder' /\ OneAtATime' /\ ResumedInOrder'
    BY <1>1, <1>3 DEF Inv, QuestionsFit, SentInOrder, OneAtATime, Pending, ResumedInOrder
  <2>4. ResumedAtOnce' /\ StoppedHostWaits' /\ WaitsOnScreen'
    BY <1>1, <1>3, NoneIsNoRequest DEF Inv, ResumedAtOnce, StoppedHostWaits, WaitsOnScreen
  <2> QED
    BY <2>1, <2>2, <2>3, <2>4 DEF Inv
<1>4. CASE waiter # None /\ Proceed(waiter, task[waiter], wallet)
  <2>1. waiter \in Requests /\ task[waiter] \in Task /\ task[waiter].step = "choosing"
    BY <1>4 DEF Inv, TypeOK, QuestionsFit
  <2> HIDE DEF wallet
  <2>2. /\ UNCHANGED <<remembered, consents, host>>
        /\ task' \in [Requests -> Task]
        /\ \A other \in Requests \ {waiter} : task'[other] = task[other]
        /\ task'[waiter].host = task[waiter].host
        /\ \/ task'[waiter].step = "done" /\ approval' = approval
           \/ /\ task'[waiter].step = "asking" /\ approval' = waiter
              /\ task'[waiter].account = wallet /\ wallet \in Wallets
        /\ told' = told \/ (told' = told \cup {remembered} /\ remembered \in Wallets)
    BY <1>1, <1>4, <2>1, ProceedOutcome DEF Inv
  <2>3. \A other \in Requests :
            task[other].host = host => /\ task[other].step = "choosing" => other = waiter
                                       /\ task[other].step # "asking"
    <3> SUFFICES ASSUME NEW other \in Requests, task[other].host = host,
                        task[other].step = "asking"
                 PROVE  FALSE
      BY DEF Inv, WaitsOnScreen
    <3> QED
      BY <1>4, <2>1 DEF Inv, OneAtATime, Pending, StoppedHostWaits
  <2>4. TypeOK'
    BY <1>1, <2>2 DEF Inv, TypeOK
  <2>5. RestoredFirst' /\ RememberedAgreed'
    BY <1>1, <2>2 DEF Inv, RestoredFirst, RememberedAgreed, Agreed
  <2>6. ConsentFirst'
    BY <2>1, <2>2, EmbedAssumption DEF Inv, ConsentFirst, RememberedAgreed, Agreed
  <2>7. QuestionsFit'
    BY <1>1, <2>1, <2>2 DEF Inv, TypeOK, QuestionsFit
  <2>8. SentInOrder' /\ OneAtATime'
    BY <1>2, <2>1, <2>2 DEF Inv, SentInOrder, OneAtATime, Pending
  <2>9. ResumedInOrder' /\ ResumedAtOnce'
    BY <1>1, <1>2, <2>1, <2>2 DEF Inv, ResumedInOrder, ResumedAtOnce
  <2>10. StoppedHostWaits'
    BY <1>1 DEF StoppedHostWaits
  <2>11. WaitsOnScreen'
    BY <2>1, <2>2, <2>3 DEF Inv, WaitsOnScreen
  <2> QED
    BY <2>4, <2>5, <2>6, <2>7, <2>8, <2>9, <2>10, <2>11 DEF Inv
<1> QED
  BY <1>3, <1>4 DEF Finish, SettleConnect

(***************************************************************************)
(* A render: the login opens or has closed, the frame is told of a new     *)
(* account if it is the one remembered.                                    *)
(***************************************************************************)
LEMMA RenderStep == Inv /\ Render => Inv'
<1> SUFFICES ASSUME Inv, Render
             PROVE  Inv'
  OBVIOUS
<1> USE DEF siteVars
<1>1. /\ account' = session /\ open' = choosing
      /\ \/ login = "closed" /\ login' = "open" /\ session' = None /\ choosing
         \/ UNCHANGED <<login, session>>
      /\ told' \subseteq told \cup ({remembered} \ {None})
      /\ UNCHANGED <<ready, choosing, siteVars, host>>
  BY DEF Render, Visible
<1>2. \/ UNCHANGED <<waiter, task>>
      \/ /\ ~choosing /\ waiter # None /\ waiter' = None
         /\ task' = [task EXCEPT ![waiter] = Answered(task[waiter], "refused")]
  BY DEF Render
<1>3. /\ task' \in [Requests -> Task]
      /\ waiter' = waiter \/ waiter' = None
      /\ waiter' # None => task'[waiter'] = task[waiter]
      /\ \A other \in Requests :
            \/ task'[other] = task[other] /\ (other = waiter => waiter' = waiter)
            \/ /\ task[other].step = "choosing" /\ task'[other].step = "done"
               /\ task'[other].host = task[other].host
  <2>1. CASE UNCHANGED <<waiter, task>>
    BY <2>1 DEF Inv, TypeOK
  <2>2. CASE /\ waiter # None /\ waiter' = None
             /\ task' = [task EXCEPT ![waiter] = Answered(task[waiter], "refused")]
    <3>1. waiter \in Requests /\ task[waiter] \in Task /\ task[waiter].step = "choosing"
      BY <2>2 DEF Inv, TypeOK, QuestionsFit
    <3>2. /\ Answered(task[waiter], "refused") \in Task
          /\ Answered(task[waiter], "refused").step = "done"
          /\ Answered(task[waiter], "refused").host = task[waiter].host
      BY <3>1, AnsweredTask DEF Answers
    <3> QED
      BY <2>2, <3>1, <3>2 DEF Inv, TypeOK
  <2> QED
    BY <1>2, <2>1, <2>2
<1>4. \A later \in Requests : \A earlier \in 1 .. (later - 1) : earlier \in Requests
  BY EmbedAssumption DEF Requests
<1>5. TypeOK'
  <2>1. told' \subseteq Wallets /\ None \in Account
    BY <1>1 DEF Inv, TypeOK, Account
  <2> QED
    BY <1>1, <1>3, <2>1 DEF Inv, TypeOK
<1>6. RestoredFirst' /\ RememberedAgreed'
  BY <1>1, <1>3 DEF Inv, RestoredFirst, RememberedAgreed, Agreed
<1>7. ConsentFirst'
  BY <1>1, <1>3 DEF Inv, ConsentFirst, RememberedAgreed, Agreed
<1>8. QuestionsFit'
  BY <1>1, <1>3 DEF Inv, TypeOK, QuestionsFit
<1>9. SentInOrder' /\ OneAtATime' /\ ResumedInOrder'
  BY <1>1, <1>3, <1>4 DEF Inv, SentInOrder, OneAtATime, Pending, ResumedInOrder
<1>10. ResumedAtOnce'
  BY <1>1, <1>3 DEF Inv, ResumedAtOnce
<1>11. StoppedHostWaits'
  BY <1>1, <1>3 DEF Inv, StoppedHostWaits
<1>12. WaitsOnScreen'
  BY <1>1, <1>3 DEF Inv, WaitsOnScreen
<1> QED
  BY <1>5, <1>6, <1>7, <1>8, <1>9, <1>10, <1>11, <1>12 DEF Inv

(***************************************************************************)
(* The frame is reloaded: no request is of the new host.                   *)
(***************************************************************************)
LEMMA ReloadStep == Inv /\ Reload => Inv'
<1> SUFFICES ASSUME Inv, Reload
             PROVE  Inv'
  OBVIOUS
<1>1. /\ Idle /\ host' = host + 1 /\ host \in Nat /\ host' \in 0 .. MaxReloads
      /\ approval' = None /\ waiter' = None
      /\ UNCHANGED <<walletVars, choosing, open, login, remembered, consents, told>>
  BY EmbedAssumption DEF Reload, Inv, TypeOK
<1>2. /\ task' \in [Requests -> Task]
      /\ \A request \in Requests :
            /\ task'[request].host = task[request].host
            /\ \/ task'[request] = task[request]
               \/ task'[request].step = "done" /\ task[request].step # "unsent"
  <2>1. \A request \in Requests :
            /\ [task[request] EXCEPT !.step = "done"] \in Task
            /\ [task[request] EXCEPT !.step = "done"].step = "done"
            /\ [task[request] EXCEPT !.step = "done"].host = task[request].host
    BY DEF Inv, TypeOK, Task, Steps
  <2>2. \A request \in Requests : request \in {approval, waiter} =>
            task[request].step # "unsent"
    BY NoneIsNoRequest DEF Inv, QuestionsFit
  <2> QED
    BY <2>1, <2>2 DEF Reload, Inv, TypeOK
<1>3. \A request \in Requests : task'[request].host # host' /\ task'[request].host < host'
  <2>1. \A request \in Requests : task[request].host \in Int /\ task[request].host <= host
    BY EmbedAssumption DEF Inv, TypeOK, Task, SentInOrder
  <2> QED
    BY <1>1, <1>2, <2>1
<1>4. \A later \in Requests : \A earlier \in 1 .. (later - 1) : earlier \in Requests
  BY EmbedAssumption DEF Requests
<1> USE DEF walletVars
<1>5. TypeOK'
  BY <1>1, <1>2 DEF Inv, TypeOK
<1>6. RestoredFirst' /\ RememberedAgreed' /\ QuestionsFit' /\ StoppedHostWaits'
  BY <1>1 DEF Inv, RestoredFirst, RememberedAgreed, Agreed, QuestionsFit, StoppedHostWaits
<1>7. ConsentFirst'
  BY <1>1, <1>2 DEF Inv, ConsentFirst, Agreed
<1>8. SentInOrder' /\ ResumedInOrder'
  <2>1. \A request \in Requests :
            /\ task'[request].step # "unsent" <=> task[request].step # "unsent"
            /\ task'[request].step # "restoring" \/ task[request].step = "restoring"
            /\ task'[request].step \in {"asking", "choosing"} =>
                  task[request].step = task'[request].step
            /\ task'[request].host <= host'
    <3>1. \A request \in Requests : task[request].host \in Int /\ host \in Int /\ host' \in Int
      BY <1>1, EmbedAssumption DEF Inv, TypeOK, Task
    <3> QED
      BY <1>2, <1>3, <3>1
  <2>2. SentInOrder'
    BY <1>2, <1>4, <2>1 DEF Inv, SentInOrder
  <2>3. ResumedInOrder'
    BY <1>4, <2>1 DEF Inv, ResumedInOrder
  <2> QED
    BY <2>2, <2>3
<1>9. OneAtATime' /\ WaitsOnScreen'
  BY <1>3 DEF OneAtATime, WaitsOnScreen
<1>10. ResumedAtOnce'
  BY <1>1, <1>2 DEF Idle, Resumable, Inv, ResumedAtOnce, RestoredFirst
<1> QED
  BY <1>5, <1>6, <1>7, <1>8, <1>9, <1>10 DEF Inv

-----------------------------------------------------------------------------
(***************************************************************************)
(* The inductive invariant: who was agreed to, which question is on the    *)
(* screen, and in which order requests were sent and go on.                *)
(***************************************************************************)
THEOREM InvCorrect == Spec => []Inv
<1>1. Init => Inv
  <2> SUFFICES ASSUME Init
               PROVE  Inv
    OBVIOUS
  <2> USE EmbedAssumption
  <2>1. TypeOK
    <3>1. [kind |-> "none", host |-> 0, step |-> "unsent", account |-> None,
           answer |-> "none"] \in Task
      BY DEF Task, Steps, Answers, Account
    <3>2. consents \subseteq Consent
      BY DEF Init, Consent, Account
    <3>3. {ready, choosing, open} \subseteq BOOLEAN
      BY DEF Init
    <3> QED
      BY <3>1, <3>2, <3>3 DEF Init, TypeOK, Account
  <2>2. \A request \in Requests : task[request].step = "unsent" /\ task[request].host = 0
    BY DEF Init
  <2>3. RestoredFirst /\ QuestionsFit /\ StoppedHostWaits
    BY DEF Init, RestoredFirst, QuestionsFit, StoppedHostWaits
  <2>4. ConsentFirst /\ RememberedAgreed
    <3>1. remembered # None => [shown |-> remembered, meant |-> remembered] \in consents
      BY DEF Init
    <3> QED
      BY <2>2, <3>1 DEF Init, ConsentFirst, RememberedAgreed, Agreed
  <2>5. SentInOrder /\ OneAtATime /\ ResumedInOrder /\ ResumedAtOnce /\ WaitsOnScreen
    BY <2>2 DEF Init, SentInOrder, OneAtATime, Pending, ResumedInOrder, ResumedAtOnce,
                WaitsOnScreen
  <2> QED
    BY <2>1, <2>3, <2>4, <2>5 DEF Inv
<1>2. Inv /\ [Next]_vars => Inv'
  <2> SUFFICES ASSUME Inv, [Next]_vars
               PROVE  Inv'
    OBVIOUS
  <2>1. CASE UNCHANGED vars
    BY <2>1 DEF vars, walletVars, chooserVars, siteVars, frameVars, Inv, TypeOK, RestoredFirst,
                ConsentFirst, RememberedAgreed, Agreed, QuestionsFit, SentInOrder, OneAtATime,
                Pending, ResumedInOrder, ResumedAtOnce, StoppedHostWaits, WaitsOnScreen
  <2> QED
    BY <2>1, FrameStep, FinishStep, RenderStep, ResumeStep, WorldStep, AnswerStep, ReloadStep
       DEF Next, Shell, Person
<1> QED
  BY <1>1, <1>2, PTL DEF Spec

(***************************************************************************)
(* The site learns, and has asked for a signature, only accounts the       *)
(* person agreed to.                                                       *)
(***************************************************************************)
THEOREM AlwaysConsentFirst == Spec => []ConsentFirst
<1>1. Inv => ConsentFirst
  BY DEF Inv
<1> QED
  BY <1>1, InvCorrect, PTL

(***************************************************************************)
(* What waits for the person is on the screen.                             *)
(***************************************************************************)
THEOREM AlwaysWaitsOnScreen == Spec => []WaitsOnScreen
<1>1. Inv => WaitsOnScreen
  BY DEF Inv
<1> QED
  BY <1>1, InvCorrect, PTL

(***************************************************************************)
(* A connect is answered with an account only if the page shows it then    *)
(* and it is the one remembered: every other answer is no account.         *)
(***************************************************************************)
LEMMA AnswerIsCurrent ==
    ASSUME Inv, [Next]_vars, NEW request \in Requests,
           task'[request].answer \in Wallets, task[request].answer # task'[request].answer
    PROVE  task'[request].answer = account /\ task'[request].answer = remembered'
<1> DEFINE Fine(other) == \/ task'[other].answer = task[other].answer
                          \/ task'[other].answer \in {"none", "refused", "busy", "signed"}
                          \/ /\ task'[other].answer = account
                             /\ task'[other].answer = remembered'
<1> SUFFICES Fine(request)
  BY EmbedAssumption
<1> USE DEF walletVars, chooserVars, siteVars, frameVars
<1>1. TypeOK /\ task \in [Requests -> Task]
  BY DEF Inv, TypeOK
<1>2. ASSUME task' = task
      PROVE  Fine(request)
  BY <1>2
<1>3. ASSUME NEW other \in Requests, NEW asked \in Task, asked.answer \in {task[other].answer, "none"},
             NEW answer \in {"none", "refused", "busy", "signed"},
             task' = [task EXCEPT ![other] = Answered(asked, answer)]
      PROVE  Fine(request)
  <2>1. Answered(asked, answer).answer \in {"none", "refused", "busy", "signed"}
    BY <1>3, AnsweredTask DEF Answers
  <2> QED
    BY <1>1, <1>3, <2>1
<1>4. ASSUME NEW other \in Requests, NEW asked \in Task,
             asked.answer \in {task[other].answer, "none"},
             NEW wallet \in Account, wallet \in {account, None},
             Proceed(other, asked, wallet)
      PROVE  Fine(request)
  <2>1. \/ task'[other].answer = asked.answer
        \/ task'[other].answer \in {"refused", "none"}
        \/ task'[other].answer = wallet /\ wallet = remembered /\ wallet # None
    BY <1>1, <1>4, ProceedOutcome, EmbedAssumption
  <2> QED
    BY <1>1, <1>4, <2>1, ProceedOutcome
<1>5. ASSUME Frame
      PROVE  Fine(request)
  <2>1. ASSUME NEW other \in Requests, NEW kind \in Kinds, ReceiveWhenBusy(other, kind)
        PROVE  Fine(request)
    BY <1>1, <1>3, <2>1, SentTask DEF ReceiveWhenBusy
  <2>2. ASSUME NEW other \in Requests, NEW kind \in {"connect", "silent"},
               ReceiveConnect(other, kind)
        PROVE  Fine(request)
    <3>1. Sent(kind) \in Task /\ Sent(kind).answer = "none" /\ account \in Account
      BY <1>1, SentTask DEF Kinds, TypeOK
    <3>2. CASE Proceed(other, Sent(kind), account)
      BY <1>4, <3>1, <3>2
    <3>3. CASE task' = [task EXCEPT ![other] = [Sent(kind) EXCEPT !.step = "restoring"]]
      <4>1. [Sent(kind) EXCEPT !.step = "restoring"].answer = "none"
        BY <3>1 DEF Task
      <4> QED
        BY <1>1, <3>3, <4>1
    <3> QED
      BY <2>2, <3>2, <3>3 DEF ReceiveConnect
  <2>3. ASSUME NEW other \in Requests, ReceiveSign(other)
        PROVE  Fine(request)
    <3>1. Sent("sign") \in Task /\ Sent("sign").answer = "none" /\ account \in Account
      BY <1>1, SentTask DEF Kinds, TypeOK
    <3>2. CASE task' = [task EXCEPT ![other] = Answered(Sent("sign"), "refused")]
      BY <1>3, <3>1, <3>2
    <3>3. CASE task' = [task EXCEPT ![other] = Waiting(Sent("sign"), "signing", account)]
      <4>1. "signing" \in Steps
        BY DEF Steps
      <4>2. Waiting(Sent("sign"), "signing", account).answer = Sent("sign").answer
        BY <3>1, <4>1, WaitingTask
      <4> QED
        BY <1>1, <3>1, <3>3, <4>2
    <3> QED
      BY <2>3, <3>2, <3>3 DEF ReceiveSign
  <2> QED
    BY <1>2, <1>5, <2>1, <2>2, <2>3 DEF Frame, Hello
<1>6. ASSUME NEW other \in Requests, Resume(other)
      PROVE  Fine(request)
  <2>1. task[other] \in Task /\ account \in Account
    BY <1>1 DEF TypeOK
  <2>2. CASE Proceed(other, task[other], account)
    BY <1>4, <2>1, <2>2
  <2>3. CASE task' = [third \in Requests |->
                        IF third = other THEN [task[third] EXCEPT !.step = "choosing"]
                        ELSE IF third = waiter THEN Answered(task[third], "refused")
                        ELSE task[third]]
    <3>1. [task[request] EXCEPT !.step = "choosing"].answer = task[request].answer
      BY <1>1 DEF Task
    <3>2. Answered(task[request], "refused").answer \in {"refused", "none"}
      BY <1>1, AnsweredTask DEF Answers
    <3> QED
      BY <1>1, <2>3, <3>1, <3>2
  <2> QED
    BY <1>6, <2>2, <2>3 DEF Resume
<1>7. ASSUME Finish
      PROVE  Fine(request)
  <2> DEFINE wallet == IF login = "connected" THEN account ELSE None
  <2>1. wallet \in Account /\ wallet \in {account, None}
    BY <1>1 DEF TypeOK, Account
  <2>2. UNCHANGED <<siteVars, frameVars>> \/ (waiter # None /\ Proceed(waiter, task[waiter], wallet))
    BY <1>7 DEF Finish, SettleConnect
  <2> HIDE DEF wallet
  <2>3. waiter # None => waiter \in Requests /\ task[waiter] \in Task
    BY <1>1 DEF TypeOK
  <2> QED
    BY <1>2, <1>4, <2>1, <2>2, <2>3
<1>8. ASSUME Render
      PROVE  Fine(request)
  <2>1. waiter # None => waiter \in Requests /\ task[waiter] \in Task
    BY <1>1 DEF TypeOK
  <2> QED
    BY <1>2, <1>3, <1>8, <2>1 DEF Render
<1>9. ASSUME PressConnect
      PROVE  Fine(request)
  <2> DEFINE asked == task[approval]
             answer == IF StillCurrent(asked) THEN asked.account ELSE "refused"
  <2>1. approval \in Requests /\ asked \in Task /\ asked.account \in Wallets
    BY <1>1, <1>9 DEF PressConnect, Inv, TypeOK, QuestionsFit
  <2>2. /\ task' = [task EXCEPT ![approval] = Answered(asked, answer)]
        /\ remembered' = asked.account
    BY <1>9 DEF PressConnect
  <2>3. answer \in Answers /\ (answer = "refused" \/ (answer = account /\ answer = remembered'))
    BY <2>1, <2>2 DEF Answers, StillCurrent
  <2> HIDE DEF answer
  <2>4. Answered(asked, answer).answer \in {answer, "none"}
    BY <2>1, <2>3, AnsweredTask
  <2> QED
    BY <1>1, <2>1, <2>2, <2>3, <2>4
<1>10. ASSUME PressCancel
       PROVE  Fine(request)
  <2>1. approval \in Requests /\ task[approval] \in Task
    BY <1>1, <1>10 DEF PressCancel, TypeOK
  <2> QED
    BY <1>3, <1>10, <2>1 DEF PressCancel
<1>11. ASSUME Reload
       PROVE  Fine(request)
  <2>1. [task[request] EXCEPT !.step = "done"].answer = task[request].answer
    BY <1>1 DEF Task
  <2> QED
    BY <1>1, <1>11, <2>1 DEF Reload
<1>12. ASSUME NEW other \in Requests, SignEnds(other)
       PROVE  Fine(request)
  BY <1>1, <1>3, <1>12 DEF SignEnds
<1>13. ASSUME \/ UNCHANGED vars
              \/ \E wallet \in Account : Restore(wallet) \/ SwitchWallet(wallet)
              \/ \E wallet \in Wallets : LogIn(wallet)
              \/ DismissLogin \/ PressHeaderConnect
       PROVE  Fine(request)
  BY <1>2, <1>13 DEF vars, Restore, SwitchWallet, LogIn, DismissLogin, PressHeaderConnect
<1> HIDE DEF Fine
<1> QED
  BY <1>5, <1>6, <1>7, <1>8, <1>9, <1>10, <1>11, <1>12, <1>13 DEF Next, Shell, Person

(***************************************************************************)
(* No connect is ever answered with an account the wallet has left, or one *)
(* that is not remembered for the site.                                    *)
(***************************************************************************)
THEOREM AlwaysAnswersCurrent == Spec => AnswersCurrent
<1>1. Inv /\ [Next]_vars =>
        [\A request \in Requests :
           LET answer == task'[request].answer IN
           answer \in Wallets /\ task[request].answer # answer
           => answer = account /\ answer = remembered']_vars
  BY AnswerIsCurrent
<1> QED
  BY <1>1, InvCorrect, PTL DEF Spec, AnswersCurrent
=============================================================================
