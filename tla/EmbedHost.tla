----------------------------- MODULE EmbedHost -----------------------------
(***************************************************************************)
(* The in-app browser: an app in a frame asks the page around it (the      *)
(* shell) to connect a wallet and to sign, by window messages.             *)
(*                                                                         *)
(* The shell is a React component.  What the provider knows (session,      *)
(* choosing) reaches the refs and the effects when it is rendered; an      *)
(* event handler, or what follows an await, is one step.  Continuations of *)
(* settled promises run before any other event, and may run before the     *)
(* render that the same event caused.                                      *)
(*                                                                         *)
(* There is one site; its frame may be reloaded, which replaces the host   *)
(* that serves it, while requests of the old one are still awaited.        *)
(***************************************************************************)
EXTENDS Integers

CONSTANTS
    Wallets,
    None,
    MaxRequests,    \* bound: requests the frame sends (each with an id of its own)
    MaxReloads      \* bound: reloads of the frame

ASSUME EmbedAssumption ==
    /\ MaxRequests \in Nat /\ MaxReloads \in Nat
    /\ None \notin Wallets /\ None \notin 1 .. MaxRequests
    /\ Wallets \cap {"none", "refused", "busy", "signed"} = {}

VARIABLES
    ready,          \* the wallet session has been restored
    session,        \* the wallet connected, as the provider knows it
    account,        \* as it was rendered: what walletRef and the page show
    choosing,       \* the shell wants the login open
    open,           \* as it was rendered: WalletConnect has seen it
    login,          \* the login of the wallet provider
    waiter,         \* connectWaiter: the request that awaits the login
    approval,       \* the request whose "Connect to ...?" is on the screen
    remembered,     \* local storage: the account approved for this site
    host,           \* the host that serves the frame; earlier ones are stopped
    task,           \* the requests
    told,           \* history: the accounts the frame was told of
    consents        \* history: what the person saw and what it was for, at each Connect

walletVars == <<ready, session, account>>
chooserVars == <<choosing, open, login, waiter>>
siteVars == <<approval, remembered, consents>>
frameVars == <<host, task, told>>
vars == <<walletVars, chooserVars, siteVars, frameVars>>

Requests == 1 .. MaxRequests
Account == Wallets \cup {None}

Kinds == {"connect", "silent", "sign"}
Steps == {"unsent", "restoring", "choosing", "asking", "signing", "done"}
Answers == {"none", "refused", "busy", "signed"} \cup Wallets

Task == [kind : Kinds \cup {"none"}, host : 0 .. MaxReloads, step : Steps,
         account : Account, answer : Answers]

Consent == [shown : Account, meant : Wallets]

Pending(request) == task[request].step \notin {"unsent", "done"}

(* What settled promises go on with, before anything else happens. *)
Resumable(request) == ready /\ task[request].step = "restoring"
Idle == login \in {"closed", "open"} /\ ~\E request \in Requests : Resumable(request)

-----------------------------------------------------------------------------
(* post, remembered, pushAccounts *)

(* A request that has been dealt with; a host that was stopped posts no answer. *)
Answered(asked, answer) ==
    [asked EXCEPT !.step = "done", !.answer = IF asked.host = host THEN answer ELSE "none"]

(* A request that goes on to wait for the person or the wallet, about this account. *)
Waiting(asked, to, wallet) == [asked EXCEPT !.step = to, !.account = wallet]

(* The accounts the frame may be told of: those approved. *)
Visible(wallet) == {wallet} \cap ({remembered} \ {None})

PushAccounts(wallet) == told' = told \cup Visible(wallet)

-----------------------------------------------------------------------------
(* What follows in a connect request when the wallet is known, or missing. *)

Ask(request, asked, wallet) ==
    \/ /\ asked.kind = "silent"
       /\ task' = [task EXCEPT ![request] = Answered(asked, "refused")]
       /\ UNCHANGED approval
    \/ /\ asked.kind = "connect"
       /\ task' = [task EXCEPT ![request] = Waiting(asked, "asking", wallet)]
       /\ approval' = request

Proceed(request, asked, wallet) ==
    /\ UNCHANGED <<remembered, consents, host>>
    /\ \/ /\ wallet = None
          /\ task' = [task EXCEPT ![request] = Answered(asked, "refused")]
          /\ UNCHANGED <<approval, told>>
       \/ /\ wallet # None /\ wallet = remembered
          /\ task' = [task EXCEPT ![request] = Answered(asked, wallet)]
          /\ told' = IF asked.host = host THEN told \cup {wallet} ELSE told
          /\ UNCHANGED approval
       \/ /\ wallet # None /\ wallet # remembered
          /\ Ask(request, asked, wallet)
          /\ UNCHANGED told

(* settleConnect; connect answers false, or true and the account is read again. *)
SettleConnect(ok) ==
    /\ waiter' = None
    /\ \/ waiter = None /\ UNCHANGED <<siteVars, frameVars>>
       \/ waiter # None /\ Proceed(waiter, task[waiter], IF ok THEN account ELSE None)

-----------------------------------------------------------------------------
(* onMessage and handle.  (A message with an id seen before is ignored.) *)

\* Faulty variant of the next definition: a request being handled does not matter.
BusyNever == FALSE

Busy == \E request \in Requests : Pending(request) /\ task[request].host = host

(* The next request the frame sends. *)
Fresh(request) ==
    /\ task[request].step = "unsent"
    /\ \A earlier \in 1 .. (request - 1) : task[earlier].step # "unsent"

Sent(kind) == [kind |-> kind, host |-> host, step |-> "done", account |-> None, answer |-> "none"]

Hello ==
    /\ Idle
    /\ PushAccounts(account)
    /\ UNCHANGED <<walletVars, chooserVars, siteVars, host, task>>

ReceiveWhenBusy(request, kind) ==
    /\ Idle /\ Fresh(request) /\ Busy
    /\ task' = [task EXCEPT ![request] = Answered(Sent(kind), "busy")]
    /\ UNCHANGED <<walletVars, chooserVars, siteVars, host, told>>

ReceiveConnect(request, kind) ==
    /\ Idle /\ Fresh(request) /\ ~Busy
    /\ kind \in {"connect", "silent"}
    /\ \/ account # None /\ Proceed(request, Sent(kind), account)
       \/ /\ account = None
          /\ task' = [task EXCEPT ![request] = [Sent(kind) EXCEPT !.step = "restoring"]]
          /\ UNCHANGED <<siteVars, host, told>>
    /\ UNCHANGED <<walletVars, chooserVars>>

\* Faulty variant of the next definition: the account is not looked up.
ApprovedAnyway(wallet) == wallet # None

Approved(wallet) == wallet # None /\ wallet = remembered

(***************************************************************************)
(* A request to sign goes to the wallet, or is refused: unreadable, for    *)
(* another network, a change of owner, or a site that is not connected.    *)
(***************************************************************************)
ReceiveSign(request) ==
    /\ Idle /\ Fresh(request) /\ ~Busy
    /\ \/ task' = [task EXCEPT ![request] = Answered(Sent("sign"), "refused")]
       \/ /\ Approved(account)
          /\ task' = [task EXCEPT ![request] = Waiting(Sent("sign"), "signing", account)]
    /\ UNCHANGED <<walletVars, chooserVars, siteVars, host, told>>

(* The wallet signs, sends, or the person declines. *)
SignEnds(request) ==
    /\ Idle
    /\ task[request].step = "signing"
    /\ \E answer \in {"signed", "refused"} :
         task' = [task EXCEPT ![request] = Answered(task[request], answer)]
    /\ UNCHANGED <<walletVars, chooserVars, siteVars, host, told>>

-----------------------------------------------------------------------------
(* connectWhenReady *)

(* The wallet is there; or a silent request gives up; or the person is to choose. *)
Resume(request) ==
    /\ Resumable(request)
    /\ \A earlier \in 1 .. (request - 1) : ~Resumable(earlier)
    /\ \/ /\ account # None \/ task[request].kind = "silent"
          /\ Proceed(request, task[request], account)
          /\ UNCHANGED chooserVars
       \/ /\ account = None /\ task[request].kind = "connect"
          /\ task' = [other \in Requests |->
                        IF other = request THEN [task[other] EXCEPT !.step = "choosing"]
                        ELSE IF other = waiter THEN Answered(task[other], "refused")
                        ELSE task[other]]
          /\ waiter' = request
          /\ choosing' = TRUE
          /\ UNCHANGED <<open, login, siteVars, host, told>>
    /\ UNCHANGED walletVars

(* WalletConnect's finish. *)
Finish ==
    /\ login \in {"connected", "dismissed"}
    /\ login' = "closed"
    /\ choosing' = FALSE
    /\ SettleConnect(login = "connected")
    /\ UNCHANGED <<walletVars, open>>

(***************************************************************************)
(* The page is rendered and its effects run: the login is started when it  *)
(* is to open (a wallet connected meanwhile is disconnected first), the    *)
(* frame is told of a new account, and a request that waits is settled     *)
(* when the login has closed.                                              *)
(***************************************************************************)
Render ==
    /\ account # session \/ open # choosing
    /\ account' = session
    /\ open' = choosing
    /\ IF choosing /\ ~open /\ login = "closed"
       THEN login' = "open" /\ session' = None
       ELSE UNCHANGED <<login, session>>
    /\ told' = IF account # session THEN told \cup Visible(session) ELSE told
    /\ IF open /\ ~choosing /\ waiter # None
       THEN /\ waiter' = None
            /\ task' = [task EXCEPT ![waiter] = Answered(task[waiter], "refused")]
       ELSE UNCHANGED <<waiter, task>>
    /\ UNCHANGED <<ready, choosing, siteVars, host>>

-----------------------------------------------------------------------------
(* The wallet provider and the person *)

(* The session is restored, with a wallet or none: rendered, and the frame told. *)
Restore(wallet) ==
    /\ ~ready
    /\ ready' = TRUE
    /\ session' = wallet
    /\ account' = wallet
    /\ told' = told \cup Visible(wallet)
    /\ UNCHANGED <<chooserVars, siteVars, host, task>>

(* Another account of the wallet is selected, or the session ends. *)
SwitchWallet(wallet) ==
    /\ Idle
    /\ session # None /\ wallet # session
    /\ session' = wallet
    /\ UNCHANGED <<ready, account, chooserVars, siteVars, frameVars>>

PressHeaderConnect ==
    /\ Idle
    /\ ready /\ account = None
    /\ ~choosing
    /\ choosing' = TRUE
    /\ UNCHANGED <<walletVars, open, login, waiter, siteVars, frameVars>>

LogIn(wallet) ==
    /\ Idle
    /\ login = "open"
    /\ login' = "connected"
    /\ session' = wallet
    /\ UNCHANGED <<ready, account, choosing, open, waiter, siteVars, frameVars>>

DismissLogin ==
    /\ Idle
    /\ login = "open"
    /\ login' = "dismissed"
    /\ UNCHANGED <<walletVars, choosing, open, waiter, siteVars, frameVars>>

\* Faulty variant of the next definition: the account is not read again.
StillCurrentAssumed(asked) == TRUE

StillCurrent(asked) == account = asked.account

(* "Connect to ...?  It will see ...": the account shown is the one rendered. *)
PressConnect ==
    /\ Idle
    /\ approval # None
    /\ LET asked == task[approval]
           wallet == asked.account
       IN  /\ remembered' = wallet
           /\ consents' = consents \cup {[shown |-> account, meant |-> wallet]}
           /\ task' = [task EXCEPT ![approval] =
                         Answered(asked, IF StillCurrent(asked) THEN wallet ELSE "refused")]
           /\ told' = IF StillCurrent(asked) /\ asked.host = host THEN told \cup {wallet}
                      ELSE told
    /\ approval' = None
    /\ UNCHANGED <<walletVars, chooserVars, host>>

PressCancel ==
    /\ Idle
    /\ approval # None
    /\ approval' = None
    /\ task' = [task EXCEPT ![approval] = Answered(task[approval], "refused")]
    /\ UNCHANGED <<walletVars, chooserVars, remembered, consents, host, told>>

(***************************************************************************)
(* The frame is reloaded: its host is stopped, the question on the screen  *)
(* and the request that waits for the login are answered no (unheard), and *)
(* a new host starts with nothing seen and nothing busy.                   *)
(***************************************************************************)
Reload ==
    /\ Idle
    /\ host < MaxReloads
    /\ host' = host + 1
    /\ approval' = None
    /\ waiter' = None
    /\ task' = [request \in Requests |->
                  IF request \in {approval, waiter}
                  THEN [task[request] EXCEPT !.step = "done"]
                  ELSE task[request]]
    /\ UNCHANGED <<walletVars, choosing, open, login, remembered, consents, told>>

-----------------------------------------------------------------------------

Init ==
    /\ ready = FALSE /\ session = None /\ account = None
    /\ choosing = FALSE /\ open = FALSE /\ login = "closed" /\ waiter = None
    /\ remembered \in Account
    /\ consents = {[shown |-> wallet, meant |-> wallet] : wallet \in {remembered} \ {None}}
    /\ approval = None
    /\ host = 0
    /\ task = [request \in Requests |->
                 [kind |-> "none", host |-> 0, step |-> "unsent", account |-> None,
                  answer |-> "none"]]
    /\ told = {}

Frame ==
    \/ Hello
    \/ \E request \in Requests :
          \/ \E kind \in Kinds : ReceiveWhenBusy(request, kind)
          \/ \E kind \in {"connect", "silent"} : ReceiveConnect(request, kind)
          \/ ReceiveSign(request)

Shell == Finish \/ Render \/ \E request \in Requests : Resume(request)

Person ==
    \/ \E wallet \in Account : Restore(wallet) \/ SwitchWallet(wallet)
    \/ \E wallet \in Wallets : LogIn(wallet)
    \/ DismissLogin \/ PressHeaderConnect \/ PressConnect \/ PressCancel \/ Reload
    \/ \E request \in Requests : SignEnds(request)

Next == Frame \/ Shell \/ Person

Spec == Init /\ [][Next]_vars

-----------------------------------------------------------------------------

(* The shape of the shell's state, and who is referred to. *)
TypeOK ==
    /\ {session, account, remembered} \subseteq Account
    /\ {ready, choosing, open} \subseteq BOOLEAN
    /\ login \in {"closed", "open", "connected", "dismissed"}
    /\ {waiter, approval} \subseteq Requests \cup {None}
    /\ host \in 0 .. MaxReloads
    /\ task \in [Requests -> Task]
    /\ told \subseteq Wallets
    /\ consents \subseteq Consent

(* What the person pressed Connect on a question about. *)
Agreed == {consent.meant : consent \in consents}

(***************************************************************************)
(* The site learns an account, or has it asked for a signature, only after *)
(* the person pressed Connect on a question that was about that account:   *)
(* however wallets are switched between the question, the answer and the   *)
(* messages that follow.                                                   *)
(***************************************************************************)
ConsentFirst ==
    /\ told \subseteq Agreed
    /\ \A request \in Requests :
         task[request].step = "signing" => task[request].account \in Agreed

(***************************************************************************)
(* One prompt at a time: a request that waits for the person can be        *)
(* answered, for its own question is on the screen, or it is the one the   *)
(* login will settle and the login is wanted open.  No question is swapped *)
(* for another's, or left behind by a closed login or a reloaded frame.    *)
(***************************************************************************)
WaitsOnScreen ==
    \A request \in Requests :
        task[request].host = host =>
            /\ task[request].step = "asking" => approval = request
            /\ task[request].step = "choosing" => waiter = request /\ choosing

(***************************************************************************)
(* A connect is answered with the account the page shows at that moment,   *)
(* approved for this site: not with one the wallet has meanwhile left.     *)
(***************************************************************************)
AnswersCurrent ==
    [][\A request \in Requests :
         LET answer == task'[request].answer IN
         answer \in Wallets /\ task[request].answer # answer
         => answer = account /\ answer = remembered']_vars

(***************************************************************************)
(* "Only accounts the person approved for this site": the page said which  *)
(* account the site will see, and the site is told of no other.            *)
(* (Refuted: the question follows a switch of wallets, the approval not.)  *)
(***************************************************************************)
ToldAsShown == told \subseteq {consent.shown : consent \in consents}

-----------------------------------------------------------------------------
(* The inductive invariant behind these properties, in parts. *)

(* Before the session is restored there is no wallet, and no login for one. *)
RestoredFirst ==
    ~ready => /\ session = None /\ account = None
              /\ ~choosing /\ login = "closed" /\ waiter = None

(* The account remembered for the site was agreed to. *)
RememberedAgreed == remembered # None => remembered \in Agreed

(* The question on the screen is of a request that asks it, the login's of one that waits. *)
QuestionsFit ==
    /\ approval # None => task[approval].step = "asking" /\ task[approval].account \in Wallets
    /\ waiter # None => task[waiter].step = "choosing"

(* Requests are sent in order, by one host after the other. *)
SentInOrder ==
    \A later \in Requests :
        /\ task[later].host <= host
        /\ task[later].step # "unsent" =>
              \A earlier \in 1 .. (later - 1) : /\ task[earlier].step # "unsent"
                                               /\ task[earlier].host <= task[later].host

(* The host that serves the frame handles one request at a time. *)
OneAtATime ==
    \A one, other \in Requests :
        /\ Pending(one) /\ task[one].host = host
        /\ Pending(other) /\ task[other].host = host
        => one = other

(* Requests that waited for the session to be restored go on in the order they were sent. *)
ResumedInOrder ==
    \A request \in Requests :
        task[request].step \in {"asking", "choosing"} =>
            \A earlier \in 1 .. (request - 1) : task[earlier].step # "restoring"

(* None of them is left when a login ends, or when the wallet changes after a reload. *)
ResumedAtOnce ==
    \A request \in Requests :
        task[request].step = "restoring" =>
            /\ login \in {"closed", "open"}
            /\ task[request].host # host => session = None \/ session = account

(* A request of a stopped host waits for the login only while nobody can be asked anything. *)
StoppedHostWaits ==
    waiter # None /\ task[waiter].host # host =>
        /\ (session = None /\ account = None) \/ login = "connected"
        /\ \A request \in Requests :
              task[request].host = host => task[request].step # "asking"

Inv ==
    /\ TypeOK
    /\ RestoredFirst
    /\ ConsentFirst /\ RememberedAgreed
    /\ QuestionsFit /\ SentInOrder /\ OneAtATime
    /\ ResumedInOrder /\ ResumedAtOnce /\ StoppedHostWaits
    /\ WaitsOnScreen
=============================================================================
