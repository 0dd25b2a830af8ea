-------------------------- MODULE OwnerSessionProofs --------------------------
(***************************************************************************)
(* Proofs about one browser's sessions, for any number of wallets,         *)
(* accessories, requests and challenges.                                   *)
(***************************************************************************)
EXTENDS OwnerSession, TLAPS

(***************************************************************************)
(* Setting something is setting a cookie.                                  *)
(***************************************************************************)
LEMMA SetsCookie ==
    ASSUME NEW C, NEW change \in Changes(C), Sets(change)
    PROVE  change[2] \in C /\ change = Set(change[2])
BY DEF Changes, Sets, Set, Clear, Keep

(***************************************************************************)
(* What becomes of a cookie when a response is applied.                    *)
(***************************************************************************)
LEMMA AppliedCookie ==
    ASSUME NEW C, NEW change \in Changes(C), NEW cookie \in C \cup {NoCookie}
    PROVE  /\ Applied(change, cookie) \in C \cup {NoCookie}
           /\ change = Clear => Applied(change, cookie) = NoCookie
           /\ \/ Applied(change, cookie) = cookie
              \/ Applied(change, cookie) = NoCookie
              \/ Sets(change) /\ Applied(change, cookie) = change[2]
BY DEF Changes, Sets, Set, Clear, Keep, Applied

LEMMA NothingSets ==
    /\ Nothing.bu = <<Keep>> /\ Nothing.ob = <<Keep>> /\ Nothing.os = <<Keep>>
    /\ ~Sets(Nothing.bu) /\ ~Sets(Nothing.ob) /\ ~Sets(Nothing.os)
    /\ ~Sets(Clear) /\ ~Sets(<<Keep>>)
BY DEF Nothing, Response, Sets, Clear, Keep

(***************************************************************************)
(* Issuing a challenge keeps the rows and the history of challenges typed. *)
(***************************************************************************)
LEMMA IssueType ==
    ASSUME ChallengesTypeOK, NEW message \in Messages,
           IssueChallenge("login", message)
    PROVE  ChallengesTypeOK'
<1>1. PICK id \in ChallengeIds \ {c.id : c \in issued} :
        LET challenge == [id |-> id, namespace |-> "login",
                          message |-> message, expiresAt |-> Expiry]
            expired == {c \in authChallenges : c.namespace = "login" /\ c.expiresAt < now} IN
        /\ authChallenges' = (authChallenges \ expired) \cup {challenge}
        /\ issued' = issued \cup {challenge}
        /\ UNCHANGED now
  BY DEF IssueChallenge
<1>2. Expiry \in 0 .. MaxTime + ChallengeTTL
  BY ChallengeAssumption DEF Expiry, ChallengesTypeOK
<1> QED
  BY <1>1, <1>2, SessionAssumption DEF ChallengesTypeOK, Challenge

(***************************************************************************)
(* A new challenge brings back no challenge that is gone: its id is new.   *)
(***************************************************************************)
LEMMA ChallengeStep ==
    ASSUME NEW message, IssueChallenge("login", message)
    PROVE  /\ now' = now
           /\ issued \subseteq issued'
           /\ \A c \in issued : c \notin authChallenges => c \notin authChallenges'
<1>1. PICK id \in ChallengeIds \ {c.id : c \in issued} :
        LET challenge == [id |-> id, namespace |-> "login",
                          message |-> message, expiresAt |-> Expiry]
            expired == {c \in authChallenges : c.namespace = "login" /\ c.expiresAt < now} IN
        /\ authChallenges' = (authChallenges \ expired) \cup {challenge}
        /\ issued' = issued \cup {challenge}
        /\ UNCHANGED now
  BY DEF IssueChallenge
<1> DEFINE challenge == [id |-> id, namespace |-> "login", message |-> message, expiresAt |-> Expiry]
<1>2. \A c \in issued : c # challenge
  <2>1. challenge.id = id
    OBVIOUS
  <2> HIDE DEF challenge
  <2> QED
    BY <2>1
<1> HIDE DEF challenge
<1>3. now' = now /\ issued' = issued \cup {challenge} /\ authChallenges' \subseteq authChallenges \cup {challenge}
  BY <1>1 DEF challenge
<1> QED
  BY <1>2, <1>3

-----------------------------------------------------------------------------
(***************************************************************************)
(* Responses that are typed keep the state of the requests typed.          *)
(***************************************************************************)
LEMMA RespondType ==
    ASSUME TypeOK, InputsFit, NEW request \in Requests, step[request] # "idle",
           NEW cookies \in [bu : Changes(Cookie), ob : Changes(Cookie), os : Changes(Login)],
           step[request] # "responding",
           Respond(request, cookies)
    PROVE  /\ step' \in [Requests -> {"idle", "tap", "login", "logout", "open", "fetch",
                                      "admit", "responding"}]
           /\ input' \in [Requests -> TapInput \cup LoginInput \cup OpenInput \cup WalletInput
                                      \cup {NoInput}]
           /\ response' \in [Requests -> [bu : Changes(Cookie), ob : Changes(Cookie),
                                          os : Changes(Login)]]
           /\ UNCHANGED <<jar, signatures, chainVars, loggedOut>>
           /\ input[request].address \in Wallets \cup {Nobody}
<1>1. input[request].address \in Wallets \cup {Nobody}
  BY DEF TypeOK, InputsFit, TapInput, LoginInput, OpenInput, WalletInput
<1>2. [address |-> input[request].address] \in WalletInput
  BY <1>1 DEF WalletInput
<1> QED
  BY <1>1, <1>2 DEF TypeOK, Respond

(***************************************************************************)
(* The cookies the server makes have their types.                          *)
(***************************************************************************)
LEMMA CookiesTyped ==
    ASSUME TypeOK
    PROVE  LET Typed == [bu : Changes(Cookie), ob : Changes(Cookie), os : Changes(Login)] IN
           /\ Nothing \in Typed /\ LoggedOut \in Typed
           /\ \A pda \in Addresses : SetBrowseUnlock(pda) \in Typed
           /\ \A wallet \in Wallets : SetOwnerSession(wallet) \in Typed
           /\ \A open \in OpenInput : open.os # NoCookie => SetOwnerBrowse(open) \in Typed
<1> DEFINE Typed == [bu : Changes(Cookie), ob : Changes(Cookie), os : Changes(Login)]
<1> USE ChallengeAssumption, SessionAssumption
<1>1. now \in 0 .. MaxTime /\ now + BrowseTTL \in Times /\ now + OwnerTTL \in Times
  BY DEF TypeOK, ChallengesTypeOK, Times
<1>2. /\ \A C : <<Keep>> \in Changes(C) /\ Clear \in Changes(C)
      /\ \A C : \A cookie \in C : Set(cookie) \in Changes(C)
  BY DEF Changes
<1>3. Nothing \in Typed /\ LoggedOut \in Typed
  BY <1>2 DEF Nothing, LoggedOut, Response
<1>4. ASSUME NEW pda \in Addresses
      PROVE  SetBrowseUnlock(pda) \in Typed
  <2>1. [pda |-> pda, wallet |-> Nobody, exp |-> now + BrowseTTL, asked |-> now] \in Cookie
    BY <1>1 DEF Cookie
  <2> QED
    BY <1>2, <2>1 DEF SetBrowseUnlock, Response
<1>5. ASSUME NEW wallet \in Wallets
      PROVE  SetOwnerSession(wallet) \in Typed
  <2>1. [wallet |-> wallet, exp |-> now + OwnerTTL] \in Login
    BY <1>1 DEF Login
  <2> QED
    BY <1>2, <2>1 DEF SetOwnerSession, Response
<1>6. ASSUME NEW open \in OpenInput, open.os # NoCookie
      PROVE  SetOwnerBrowse(open) \in Typed
  <2>1. OwnerBrowse(open) \in Cookie
    BY <1>1, <1>6 DEF OwnerBrowse, Cookie, OpenInput, Login
  <2> QED
    BY <1>2, <2>1 DEF SetOwnerBrowse, Response
<1> QED
  BY <1>3, <1>4, <1>5, <1>6

(***************************************************************************)
(* Every step of the browser, of the server and of the world keeps the     *)
(* state well typed.                                                       *)
(***************************************************************************)
LEMMA TypeStep == TypeOK /\ InputsFit /\ [Next]_vars => TypeOK'
<1> SUFFICES ASSUME TypeOK, InputsFit, [Next]_vars
             PROVE  TypeOK'
  OBVIOUS
<1> USE ChallengeAssumption, SessionAssumption
<1> USE DEF vars, challengeVars, chainVars, jar, requestVars
<1>1. CASE Time
  BY <1>1 DEF Time, Tick, TypeOK, ChallengesTypeOK
<1>2. ASSUME NEW address \in Addresses, NEW wallet \in Wallets \cup {Nobody},
             ChangeOwner(address, wallet)
      PROVE  TypeOK'
  <2>1. now \in -BrowseTTL .. MaxTime
    BY DEF TypeOK, ChallengesTypeOK
  <2>2. lastOwned' \in [Addresses \X Wallets -> -BrowseTTL .. MaxTime]
    BY <1>2, <2>1 DEF ChangeOwner, TypeOK
  <2> QED
    BY <1>2, <2>2 DEF ChangeOwner, TypeOK, ChallengesTypeOK
<1>3. ASSUME NEW wallet \in Wallets, IssueLogin(wallet)
      PROVE  TypeOK'
  BY <1>3, IssueType DEF IssueLogin, TypeOK
<1>4. ASSUME NEW wallet \in Wallets, NEW challenge \in issued, SignMessage(wallet, challenge)
      PROVE  TypeOK'
  BY <1>4 DEF SignMessage, TypeOK, ChallengesTypeOK, Challenge
<1>5. ASSUME NEW request \in Requests, NEW address \in Addresses, SendTap(request, address)
      PROVE  TypeOK'
  BY <1>5 DEF SendTap, Send, TypeOK, ChallengesTypeOK, TapInput
<1>6. ASSUME NEW request \in Requests, NEW address \in Addresses, NEW wallet \in Wallets,
             SendOpen(request, address, wallet)
      PROVE  TypeOK'
  <2>1. [pda |-> address, address |-> wallet, os |-> os, sent |-> now] \in OpenInput
    BY DEF OpenInput, TypeOK, ChallengesTypeOK
  <2> QED
    BY <1>6, <2>1 DEF SendOpen, Send, TypeOK, ChallengesTypeOK
<1>7. ASSUME NEW request \in Requests, NEW challenge \in issued, NEW wallet \in Wallets,
             NEW signature \in signatures, SendLogin(request, challenge.id, wallet, signature)
      PROVE  TypeOK'
  <2>1. [challengeId |-> challenge.id, address |-> wallet, signature |-> signature,
         sent |-> now] \in LoginInput
    BY DEF LoginInput, TypeOK, ChallengesTypeOK, Challenge
  <2> QED
    BY <1>7, <2>1 DEF SendLogin, Send, TypeOK, ChallengesTypeOK
<1>8. ASSUME NEW request \in Requests, SendLogout(request)
      PROVE  TypeOK'
  BY <1>8 DEF SendLogout, Send, TypeOK, ChallengesTypeOK, WalletInput
<1>9. ASSUME NEW request \in Requests, HandleTap(request)
      PROVE  TypeOK'
  <2>1. input[request].pda \in Addresses /\ now \in -BrowseTTL .. MaxTime
    BY <1>9 DEF HandleTap, TypeOK, ChallengesTypeOK, InputsFit, TapInput
  <2>2. PICK cookies \in {SetBrowseUnlock(input[request].pda), Nothing} :
            Respond(request, cookies)
    BY <1>9 DEF HandleTap
  <2>3. lastTapped' \in [Addresses -> -BrowseTTL .. MaxTime]
    BY <1>9, <2>1 DEF HandleTap, TypeOK
  <2> QED
    BY <1>9, <2>1, <2>2, <2>3, CookiesTyped, RespondType
       DEF HandleTap, TypeOK, ChallengesTypeOK
<1>10. ASSUME NEW request \in Requests, HandleLogin(request)
       PROVE  TypeOK'
  <2>1. input[request].address \in Wallets
    BY <1>10 DEF HandleLogin, InputsFit, LoginInput
  <2>2. PICK cookies \in {SetOwnerSession(input[request].address), Nothing} :
            Respond(request, cookies)
    BY <1>10 DEF HandleLogin
  <2>3. ChallengesTypeOK'
    BY <1>10 DEF HandleLogin, ConsumeRows, TypeOK, ChallengesTypeOK
  <2> QED
    BY <1>10, <2>1, <2>2, <2>3, CookiesTyped, RespondType DEF HandleLogin, TypeOK
<1>11. ASSUME NEW request \in Requests, HandleLogout(request)
       PROVE  TypeOK'
  BY <1>11, CookiesTyped, RespondType DEF HandleLogout, TypeOK, ChallengesTypeOK
<1>12. ASSUME NEW request \in Requests, CheckLogin(request)
       PROVE  TypeOK'
  <2>1. CASE Respond(request, Nothing)
    BY <1>12, <2>1, CookiesTyped, RespondType DEF CheckLogin, TypeOK, ChallengesTypeOK
  <2>2. CASE step' = [step EXCEPT ![request] = "fetch"]
             /\ UNCHANGED <<input, response, jar, signatures, chainVars, loggedOut>>
    BY <1>12, <2>2 DEF CheckLogin, TypeOK, ChallengesTypeOK
  <2> QED
    BY <1>12, <2>1, <2>2 DEF CheckLogin
<1>13. ASSUME NEW request \in Requests, FetchOwner(request)
       PROVE  TypeOK'
  <2>1. CASE Respond(request, Nothing)
    BY <1>13, <2>1, CookiesTyped, RespondType DEF FetchOwner, TypeOK, ChallengesTypeOK
  <2>2. CASE step' = [step EXCEPT ![request] = "admit"]
             /\ UNCHANGED <<input, response, jar, signatures, chainVars, loggedOut>>
    BY <1>13, <2>2 DEF FetchOwner, TypeOK, ChallengesTypeOK
  <2> QED
    BY <1>13, <2>1, <2>2 DEF FetchOwner
<1>14. ASSUME NEW request \in Requests, AdmitOwner(request)
       PROVE  TypeOK'
  <2>1. input[request] \in OpenInput /\ input[request].os # NoCookie
    BY <1>14 DEF AdmitOwner, InputsFit
  <2> QED
    BY <1>14, <2>1, CookiesTyped, RespondType DEF AdmitOwner, TypeOK, ChallengesTypeOK
<1>15. ASSUME NEW request \in Requests, Receive(request)
       PROVE  TypeOK'
  <2>1. response[request] \in [bu : Changes(Cookie), ob : Changes(Cookie), os : Changes(Login)]
    BY DEF TypeOK
  <2>2. /\ bu' \in Cookie \cup {NoCookie}
        /\ ob' \in Cookie \cup {NoCookie}
        /\ os' \in Login \cup {NoCookie}
    BY <1>15, <2>1, AppliedCookie DEF Receive, TypeOK
  <2>3. loggedOut' \in BOOLEAN
    BY <1>15 DEF Receive, TypeOK
  <2>4. /\ step' \in [Requests -> {"idle", "tap", "login", "logout", "open", "fetch",
                                      "admit", "responding"}]
        /\ input' \in [Requests -> TapInput \cup LoginInput \cup OpenInput \cup WalletInput
                                      \cup {NoInput}]
        /\ response' \in [Requests -> [bu : Changes(Cookie), ob : Changes(Cookie),
                                          os : Changes(Login)]]
    BY <1>15, CookiesTyped DEF Receive, Done, TypeOK
  <2> QED
    BY <1>15, <2>2, <2>3, <2>4 DEF Receive, TypeOK, ChallengesTypeOK
<1>16. ASSUME NEW request \in Requests, Lose(request)
       PROVE  TypeOK'
  BY <1>16, CookiesTyped DEF Lose, Done, TypeOK, ChallengesTypeOK
<1>17. CASE UNCHANGED vars
  BY <1>17 DEF TypeOK, ChallengesTypeOK
<1> QED
  BY <1>1, <1>2, <1>3, <1>4, <1>5, <1>6, <1>7, <1>8, <1>9, <1>10, <1>11, <1>12, <1>13, <1>14,
     <1>15, <1>16, <1>17 DEF Next, World, Browser, Server

-----------------------------------------------------------------------------
(***************************************************************************)
(* Ownership that was seen is not taken back: an owner who lost the        *)
(* accessory since is on record as having had it until then.               *)
(***************************************************************************)
LEMMA OwnedStays ==
    ASSUME TypeOK, NEW changed \in Addresses, NEW heir \in Wallets \cup {Nobody},
           ChangeOwner(changed, heir),
           NEW address \in Addresses, NEW wallet \in Wallets \cup {Nobody}, wallet # Nobody,
           NEW time \in 0 .. MaxTime, time <= now, OwnedSince(time, address, wallet)
    PROVE  OwnedSince(time, address, wallet)'
<1>1. now \in Int /\ owner[address] \in Wallets \cup {Nobody}
  BY SessionAssumption DEF TypeOK, ChallengesTypeOK
<1>2. CASE address = changed /\ owner[address] = wallet
  BY <1>1, <1>2, SessionAssumption DEF ChangeOwner, OwnedSince, TypeOK
<1>3. CASE ~(address = changed /\ owner[address] = wallet)
  BY <1>1, <1>3, SessionAssumption DEF ChangeOwner, OwnedSince, TypeOK
<1> QED
  BY <1>2, <1>3

(***************************************************************************)
(* The world changes the clock, the owners, the challenges and the         *)
(* signatures, none of which takes back what cookies rely on.              *)
(***************************************************************************)
LEMMA WorldStep == Inv /\ World => Inv'
<1> SUFFICES ASSUME Inv, World
             PROVE  Inv'
  OBVIOUS
<1> USE ChallengeAssumption, SessionAssumption
<1>1. TypeOK'
  BY TypeStep DEF Inv, Next
<1>2. /\ UNCHANGED <<jar, requestVars, lastTapped, loggedOut>>
      /\ signatures \subseteq signatures'
  BY DEF World, Time, ChangeOwner, IssueLogin, SignMessage
<1>3. /\ now <= now' /\ now \in Int /\ now' \in Int
  <2>1. now' = now \/ now' = now + 1
    BY ChallengeStep DEF World, Time, Tick, ChangeOwner, IssueLogin, SignMessage
  <2> QED
    BY <2>1 DEF Inv, TypeOK, ChallengesTypeOK
<1>4. InputsFit'
  BY <1>2, <1>3 DEF Inv, InputsFit, requestVars, LoginInput, OpenInput
<1>5. OneAdmit' /\ ResponsesClear' /\ OpensForThisWallet' /\ LogoutClears'
  BY <1>2 DEF Inv, OneAdmit, ResponsesClear, OpensForThisWallet, LogoutClears, jar, requestVars
<1>9. UnlocksByTap'
  <2>1. \A address \in Addresses : lastTapped'[address] <= now'
    BY <1>2, <1>3 DEF Inv, TypeOK, UnlocksByTap
  <2> QED
    BY <1>2, <2>1 DEF Inv, UnlocksByTap, ByTap, jar, requestVars
<1>6. ASSUME NEW time \in 0 .. MaxTime, NEW address \in Addresses,
             NEW wallet \in Wallets \cup {Nobody}, wallet # Nobody,
             time <= now, OwnedSince(time, address, wallet)
      PROVE  OwnedSince(time, address, wallet)'
  <2>1. CASE UNCHANGED chainVars
    BY <1>6, <2>1 DEF OwnedSince, chainVars
  <2>2. ASSUME NEW changed \in Addresses, NEW heir \in Wallets \cup {Nobody},
               ChangeOwner(changed, heir)
        PROVE  OwnedSince(time, address, wallet)'
    BY <1>6, <2>2, OwnedStays DEF Inv
  <2> QED
    BY <2>1, <2>2 DEF World, Time, IssueLogin, SignMessage
<1>7. BrowsesByOwner'
  <2>1. \A cookie \in Cookie : ByOwner(cookie) => ByOwner(cookie)'
    BY <1>3, <1>6 DEF ByOwner, Cookie
  <2>2. ob # NoCookie => ob \in Cookie
    BY DEF Inv, TypeOK
  <2>3. \A request \in Requests :
            Sets(response[request].ob) => response[request].ob[2] \in Cookie
    BY SetsCookie DEF Inv, TypeOK
  <2>4. ASSUME NEW request \in Requests, step[request] = "admit"
        PROVE  /\ input[request].sent \in 0 .. MaxTime /\ input[request].sent <= now
               /\ input[request].pda \in Addresses
               /\ input[request].os.wallet \in Wallets
    BY <2>4 DEF Inv, InputsFit, OpenInput, Login
  <2> QED
    BY <1>2, <1>6, <2>1, <2>2, <2>3, <2>4 DEF Inv, BrowsesByOwner, jar, requestVars
<1>8. LoginsBySignature'
  <2>1. /\ issued \subseteq issued'
        /\ \A c \in issued : c \notin authChallenges => c \notin authChallenges'
    BY ChallengeStep DEF World, Time, Tick, ChangeOwner, IssueLogin, SignMessage, challengeVars
  <2>2. \A login \in Login : BySignature(login) => BySignature(login)'
    BY <1>2, <2>1 DEF BySignature
  <2>3. os # NoCookie => os \in Login
    BY DEF Inv, TypeOK
  <2>4. \A request \in Requests :
            Sets(response[request].os) => response[request].os[2] \in Login
    BY SetsCookie DEF Inv, TypeOK
  <2> QED
    BY <1>2, <2>2, <2>3, <2>4 DEF Inv, LoginsBySignature, jar, requestVars
<1> QED
  BY <1>1, <1>4, <1>5, <1>7, <1>8, <1>9 DEF Inv

(***************************************************************************)
(* What a new request carries is true when it is sent: an open sent after  *)
(* a log out carries no login.                                             *)
(***************************************************************************)
LEMMA SendStep ==
    ASSUME Inv, NEW request \in Requests,
           \/ \E address \in Addresses :
                \/ SendTap(request, address)
                \/ \E wallet \in Wallets : SendOpen(request, address, wallet)
           \/ \E challenge \in issued, wallet \in Wallets, signature \in signatures :
                SendLogin(request, challenge.id, wallet, signature)
           \/ SendLogout(request)
    PROVE  Inv'
<1> USE ChallengeAssumption, SessionAssumption
<1>1. TypeOK'
  BY TypeStep DEF Inv, Next, Browser
<1>2. /\ UNCHANGED <<now, challengeVars, chainVars, signatures, jar, response, lastTapped>>
      /\ step[request] = "idle"
      /\ step'[request] \in {"tap", "open", "login", "logout"}
      /\ \A other \in Requests \ {request} : /\ step'[other] = step[other]
                                             /\ input'[other] = input[other]
  BY DEF SendTap, SendOpen, SendLogin, SendLogout, Send, Inv, TypeOK
<1>3. /\ step'[request] = "tap" => input'[request] \in TapInput
      /\ step'[request] = "login" =>
            /\ input'[request] \in LoginInput
            /\ input'[request].signature \in signatures
            /\ input'[request].sent = now
            /\ ~loggedOut'
      /\ step'[request] = "logout" => input'[request] \in WalletInput
      /\ step'[request] = "open" =>
            /\ input'[request] \in OpenInput
            /\ input'[request].sent = now /\ input'[request].os = os
      /\ loggedOut' => loggedOut
  <2>1. CASE \E address \in Addresses : SendTap(request, address)
    BY <2>1 DEF SendTap, Send, TapInput, Inv, TypeOK
  <2>2. CASE \E address \in Addresses, wallet \in Wallets : SendOpen(request, address, wallet)
    <3>1. PICK address \in Addresses, wallet \in Wallets : SendOpen(request, address, wallet)
      BY <2>2
    <3>2. [pda |-> address, address |-> wallet, os |-> os, sent |-> now] \in OpenInput
      BY DEF OpenInput, Inv, TypeOK, ChallengesTypeOK
    <3> QED
      BY <3>1, <3>2 DEF SendOpen, Send, Inv, TypeOK
  <2>3. CASE \E challenge \in issued, wallet \in Wallets, signature \in signatures :
                SendLogin(request, challenge.id, wallet, signature)
    <3>1. PICK challenge \in issued, wallet \in Wallets, signature \in signatures :
                SendLogin(request, challenge.id, wallet, signature)
      BY <2>3
    <3>2. [challengeId |-> challenge.id, address |-> wallet, signature |-> signature,
           sent |-> now] \in LoginInput
      BY DEF LoginInput, Inv, TypeOK, ChallengesTypeOK, Challenge
    <3> QED
      BY <3>1, <3>2 DEF SendLogin, Send, Inv, TypeOK
  <2>4. CASE SendLogout(request)
    BY <2>4 DEF SendLogout, Send, WalletInput, Inv, TypeOK
  <2> QED
    BY <2>1, <2>2, <2>3, <2>4
<1>4. InputsFit'
  <2>1. now \in Int
    BY DEF Inv, TypeOK, ChallengesTypeOK
  <2> QED
    BY <1>2, <1>3, <2>1 DEF Inv, InputsFit
<1>5. OneAdmit' /\ ResponsesClear' /\ UnlocksByTap' /\ LoginsBySignature'
  BY <1>2 DEF Inv, OneAdmit, ResponsesClear, UnlocksByTap, ByTap, LoginsBySignature, BySignature,
              jar, challengeVars
<1>6. BrowsesByOwner' /\ OpensForThisWallet'
  BY <1>2 DEF Inv, BrowsesByOwner, ByOwner, OwnedSince, OpensForThisWallet, jar, chainVars
<1>7. LogoutClears'
  BY <1>2, <1>3 DEF Inv, LogoutClears, jar
<1> QED
  BY <1>1, <1>4, <1>5, <1>6, <1>7 DEF Inv

(***************************************************************************)
(* An answer that is honest about what it sets keeps the invariant: an     *)
(* admit by tap clears the one by ownership, and the reverse; what backs   *)
(* each cookie has happened; a request that a log out left alone sets      *)
(* nothing an owner has.                                                   *)
(***************************************************************************)
LEMMA RespondStep ==
    ASSUME Inv, TypeOK', NEW request \in Requests,
           step[request] \in {"tap", "login", "logout", "open", "fetch", "admit"},
           NEW cookies \in [bu : Changes(Cookie), ob : Changes(Cookie), os : Changes(Login)],
           Respond(request, cookies),
           now' = now, issued' = issued, authChallenges' \subseteq authChallenges,
           \A address \in Addresses : /\ lastTapped[address] <= lastTapped'[address]
                                      /\ lastTapped'[address] <= now,
           Sets(cookies.bu) => cookies.ob = Clear /\ ByTap(cookies.bu[2])',
           Sets(cookies.ob) => /\ cookies.bu = Clear
                               /\ ByOwner(cookies.ob[2])
                               /\ cookies.ob[2].wallet = input[request].address,
           Sets(cookies.os) => BySignature(cookies.os[2])',
           loggedOut => ~Sets(cookies.ob) /\ ~Sets(cookies.os)
    PROVE  Inv'
<1> USE ChallengeAssumption, SessionAssumption
<1>1. /\ UNCHANGED <<jar, signatures, chainVars, loggedOut>>
      /\ step'[request] = "responding" /\ response'[request] = cookies
      /\ input'[request].address = input[request].address
      /\ \A other \in Requests \ {request} : /\ step'[other] = step[other]
                                             /\ input'[other] = input[other]
                                             /\ response'[other] = response[other]
  BY DEF Respond, Inv, TypeOK
<1>2. /\ bu \in Cookie \cup {NoCookie} /\ ob \in Cookie \cup {NoCookie}
      /\ os \in Login \cup {NoCookie}
      /\ response \in [Requests -> [bu : Changes(Cookie), ob : Changes(Cookie),
                                    os : Changes(Login)]]
  BY DEF Inv, TypeOK
<1>3. InputsFit'
  BY <1>1 DEF Inv, InputsFit, LoginInput, OpenInput
<1>4. OneAdmit' /\ ResponsesClear'
  BY <1>1 DEF Inv, OneAdmit, ResponsesClear, jar
<1>5. UnlocksByTap'
  <2>1. \A cookie \in Cookie : ByTap(cookie) => ByTap(cookie)'
    BY DEF ByTap, Cookie, Times, Inv, TypeOK
  <2>2. \A other \in Requests :
            Sets(response[other].bu) => response[other].bu[2] \in Cookie
    BY <1>2, SetsCookie
  <2> QED
    BY <1>1, <1>2, <2>1, <2>2 DEF Inv, UnlocksByTap, jar
<1>6. BrowsesByOwner'
  <2>1. \A cookie : ByOwner(cookie) => ByOwner(cookie)'
    BY <1>1 DEF ByOwner, OwnedSince, chainVars
  <2> QED
    BY <1>1, <2>1 DEF Inv, BrowsesByOwner, OwnedSince, jar, chainVars
<1>7. LoginsBySignature'
  <2>1. \A login : BySignature(login) => BySignature(login)'
    BY <1>1 DEF BySignature
  <2> QED
    BY <1>1, <2>1 DEF Inv, LoginsBySignature, jar
<1>8. OpensForThisWallet'
  BY <1>1 DEF Inv, OpensForThisWallet, Sets
<1>9. LogoutClears'
  BY <1>1 DEF Inv, LogoutClears, jar
<1> QED
  BY <1>3, <1>4, <1>5, <1>6, <1>7, <1>8, <1>9 DEF Inv

(***************************************************************************)
(* A tap's answer: browse_unlock for the accessory just tapped.            *)
(***************************************************************************)
LEMMA TapStep ==
    ASSUME Inv, NEW request \in Requests, HandleTap(request)
    PROVE  Inv'
<1> USE ChallengeAssumption, SessionAssumption
<1> DEFINE pda == input[request].pda
<1>1. TypeOK'
  BY TypeStep DEF Inv, Next, Server
<1>2. /\ step[request] = "tap" /\ pda \in Addresses
      /\ now' = now /\ issued' = issued /\ authChallenges' = authChallenges
  BY DEF HandleTap, Inv, InputsFit, TapInput, challengeVars
<1>3. /\ Nothing \in [bu : Changes(Cookie), ob : Changes(Cookie), os : Changes(Login)]
      /\ SetBrowseUnlock(pda) \in [bu : Changes(Cookie), ob : Changes(Cookie),
                                   os : Changes(Login)]
  BY <1>2, CookiesTyped DEF Inv
<1>4. /\ now \in 0 .. MaxTime /\ BrowseTTL \in Nat
      /\ lastTapped \in [Addresses -> -BrowseTTL .. MaxTime]
  BY DEF Inv, TypeOK, ChallengesTypeOK
<1>5. CASE Respond(request, Nothing) /\ UNCHANGED lastTapped
  <2>1. \A address \in Addresses : /\ lastTapped[address] <= lastTapped'[address]
                                   /\ lastTapped'[address] <= now
    BY <1>4, <1>5 DEF Inv, UnlocksByTap
  <2> QED
    BY <1>1, <1>2, <1>3, <1>5, <2>1, NothingSets, RespondStep
<1>6. CASE /\ Respond(request, SetBrowseUnlock(pda))
           /\ lastTapped' = [lastTapped EXCEPT ![pda] = now]
  <2>1. \A address \in Addresses : /\ lastTapped[address] <= lastTapped'[address]
                                   /\ lastTapped'[address] <= now
    BY <1>2, <1>4, <1>6 DEF Inv, UnlocksByTap
  <2>2. /\ SetBrowseUnlock(pda).ob = Clear /\ SetBrowseUnlock(pda).os = <<Keep>>
        /\ SetBrowseUnlock(pda).bu[2].pda = pda
        /\ SetBrowseUnlock(pda).bu[2].exp = now + BrowseTTL
    BY DEF SetBrowseUnlock, Response, Set
  <2>3. lastTapped'[pda] = now
    BY <1>2, <1>4, <1>6
  <2>4. ASSUME NEW cookie, cookie = SetBrowseUnlock(pda).bu[2]
        PROVE  cookie.exp <= lastTapped'[cookie.pda] + BrowseTTL
    BY <1>4, <2>2, <2>3, <2>4
  <2> QED
    BY <1>1, <1>2, <1>3, <1>6, <2>1, <2>2, <2>4, NothingSets, RespondStep DEF ByTap
<1> QED
  BY <1>5, <1>6 DEF HandleTap

(***************************************************************************)
(* A login's answer: whether or not it is signed, the challenge is gone,   *)
(* and a session is set only for the wallet the challenge names.           *)
(***************************************************************************)
LEMMA LoginStep ==
    ASSUME Inv, NEW request \in Requests, HandleLogin(request)
    PROVE  Inv'
<1> USE ChallengeAssumption, SessionAssumption
<1> DEFINE login == input[request]
<1>1. TypeOK'
  BY TypeStep DEF Inv, Next, Server
<1>2. /\ step[request] = "login" /\ login \in LoginInput /\ login.signature \in signatures
      /\ ~loggedOut
  BY DEF HandleLogin, Inv, InputsFit, LogoutClears
<1>3. PICK at \in login.sent .. now :
        LET rows == Live("login", login.challengeId, at) IN
        /\ ConsumeRows(rows)
        /\ \/ /\ \E row \in rows : Signed(login, row)
              /\ Respond(request, SetOwnerSession(login.address))
           \/ Respond(request, Nothing)
  BY DEF HandleLogin
<1> DEFINE rows == Live("login", login.challengeId, at)
<1>4. /\ now' = now /\ issued' = issued /\ authChallenges' = authChallenges \ rows
      /\ lastTapped' = lastTapped /\ signatures' = signatures
  BY <1>3 DEF HandleLogin, ConsumeRows, Respond
<1>5. \A address \in Addresses : /\ lastTapped[address] <= lastTapped'[address]
                                 /\ lastTapped'[address] <= now
  BY <1>4 DEF Inv, TypeOK, UnlocksByTap
<1>6. /\ Nothing \in [bu : Changes(Cookie), ob : Changes(Cookie), os : Changes(Login)]
      /\ SetOwnerSession(login.address) \in [bu : Changes(Cookie), ob : Changes(Cookie),
                                             os : Changes(Login)]
  BY <1>2, CookiesTyped DEF Inv, LoginInput
<1>7. CASE Respond(request, Nothing)
  BY <1>1, <1>2, <1>4, <1>5, <1>6, <1>7, NothingSets, RespondStep
<1>8. CASE /\ \E row \in rows : Signed(login, row)
           /\ Respond(request, SetOwnerSession(login.address))
  <2>1. PICK row \in rows : Signed(login, row)
    BY <1>8
  <2>2. row \in issued /\ row \notin authChallenges'
    BY <1>4 DEF Live, Inv, TypeOK, ChallengesTypeOK
  <2>3. /\ SetOwnerSession(login.address).bu = <<Keep>>
        /\ SetOwnerSession(login.address).ob = <<Keep>>
        /\ SetOwnerSession(login.address).os[2].wallet = login.address
    BY DEF SetOwnerSession, Response, Set
  <2>4. ASSUME NEW cookie, cookie = SetOwnerSession(login.address).os[2]
        PROVE  BySignature(cookie)'
    <3>1. cookie.wallet = login.address
      BY <2>3, <2>4
    <3> QED
      BY <1>2, <1>4, <2>1, <2>2, <3>1 DEF BySignature, Signed
  <2> QED
    BY <1>1, <1>2, <1>4, <1>5, <1>6, <1>8, <2>3, <2>4, NothingSets, RespondStep
<1> QED
  BY <1>3, <1>7, <1>8

LEMMA LogoutStep ==
    ASSUME Inv, NEW request \in Requests, HandleLogout(request)
    PROVE  Inv'
<1>1. TypeOK'
  BY TypeStep DEF Inv, Next, Server
<1>2. /\ step[request] = "logout" /\ Respond(request, LoggedOut)
      /\ now' = now /\ issued' = issued /\ authChallenges' = authChallenges
      /\ lastTapped' = lastTapped
  BY DEF HandleLogout, challengeVars
<1>3. \A address \in Addresses : /\ lastTapped[address] <= lastTapped'[address]
                                 /\ lastTapped'[address] <= now
  BY <1>2, SessionAssumption DEF Inv, TypeOK, UnlocksByTap
<1>4. LoggedOut \in [bu : Changes(Cookie), ob : Changes(Cookie), os : Changes(Login)]
  BY CookiesTyped DEF Inv
<1>5. ~Sets(LoggedOut.bu) /\ ~Sets(LoggedOut.ob) /\ ~Sets(LoggedOut.os)
  BY NothingSets DEF LoggedOut, Response
<1> QED
  BY <1>1, <1>2, <1>3, <1>4, <1>5, RespondStep

(***************************************************************************)
(* The steps of an open: a request that goes on has, at each of them,      *)
(* passed the ones before; one that does not sets nothing.                 *)
(***************************************************************************)
LEMMA OpenStep ==
    ASSUME Inv, NEW request \in Requests,
           CheckLogin(request) \/ FetchOwner(request) \/ AdmitOwner(request)
    PROVE  Inv'
<1> USE ChallengeAssumption, SessionAssumption
<1> DEFINE open == input[request]
<1>1. TypeOK'
  BY TypeStep DEF Inv, Next, Server
<1>2. /\ step[request] \in {"open", "fetch", "admit"}
      /\ open \in OpenInput /\ open.sent <= now
      /\ now' = now /\ issued' = issued /\ authChallenges' = authChallenges
      /\ lastTapped' = lastTapped
  BY DEF CheckLogin, FetchOwner, AdmitOwner, Inv, InputsFit, challengeVars
<1>3. \A address \in Addresses : /\ lastTapped[address] <= lastTapped'[address]
                                 /\ lastTapped'[address] <= now
  BY <1>2 DEF Inv, TypeOK, UnlocksByTap
<1>4. CASE Respond(request, Nothing)
  <2>1. Nothing \in [bu : Changes(Cookie), ob : Changes(Cookie), os : Changes(Login)]
    BY CookiesTyped DEF Inv
  <2> QED
    BY <1>1, <1>2, <1>3, <1>4, <2>1, NothingSets, RespondStep
<1>5. CASE CheckLogin(request) /\ LoggedIn(open) /\ ~Respond(request, Nothing)
  <2>1. /\ UNCHANGED <<now, challengeVars, input, response, jar, signatures, chainVars,
                       lastTapped, loggedOut>>
        /\ step'[request] = "fetch"
        /\ \A other \in Requests \ {request} : step'[other] = step[other]
        /\ step[request] = "open" /\ open.os # NoCookie /\ open.os.wallet = open.address
    BY <1>5 DEF CheckLogin, LoggedIn, Valid, Inv, TypeOK
  <2>2. InputsFit'
    BY <1>2, <2>1 DEF Inv, InputsFit
  <2>3. OneAdmit' /\ ResponsesClear' /\ UnlocksByTap' /\ LoginsBySignature'
    BY <2>1 DEF Inv, OneAdmit, ResponsesClear, UnlocksByTap, ByTap, LoginsBySignature,
                BySignature, jar, challengeVars
  <2>4. BrowsesByOwner' /\ OpensForThisWallet'
    BY <2>1 DEF Inv, BrowsesByOwner, ByOwner, OwnedSince, OpensForThisWallet, jar, chainVars
  <2>5. LogoutClears'
    BY <2>1 DEF Inv, LogoutClears, jar
  <2> QED
    BY <1>1, <2>2, <2>3, <2>4, <2>5 DEF Inv
<1>6. CASE FetchOwner(request) /\ ~Respond(request, Nothing)
  <2>1. /\ UNCHANGED <<now, challengeVars, input, response, jar, signatures, chainVars,
                       lastTapped, loggedOut>>
        /\ step'[request] = "admit"
        /\ \A other \in Requests \ {request} : step'[other] = step[other]
        /\ step[request] = "fetch" /\ owner[open.pda] = open.os.wallet
    BY <1>6 DEF FetchOwner, Linked, Inv, TypeOK
  <2>2. InputsFit'
    BY <1>2, <2>1 DEF Inv, InputsFit
  <2>3. OneAdmit' /\ ResponsesClear' /\ UnlocksByTap' /\ LoginsBySignature'
    BY <2>1 DEF Inv, OneAdmit, ResponsesClear, UnlocksByTap, ByTap, LoginsBySignature,
                BySignature, jar, challengeVars
  <2>4. BrowsesByOwner' /\ OpensForThisWallet'
    BY <2>1 DEF Inv, BrowsesByOwner, ByOwner, OwnedSince, OpensForThisWallet, jar, chainVars
  <2>5. LogoutClears'
    BY <2>1 DEF Inv, LogoutClears, jar
  <2> QED
    BY <1>1, <2>2, <2>3, <2>4, <2>5 DEF Inv
<1>7. CASE AdmitOwner(request)
  <2>1. /\ step[request] = "admit" /\ Respond(request, SetOwnerBrowse(open))
        /\ open.os # NoCookie /\ open.os.wallet = open.address
        /\ OwnedSince(open.sent, open.pda, open.os.wallet)
        /\ ~loggedOut
    BY <1>7 DEF AdmitOwner, Inv, InputsFit, BrowsesByOwner, LogoutClears
  <2>2. SetOwnerBrowse(open) \in [bu : Changes(Cookie), ob : Changes(Cookie),
                                  os : Changes(Login)]
    BY <1>2, <2>1, CookiesTyped DEF Inv
  <2>3. /\ SetOwnerBrowse(open).bu = Clear /\ SetOwnerBrowse(open).os = <<Keep>>
        /\ SetOwnerBrowse(open).ob[2] = OwnerBrowse(open)
    BY DEF SetOwnerBrowse, Response, Set
  <2>4. ByOwner(OwnerBrowse(open)) /\ OwnerBrowse(open).wallet = open.address
    BY <1>2, <2>1 DEF ByOwner, OwnerBrowse, OpenInput, Login
  <2> QED
    BY <1>1, <1>2, <1>3, <2>1, <2>2, <2>3, <2>4, NothingSets, RespondStep
<1> QED
  BY <1>4, <1>5, <1>6, <1>7 DEF CheckLogin, FetchOwner

(***************************************************************************)
(* A response applied gives the browser cookies that were backed when they *)
(* were set, and at most one admit.                                        *)
(***************************************************************************)
LEMMA ReceiveStep ==
    ASSUME Inv, NEW request \in Requests, Receive(request)
    PROVE  Inv'
<1> DEFINE answer == response[request]
<1>1. TypeOK'
  BY TypeStep DEF Inv, Next, Browser
<1>2. /\ answer \in [bu : Changes(Cookie), ob : Changes(Cookie), os : Changes(Login)]
      /\ bu \in Cookie \cup {NoCookie} /\ ob \in Cookie \cup {NoCookie}
      /\ os \in Login \cup {NoCookie}
  BY DEF Inv, TypeOK
<1>3. /\ UNCHANGED <<now, challengeVars, chainVars, signatures, lastTapped>>
      /\ bu' = Applied(answer.bu, bu) /\ ob' = Applied(answer.ob, ob)
      /\ os' = Applied(answer.os, os)
      /\ step[request] = "responding"
      /\ step'[request] = "idle" /\ response'[request] = Nothing
      /\ \A other \in Requests \ {request} : /\ step'[other] = step[other]
                                             /\ input'[other] = input[other]
                                             /\ response'[other] = response[other]
  BY DEF Receive, Done, Inv, TypeOK
<1>4. /\ bu' = bu \/ bu' = NoCookie \/ (Sets(answer.bu) /\ bu' = answer.bu[2])
      /\ ob' = ob \/ ob' = NoCookie \/ (Sets(answer.ob) /\ ob' = answer.ob[2])
      /\ os' = os \/ os' = NoCookie \/ (Sets(answer.os) /\ os' = answer.os[2])
      /\ answer.bu = Clear => bu' = NoCookie
      /\ answer.ob = Clear => ob' = NoCookie
      /\ answer.os = Clear => os' = NoCookie
  BY <1>2, <1>3, AppliedCookie
<1>5. InputsFit'
  BY <1>3 DEF Inv, InputsFit
<1>6. OneAdmit' /\ ResponsesClear'
  BY <1>3, <1>4, NothingSets DEF Inv, OneAdmit, ResponsesClear
<1>7. UnlocksByTap'
  BY <1>3, <1>4, NothingSets DEF Inv, UnlocksByTap, ByTap
<1>8. BrowsesByOwner'
  BY <1>3, <1>4, NothingSets DEF Inv, BrowsesByOwner, ByOwner, OwnedSince, chainVars
<1>9. LoginsBySignature'
  BY <1>3, <1>4, NothingSets DEF Inv, LoginsBySignature, BySignature, challengeVars
<1>10. OpensForThisWallet'
  BY <1>3 DEF Inv, OpensForThisWallet
<1>11. LogoutClears'
  <2>1. ~Sets(Nothing.ob) /\ ~Sets(Nothing.os) /\ LoggedOut.ob = Clear /\ LoggedOut.os = Clear
    BY NothingSets DEF LoggedOut, Response
  <2>2. CASE loggedOut
    BY <1>3, <1>4, <2>1, <2>2 DEF Inv, LogoutClears
  <2>3. CASE /\ answer = LoggedOut
             /\ \A other \in Requests \ {request} : step[other] = "idle"
    BY <1>3, <1>4, <2>1, <2>3 DEF Inv, LogoutClears, ResponsesClear
  <2> QED
    BY <2>2, <2>3 DEF Receive, LogoutClears
<1> QED
  BY <1>1, <1>5, <1>6, <1>7, <1>8, <1>9, <1>10, <1>11 DEF Inv

LEMMA LoseStep ==
    ASSUME Inv, NEW request \in Requests, Lose(request)
    PROVE  Inv'
<1>1. TypeOK'
  BY TypeStep DEF Inv, Next, Browser
<1>2. /\ UNCHANGED <<now, challengeVars, chainVars, signatures, jar, lastTapped, loggedOut>>
      /\ step'[request] = "idle" /\ response'[request] = Nothing
      /\ \A other \in Requests \ {request} : /\ step'[other] = step[other]
                                             /\ input'[other] = input[other]
                                             /\ response'[other] = response[other]
  BY DEF Lose, Done, Inv, TypeOK
<1>3. InputsFit'
  BY <1>2 DEF Inv, InputsFit
<1>4. OneAdmit' /\ ResponsesClear' /\ UnlocksByTap'
  BY <1>2, NothingSets DEF Inv, OneAdmit, ResponsesClear, UnlocksByTap, ByTap, jar
<1>5. BrowsesByOwner' /\ OpensForThisWallet'
  BY <1>2, NothingSets DEF Inv, BrowsesByOwner, ByOwner, OwnedSince, OpensForThisWallet, jar,
                           chainVars
<1>6. LoginsBySignature' /\ LogoutClears'
  BY <1>2, NothingSets DEF Inv, LoginsBySignature, BySignature, LogoutClears, jar, challengeVars
<1> QED
  BY <1>1, <1>3, <1>4, <1>5, <1>6 DEF Inv

-----------------------------------------------------------------------------
(***************************************************************************)
(* The inductive invariant: what cookies stand for, whether the browser    *)
(* holds them or a response is bringing them.                              *)
(***************************************************************************)
THEOREM InvCorrect == Spec => []Inv
<1>1. Init => Inv
  <2> SUFFICES ASSUME Init
               PROVE  Inv
    OBVIOUS
  <2> USE ChallengeAssumption, SessionAssumption
  <2>1. TypeOK
    <3>1. 0 \in 0 .. MaxTime /\ -BrowseTTL \in -BrowseTTL .. MaxTime
      OBVIOUS
    <3> QED
      BY <3>1, CookiesTyped DEF Init, ChallengesInit, TypeOK, ChallengesTypeOK, Nothing, Response,
                                Changes
  <2>2. InputsFit /\ OneAdmit /\ ResponsesClear
    BY NothingSets DEF Init, InputsFit, OneAdmit, ResponsesClear
  <2>3. UnlocksByTap
    BY NothingSets DEF Init, ChallengesInit, UnlocksByTap
  <2>4. BrowsesByOwner /\ LoginsBySignature /\ OpensForThisWallet /\ LogoutClears
    BY NothingSets DEF Init, BrowsesByOwner, LoginsBySignature, OpensForThisWallet, LogoutClears
  <2> QED
    BY <2>1, <2>2, <2>3, <2>4 DEF Inv
<1>2. Inv /\ [Next]_vars => Inv'
  <2> SUFFICES ASSUME Inv, [Next]_vars
               PROVE  Inv'
    OBVIOUS
  <2>1. CASE UNCHANGED vars
    BY <2>1 DEF vars, challengeVars, chainVars, jar, requestVars, Inv, TypeOK, ChallengesTypeOK,
                InputsFit, OneAdmit, ResponsesClear, UnlocksByTap, ByTap, BrowsesByOwner, ByOwner,
                OwnedSince, LoginsBySignature, BySignature, OpensForThisWallet, LogoutClears
  <2>2. ASSUME NEW request \in Requests, Browser(request) \/ Server(request)
        PROVE  Inv'
    BY <2>2, SendStep, ReceiveStep, LoseStep, TapStep, LoginStep, LogoutStep, OpenStep
       DEF Browser, Server
  <2> QED
    BY <2>1, <2>2, WorldStep DEF Next
<1> QED
  BY <1>1, <1>2, PTL DEF Spec

(***************************************************************************)
(* At most one admit at a time, whatever order responses arrive in.        *)
(***************************************************************************)
THEOREM AlwaysOneAdmit == Spec => []OneAdmit
<1>1. Inv => OneAdmit
  BY DEF Inv
<1> QED
  BY <1>1, InvCorrect, PTL

(***************************************************************************)
(* A claim page opens only on a tap of its accessory within                *)
(* BROWSE_SESSION_TTL_MS.                                                  *)
(***************************************************************************)
THEOREM AlwaysClaimNeedsTap == Spec => []ClaimNeedsTap
<1>1. Inv => ClaimNeedsTap
  BY SessionAssumption DEF Inv, TypeOK, ChallengesTypeOK, UnlocksByTap, ByTap, ClaimNeedsTap,
     ReadLinkSession, Valid, TappedRecently, Cookie, Times
<1> QED
  BY <1>1, InvCorrect, PTL

(***************************************************************************)
(* An accessory's page opens only on a fresh tap of it, or to one of its   *)
(* owners since the page was asked for.                                    *)
(***************************************************************************)
THEOREM AlwaysViewNeedsTapOrOwner == Spec => []ViewNeedsTapOrOwner
<1>1. Inv => ViewNeedsTapOrOwner
  <2> SUFFICES ASSUME Inv, ReadAdmitSession # NoCookie
               PROVE  LET pda == ReadAdmitSession.pda IN
                      \/ TappedRecently(pda)
                      \/ OwnedSince(ReadAdmitSession.asked, pda, ReadAdmitSession.wallet)
    BY DEF ViewNeedsTapOrOwner
  <2>1. CASE Valid(bu)
    BY <2>1, SessionAssumption DEF Inv, TypeOK, ChallengesTypeOK, UnlocksByTap, ByTap,
       ReadAdmitSession, Valid, TappedRecently, Cookie, Times
  <2>2. CASE ~Valid(bu)
    BY <2>2 DEF Inv, BrowsesByOwner, ByOwner, ReadAdmitSession, Valid
  <2> QED
    BY <2>1, <2>2
<1> QED
  BY <1>1, InvCorrect, PTL

(***************************************************************************)
(* An owner's session stands for a wallet that signed a challenge of its   *)
(* own, which is used up.                                                  *)
(***************************************************************************)
THEOREM AlwaysLoginProvesWallet == Spec => []LoginProvesWallet
<1>1. Inv => LoginProvesWallet
  BY DEF Inv, LoginsBySignature, BySignature, LoginProvesWallet
<1> QED
  BY <1>1, InvCorrect, PTL

(***************************************************************************)
(* No open is answered with another wallet's admit.                        *)
(***************************************************************************)
THEOREM AlwaysOpensForThisWallet == Spec => []OpensForThisWallet
<1>1. Inv => OpensForThisWallet
  BY DEF Inv
<1> QED
  BY <1>1, InvCorrect, PTL

(***************************************************************************)
(* A log out answered with nothing else under way lasts until a login.     *)
(***************************************************************************)
THEOREM AlwaysLogoutLasts == Spec => []LogoutLasts
<1>1. Inv => LogoutLasts
  BY DEF Inv, LogoutClears, LogoutLasts
<1> QED
  BY <1>1, InvCorrect, PTL
=============================================================================
