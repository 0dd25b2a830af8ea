----------------------------- MODULE OwnerSession -----------------------------
(***************************************************************************)
(* One browser's sessions with the app: the three signed cookies, the      *)
(* requests that issue and drop them, and the gate in front of the pages   *)
(* they open.                                                              *)
(*                                                                         *)
(*   bu  browse_unlock   the accessory was tapped                          *)
(*   ob  owner_browse    the wallet logged in owns the accessory           *)
(*   os  owner_session   this browser controls the wallet                  *)
(*                                                                         *)
(* Requests overlap.  One carries the cookies the browser held when it was *)
(* sent; the cookies its response sets are applied when it arrives, in     *)
(* whatever order responses do, if they do.  (A cookie whose signature the *)
(* server did not make never verifies: cookies are what the server wrote.) *)
(***************************************************************************)
EXTENDS Challenges

CONSTANTS
    Wallets,
    Addresses,          \* token addresses
    Requests,           \* requests that can be under way at once
    Nobody, NoCookie, NoInput,
    BrowseTTL,          \* BROWSE_SESSION_TTL_MS
    OwnerTTL            \* OWNER_SESSION_TTL_MS

ASSUME SessionAssumption ==
    /\ Nobody \notin Wallets
    /\ "login" \in Namespaces
    /\ Messages = Wallets
    /\ BrowseTTL \in Nat \ {0}
    /\ OwnerTTL \in Nat \ {0}

VARIABLES
    owner,          \* on chain: who owns each accessory
    signatures,     \* login messages wallets have signed
    bu, ob, os,     \* the browser's cookies
    step,           \* where each request is
    input,          \* what it was sent, with the cookie it carried
    response,       \* the cookies its response sets
    lastTapped,     \* history: when each accessory's tap last admitted this browser
    lastOwned,      \* history: when each former owner gave up each accessory
    loggedOut       \* history: a log out was the last under way, and no login sent since

jar == <<bu, ob, os>>
chainVars == <<owner, lastOwned>>
requestVars == <<step, input, response>>
vars == <<now, challengeVars, chainVars, signatures, jar, requestVars, lastTapped, loggedOut>>

Times == 0 .. MaxTime + BrowseTTL + OwnerTTL

(* asked, a ghost: when the request that made the cookie was sent. *)
Cookie == [pda : Addresses, wallet : Wallets \cup {Nobody}, exp : Times, asked : 0 .. MaxTime]

Login == [wallet : Wallets, exp : Times]

(* A response keeps, sets or clears each cookie. *)
Keep == "keep"

Response(b, o, s) == [bu |-> b, ob |-> o, os |-> s]

Nothing == Response(<<Keep>>, <<Keep>>, <<Keep>>)

Set(cookie) == <<"set", cookie>>

Clear == <<"set", NoCookie>>

(* verifyToken: a cookie the server wrote, until it expires. *)
Valid(cookie) == cookie # NoCookie /\ cookie.exp > now

-----------------------------------------------------------------------------
(* The world. *)

(* set_owner and remove_owner, by whoever may. *)
ChangeOwner(address, wallet) ==
    /\ owner' = [owner EXCEPT ![address] = wallet]
    /\ lastOwned' = IF owner[address] = Nobody THEN lastOwned
                    ELSE [lastOwned EXCEPT ![<<address, owner[address]>>] = now]
    /\ UNCHANGED <<now, challengeVars, signatures, jar, requestVars, lastTapped, loggedOut>>

Time ==
    /\ Tick
    /\ UNCHANGED <<chainVars, signatures, jar, requestVars, lastTapped, loggedOut>>

(* POST /api/owner/challenge: the message names the wallet. *)
IssueLogin(wallet) ==
    /\ IssueChallenge("login", wallet)
    /\ UNCHANGED <<chainVars, signatures, jar, requestVars, lastTapped, loggedOut>>

(* The person approves signMessage in a wallet, whatever wallet it names. *)
SignMessage(wallet, challenge) ==
    /\ signatures' = signatures \cup {[wallet |-> wallet, challengeId |-> challenge.id]}
    /\ UNCHANGED <<now, challengeVars, chainVars, jar, requestVars, lastTapped, loggedOut>>

-----------------------------------------------------------------------------
(* Requests. *)

Send(request, to, sent) ==
    /\ step[request] = "idle"
    /\ step' = [step EXCEPT ![request] = to]
    /\ input' = [input EXCEPT ![request] = sent]
    /\ UNCHANGED <<now, challengeVars, chainVars, signatures, jar, response, lastTapped>>

(* Of what was sent, only the wallet the page asked with still matters. *)
Respond(request, cookies) ==
    /\ step' = [step EXCEPT ![request] = "responding"]
    /\ response' = [response EXCEPT ![request] = cookies]
    /\ input' = [input EXCEPT ![request] = [address |-> @.address]]
    /\ UNCHANGED <<jar, signatures, chainVars, loggedOut>>

(* The signed NFC URL, or the resume after a passkey tap. *)
SendTap(request, address) ==
    /\ Send(request, "tap", [pda |-> address, address |-> Nobody])
    /\ UNCHANGED loggedOut

(* POST /api/owner/session *)
SendLogin(request, id, address, signature) ==
    /\ Send(request, "login",
            [challengeId |-> id, address |-> address, signature |-> signature, sent |-> now])
    /\ loggedOut' = FALSE

(* DELETE /api/owner/session *)
SendLogout(request) ==
    /\ Send(request, "logout", [address |-> Nobody])
    /\ UNCHANGED loggedOut

(* POST /api/accessory/owner-browse *)
SendOpen(request, address, wallet) ==
    /\ Send(request, "open",
            [pda |-> address, address |-> wallet, os |-> os, sent |-> now])
    /\ UNCHANGED loggedOut

SetBrowseUnlock(pda) ==
    Response(Set([pda |-> pda, wallet |-> Nobody, exp |-> now + BrowseTTL, asked |-> now]),
             Clear, <<Keep>>)

(* TapAdmission answers with a session, or with a failure. *)
HandleTap(request) ==
    /\ step[request] = "tap"
    /\ \/ /\ Respond(request, SetBrowseUnlock(input[request].pda))
          /\ lastTapped' = [lastTapped EXCEPT ![input[request].pda] = now]
       \/ Respond(request, Nothing) /\ UNCHANGED lastTapped
    /\ UNCHANGED <<now, challengeVars>>

\* Faulty variant of the next definition: whose wallet the message names is not looked at.
SignedByAnyone(login, challenge) ==
    login.signature = [wallet |-> login.address, challengeId |-> challenge.id]

Signed(login, challenge) ==
    /\ challenge.message = login.address
    /\ login.signature = [wallet |-> login.address, challengeId |-> challenge.id]

SetOwnerSession(wallet) ==
    Response(<<Keep>>, <<Keep>>, Set([wallet |-> wallet, exp |-> now + OwnerTTL]))

(* verifyOwnerLogin: the challenge is gone, whatever the signature. *)
HandleLogin(request) ==
    /\ step[request] = "login"
    /\ \E at \in input[request].sent .. now :
        LET rows == Live("login", input[request].challengeId, at) IN
        /\ ConsumeRows(rows)
        /\ \/ /\ \E row \in rows : Signed(input[request], row)
              /\ Respond(request, SetOwnerSession(input[request].address))
           \/ /\ \A row \in rows : ~Signed(input[request], row)
              /\ Respond(request, Nothing)
    /\ UNCHANGED lastTapped

\* Faulty variant of the next definition: owner_browse is left alone.
LoggedOutOfLogin == Response(<<Keep>>, <<Keep>>, Clear)

LoggedOut == Response(<<Keep>>, Clear, Clear)

HandleLogout(request) ==
    /\ step[request] = "logout"
    /\ Respond(request, LoggedOut)
    /\ UNCHANGED <<now, challengeVars, lastTapped>>

\* Faulty variant of the next definition: the login of another wallet will do.
LoggedInAsAnyone(open) == Valid(open.os)

LoggedIn(open) == Valid(open.os) /\ open.os.wallet = open.address

(* The login is checked first; the account is fetched then. *)
CheckLogin(request) ==
    /\ step[request] = "open"
    /\ \/ /\ LoggedIn(input[request])
          /\ step' = [step EXCEPT ![request] = "fetch"]
          /\ UNCHANGED <<input, response, jar, signatures, chainVars, loggedOut>>
       \/ ~LoggedIn(input[request]) /\ Respond(request, Nothing)
    /\ UNCHANGED <<now, challengeVars, lastTapped>>

OwnerBrowse(open) ==
    [pda |-> open.pda, wallet |-> open.os.wallet, exp |-> now + BrowseTTL, asked |-> open.sent]

\* Faulty variant of the next definition: browse_unlock is left alone.
SetOwnerBrowseOnly(open) == Response(<<Keep>>, Set(OwnerBrowse(open)), <<Keep>>)

SetOwnerBrowse(open) == Response(Clear, Set(OwnerBrowse(open)), <<Keep>>)

\* Faulty variant of the next definition: any registered accessory opens.
LinkedToAnyone(pda, wallet) == TRUE

Linked(pda, wallet) == owner[pda] = wallet

(* verifyOwnerBrowse: what the chain says now; the RPC may fail. *)
FetchOwner(request) ==
    /\ step[request] = "fetch"
    /\ \/ /\ Linked(input[request].pda, input[request].os.wallet)
          /\ step' = [step EXCEPT ![request] = "admit"]
          /\ UNCHANGED <<input, response, jar, signatures, chainVars, loggedOut>>
       \/ Respond(request, Nothing)
    /\ UNCHANGED <<now, challengeVars, lastTapped>>

(* The RPC's answer has arrived. *)
AdmitOwner(request) ==
    /\ step[request] = "admit"
    /\ Respond(request, SetOwnerBrowse(input[request]))
    /\ UNCHANGED <<now, challengeVars, lastTapped>>

Applied(change, cookie) == IF change[1] = Keep THEN cookie ELSE change[2]

Done(request) ==
    /\ step' = [step EXCEPT ![request] = "idle"]
    /\ input' = [input EXCEPT ![request] = NoInput]
    /\ response' = [response EXCEPT ![request] = Nothing]

(* The browser applies the cookies of a response at once. *)
Receive(request) ==
    /\ step[request] = "responding"
    /\ Done(request)
    /\ bu' = Applied(response[request].bu, bu)
    /\ ob' = Applied(response[request].ob, ob)
    /\ os' = Applied(response[request].os, os)
    /\ loggedOut' = \/ loggedOut
                    \/ /\ response[request] = LoggedOut
                       /\ \A other \in Requests \ {request} : step[other] = "idle"
    /\ UNCHANGED <<now, challengeVars, chainVars, signatures, lastTapped>>

(* A request or its response is lost, before or after the server acted. *)
Lose(request) ==
    /\ step[request] # "idle"
    /\ Done(request)
    /\ UNCHANGED <<now, challengeVars, chainVars, signatures, jar, lastTapped, loggedOut>>

-----------------------------------------------------------------------------
(* The gate of the middleware: the session that opens /accessory, and the  *)
(* one that opens the claim page, /accessory/link.                         *)

ReadAdmitSession ==
    IF Valid(bu) THEN bu ELSE IF Valid(ob) THEN ob ELSE NoCookie

\* Faulty variant of the next definition: any session opens the claim page.
ReadLinkSessionAny == ReadAdmitSession

ReadLinkSession == IF Valid(bu) THEN bu ELSE NoCookie

-----------------------------------------------------------------------------

Init ==
    /\ ChallengesInit
    /\ owner \in [Addresses -> Wallets \cup {Nobody}]
    /\ lastOwned = [o \in Addresses \X Wallets |-> -BrowseTTL]
    /\ signatures = {}
    /\ bu = NoCookie /\ ob = NoCookie /\ os = NoCookie
    /\ step = [request \in Requests |-> "idle"]
    /\ input = [request \in Requests |-> NoInput]
    /\ response = [request \in Requests |-> Nothing]
    /\ lastTapped = [address \in Addresses |-> -BrowseTTL]
    /\ loggedOut = FALSE

World ==
    \/ Time
    \/ \E address \in Addresses, wallet \in Wallets \cup {Nobody} : ChangeOwner(address, wallet)
    \/ \E wallet \in Wallets : \/ IssueLogin(wallet)
                               \/ \E challenge \in issued : SignMessage(wallet, challenge)

Browser(request) ==
    \/ \E address \in Addresses : \/ SendTap(request, address)
                                  \/ \E wallet \in Wallets : SendOpen(request, address, wallet)
    \/ \E challenge \in issued, wallet \in Wallets, signature \in signatures :
        SendLogin(request, challenge.id, wallet, signature)
    \/ SendLogout(request)
    \/ Receive(request)
    \/ Lose(request)

Server(request) ==
    \/ HandleTap(request)
    \/ HandleLogin(request)
    \/ HandleLogout(request)
    \/ CheckLogin(request)
    \/ FetchOwner(request)
    \/ AdmitOwner(request)

Next ==
    \/ World
    \/ \E request \in Requests : Browser(request) \/ Server(request)

Spec == Init /\ [][Next]_vars

-----------------------------------------------------------------------------

(* What requests carry, and what a response may do to a cookie. *)
TapInput == [pda : Addresses, address : {Nobody}]

LoginInput == [challengeId : ChallengeIds, address : Wallets, sent : 0 .. MaxTime,
               signature : [wallet : Wallets, challengeId : ChallengeIds]]

OpenInput == [pda : Addresses, address : Wallets, os : Login \cup {NoCookie},
              sent : 0 .. MaxTime]

WalletInput == [address : Wallets \cup {Nobody}]

Changes(cookies) == {<<Keep>>, Clear} \cup {Set(cookie) : cookie \in cookies}

(* The shape of the server's rows, the browser's cookies and the requests. *)
TypeOK ==
    /\ ChallengesTypeOK
    /\ owner \in [Addresses -> Wallets \cup {Nobody}]
    /\ signatures \subseteq [wallet : Wallets, challengeId : ChallengeIds]
    /\ bu \in Cookie \cup {NoCookie}
    /\ ob \in Cookie \cup {NoCookie}
    /\ os \in Login \cup {NoCookie}
    /\ step \in [Requests -> {"idle", "tap", "login", "logout", "open", "fetch",
                              "admit", "responding"}]
    /\ input \in [Requests -> TapInput \cup LoginInput \cup OpenInput \cup WalletInput
                             \cup {NoInput}]
    /\ response \in [Requests -> [bu : Changes(Cookie), ob : Changes(Cookie),
                                  os : Changes(Login)]]
    /\ lastTapped \in [Addresses -> -BrowseTTL .. MaxTime]
    /\ lastOwned \in [Addresses \X Wallets -> -BrowseTTL .. MaxTime]
    /\ loggedOut \in BOOLEAN

(***************************************************************************)
(* "Clears browse_unlock so one admit cookie is live": whatever order the  *)
(* responses of taps, opens and log outs arrive in, the browser never      *)
(* holds an admit for one accessory by tap and another one by ownership.   *)
(***************************************************************************)
OneAdmit == bu = NoCookie \/ ob = NoCookie

TappedRecently(address) == now - lastTapped[address] < BrowseTTL

OwnedSince(time, address, wallet) ==
    owner[address] = wallet \/ lastOwned[<<address, wallet>>] >= time

(***************************************************************************)
(* "browse_unlock can claim.  owner_browse cannot": the claim page of an   *)
(* accessory opens only to a browser that tapped this accessory less than  *)
(* BROWSE_SESSION_TTL_MS before.                                           *)
(***************************************************************************)
ClaimNeedsTap == ReadLinkSession # NoCookie => TappedRecently(ReadLinkSession.pda)

(***************************************************************************)
(* An accessory's page opens only on a fresh tap of it, or to a wallet     *)
(* that owned it at some moment after it asked: a former owner opens       *)
(* nothing new, however late and in whatever order answers come.           *)
(***************************************************************************)
ViewNeedsTapOrOwner ==
    ReadAdmitSession # NoCookie =>
        LET pda == ReadAdmitSession.pda IN
        \/ TappedRecently(pda)
        \/ OwnedSince(ReadAdmitSession.asked, pda, ReadAdmitSession.wallet)

(***************************************************************************)
(* A login stands for a wallet that signed, in answer to a challenge of    *)
(* its own that is now used up, a message that names this wallet.          *)
(***************************************************************************)
LoginProvesWallet ==
    os # NoCookie =>
        \E c \in issued : /\ c.message = os.wallet
                          /\ [wallet |-> os.wallet, challengeId |-> c.id] \in signatures
                          /\ c \notin authChallenges

(***************************************************************************)
(* An accessory opens for the wallet the page asked with, not for another  *)
(* one this browser logged in as: a login answered between the two does    *)
(* not lend its wallet to an open already sent.                            *)
(***************************************************************************)
OpensForThisWallet ==
    \A request \in Requests :
        /\ step[request] = "responding"
        /\ response[request].ob[1] # Keep
        /\ response[request].ob[2] # NoCookie
        => response[request].ob[2].wallet = input[request].address

(***************************************************************************)
(* A log out lasts: once it was answered with nothing else under way, no   *)
(* tap, open or repeated message brings an owner's session back, until     *)
(* somebody logs in.  (An open still under way at the log out can: its     *)
(* answer is applied after, and sets owner_browse again.)                  *)
(***************************************************************************)
LogoutLasts == loggedOut => os = NoCookie /\ ob = NoCookie

-----------------------------------------------------------------------------
(* The inductive invariant behind these properties, in parts. *)

Sets(change) == change[1] # Keep /\ change[2] # NoCookie

(* A request carries what its step works on; what it carries is no news. *)
InputsFit ==
    \A request \in Requests :
        /\ step[request] = "tap" => input[request] \in TapInput
        /\ step[request] = "login" =>
              /\ input[request] \in LoginInput
              /\ input[request].signature \in signatures
              /\ input[request].sent <= now
        /\ step[request] = "logout" => input[request] \in WalletInput
        /\ step[request] \in {"open", "fetch", "admit"} =>
              /\ input[request] \in OpenInput
              /\ input[request].sent <= now
        /\ step[request] \in {"fetch", "admit"} =>
              /\ input[request].os # NoCookie
              /\ input[request].os.wallet = input[request].address

(* Only an answer sets cookies; one that sets an admit clears the other admit. *)
ResponsesClear ==
    \A request \in Requests :
        /\ step[request] # "responding" => response[request] = Nothing
        /\ Sets(response[request].bu) => response[request].ob = Clear
        /\ Sets(response[request].ob) => response[request].bu = Clear

(* The tap behind browse_unlock, in the past, its cookie applied or on its way. *)
ByTap(cookie) == cookie.exp <= lastTapped[cookie.pda] + BrowseTTL

UnlocksByTap ==
    /\ \A address \in Addresses : lastTapped[address] <= now
    /\ bu # NoCookie => ByTap(bu)
    /\ \A request \in Requests : Sets(response[request].bu) => ByTap(response[request].bu[2])

(* The owner behind owner_browse, from the answer of the RPC on. *)
ByOwner(cookie) ==
    /\ cookie.wallet \in Wallets
    /\ cookie.asked <= now
    /\ OwnedSince(cookie.asked, cookie.pda, cookie.wallet)

BrowsesByOwner ==
    /\ ob # NoCookie => ByOwner(ob)
    /\ \A request \in Requests :
          /\ Sets(response[request].ob) => ByOwner(response[request].ob[2])
          /\ step[request] = "admit" =>
                OwnedSince(input[request].sent, input[request].pda, input[request].os.wallet)

(* The signature behind owner_session, and the challenge it used up. *)
BySignature(login) ==
    \E c \in issued : /\ c.message = login.wallet
                      /\ [wallet |-> login.wallet, challengeId |-> c.id] \in signatures
                      /\ c \notin authChallenges

LoginsBySignature ==
    /\ os # NoCookie => BySignature(os)
    /\ \A request \in Requests :
          Sets(response[request].os) => BySignature(response[request].os[2])

(* After a log out, nothing is under way that could log in or open. *)
LogoutClears ==
    loggedOut =>
        /\ os = NoCookie /\ ob = NoCookie
        /\ \A request \in Requests :
              /\ step[request] \notin {"login", "fetch", "admit"}
              /\ step[request] = "open" => input[request].os = NoCookie
              /\ ~Sets(response[request].ob) /\ ~Sets(response[request].os)

Inv ==
    /\ TypeOK
    /\ InputsFit
    /\ OneAdmit /\ ResponsesClear
    /\ UnlocksByTap
    /\ BrowsesByOwner
    /\ LoginsBySignature
    /\ OpensForThisWallet
    /\ LogoutClears
=============================================================================
