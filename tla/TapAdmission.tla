----------------------------- MODULE TapAdmission -----------------------------
(***************************************************************************)
(* How a tap opens an accessory's page: the requests /api/tap/landing (the *)
(* signed NFC URL) and /api/tap/resume (a passkey tap over a challenge),   *)
(* run by any number of workers at once over one D1 database and the RPC.  *)
(*                                                                         *)
(* A request is a little program with one step for every await: between    *)
(* two of its steps other requests run, accounts are closed and issued     *)
(* again, and the worker may be gone.  A D1 statement is atomic; one that  *)
(* throws may have been executed all the same.                             *)
(***************************************************************************)
EXTENDS Challenges, FiniteSets

CONSTANTS
    Identifiers,    \* NFC keys of the chips: the pk of their URLs
    Addresses,      \* token addresses, one for each passkey
    Requests,
    NoAddress, NoIdentifier, NoInput,
    MaxCounter,     \* bound: URLs a chip makes
    MaxTaps         \* bound: passkey taps

ASSUME AdmissionAssumption ==
    /\ NoAddress \notin Addresses
    /\ NoIdentifier \notin Identifiers
    /\ MaxCounter \in Nat
    /\ MaxTaps \in Nat

VARIABLES
    registry,       \* on chain: the identifier of the account at each address
    nextCounter,    \* the counter of each chip's next URL
    assertions,     \* passkey taps made so far over a challenge
    tapCounters,    \* D1: the high-water mark of each chip, -1 without a row
    cache,          \* D1: revibase_identifier_cache
    step,           \* where each request is
    input,          \* what it was sent
    found,          \* the address its scan returned
    outcome,        \* what it answered
    consumed,       \* history: URLs whose counter was consumed
    outdated        \* history: accounts closed after their address was read here

worldVars == <<registry, nextCounter, assertions, outdated>>
databaseVars == <<tapCounters, cache, consumed>>
requestVars == <<step, input, found, outcome>>
vars == <<now, challengeVars, worldVars, databaseVars, requestVars>>

Url == [identifier : Identifiers, counter : 0 .. MaxCounter, signed : BOOLEAN]

Assertion == [address : Addresses, challenge : ChallengeIds, at : 0 .. MaxTime]

Resume == [challengeId : ChallengeIds, response : Assertion, at : 0 .. MaxTime]

Steps == {"idle", "consumeCounter", "lookup", "scan", "store",
          "consumeChallenge", "fetch", "answered", "dropped"}

Reasons == {"none", "ok", "invalid", "network", "replayed", "unknown", "too_slow", "tap_rejected"}

Outcome == [reason : Reasons, pda : Addresses \cup {NoAddress},
            identifier : Identifiers \cup {NoIdentifier}]

Failure(reason) == [reason |-> reason, pda |-> NoAddress, identifier |-> NoIdentifier]

Admission(pda, identifier) == [reason |-> "ok", pda |-> pda, identifier |-> identifier]

-----------------------------------------------------------------------------
(* The world: accounts come and go, chips and passkeys are tapped. *)

Register(address, identifier) ==
    /\ registry[address] = NoIdentifier
    /\ registry' = [registry EXCEPT ![address] = identifier]
    /\ outdated' = outdated \ {<<address, identifier>>}
    /\ UNCHANGED <<now, challengeVars, nextCounter, assertions, databaseVars, requestVars>>

(* The server holds the address for the chip: in the cache, or on its way there. *)
Known(address, identifier) ==
    \/ cache[identifier] = address
    \/ \E request \in Requests : /\ step[request] = "store"
                                /\ found[request] = address
                                /\ input[request].identifier = identifier

Close(address) ==
    LET identifier == registry[address] IN
    /\ identifier # NoIdentifier
    /\ registry' = [registry EXCEPT ![address] = NoIdentifier]
    /\ outdated' = outdated \cup
            (IF Known(address, identifier) THEN {<<address, identifier>>} ELSE {})
    /\ UNCHANGED <<now, challengeVars, nextCounter, assertions, databaseVars, requestVars>>

TapUrl(identifier) ==
    /\ nextCounter[identifier] < MaxCounter
    /\ nextCounter' = [nextCounter EXCEPT ![identifier] = @ + 1]
    /\ UNCHANGED <<now, challengeVars, registry, assertions, outdated, databaseVars, requestVars>>

TapPasskey(address) ==
    /\ Cardinality(assertions) < MaxTaps
    /\ \E challenge \in issued :
        assertions' = assertions \cup
            {[address |-> address, challenge |-> challenge.id, at |-> now]}
    /\ UNCHANGED <<now, challengeVars, registry, nextCounter, outdated, databaseVars, requestVars>>

Time == Tick /\ UNCHANGED <<worldVars, databaseVars, requestVars>>

(* POST /api/tap/challenge and POST /api/owner/challenge. *)
Issue(namespace, message) ==
    IssueChallenge(namespace, message) /\ UNCHANGED <<worldVars, databaseVars, requestVars>>

-----------------------------------------------------------------------------
(* GET /api/tap/landing *)

Moves(request, from, to) == step[request] = from /\ step' = [step EXCEPT ![request] = to]

Answers(request, from, result) ==
    /\ Moves(request, from, "answered")
    /\ outcome' = [outcome EXCEPT ![request] = result]
    /\ UNCHANGED <<input, found>>

Continues(request, from, to) == Moves(request, from, to) /\ UNCHANGED <<input, found, outcome>>

Verified(url) == url.signed

(***************************************************************************)
(* The URL is one a chip signed, or anything else somebody typed (what     *)
(* does not parse is answered like what is not signed).                    *)
(***************************************************************************)
ReceiveUrl(request, url) ==
    /\ url.signed => url.counter < nextCounter[url.identifier]
    /\ step[request] = "idle"
    /\ input' = [input EXCEPT ![request] = url]
    /\ \/ /\ Verified(url)
          /\ step' = [step EXCEPT ![request] = "consumeCounter"]
          /\ UNCHANGED outcome
       \/ /\ ~Verified(url)
          /\ step' = [step EXCEPT ![request] = "answered"]
          /\ outcome' = [outcome EXCEPT ![request] = Failure("invalid")]
    /\ UNCHANGED <<now, challengeVars, worldVars, databaseVars, found>>

\* Faulty variants of the next definition: the same counter again, no WHERE clause.
CounterIsNewOrSame(url) == tapCounters[url.identifier] <= url.counter

CounterIsWhatever(url) == TRUE

(* The condition of the upsert; there may be no row yet. *)
CounterIsNew(url) == tapCounters[url.identifier] < url.counter

Upsert(url) ==
    /\ tapCounters' = [tapCounters EXCEPT ![url.identifier] = url.counter]
    /\ consumed' = consumed \cup {url}
    /\ UNCHANGED cache

(* consumeTapCounter, and what handleTap makes of its verdict. *)
ConsumeCounter(request) ==
    /\ step[request] = "consumeCounter"
    /\ \/ /\ CounterIsNew(input[request])
          /\ Upsert(input[request])
          /\ \/ Continues(request, "consumeCounter", "lookup")
             \/ Answers(request, "consumeCounter", Failure("network"))
       \/ /\ ~CounterIsNew(input[request])
          /\ Answers(request, "consumeCounter", Failure("replayed"))
          /\ UNCHANGED databaseVars
       \/ /\ Answers(request, "consumeCounter", Failure("network"))
          /\ UNCHANGED databaseVars
    /\ UNCHANGED <<now, challengeVars, worldVars>>

(* resolveAccessoryByIdentifier: the cache first. *)
Lookup(request) ==
    LET identifier == input[request].identifier IN
    /\ step[request] = "lookup"
    /\ \/ /\ cache[identifier] # NoAddress
          /\ Answers(request, "lookup", Admission(cache[identifier], identifier))
       \/ /\ cache[identifier] = NoAddress
          /\ Continues(request, "lookup", "scan")
       \/ Answers(request, "lookup", Failure("network"))
    /\ UNCHANGED <<now, challengeVars, worldVars, databaseVars>>

(***************************************************************************)
(* fetchPhygitalTokenByIdentifier: any account that bears the identifier   *)
(* (the program lets several).                                             *)
(***************************************************************************)
Scan(request) ==
    LET bearers == {a \in Addresses : registry[a] = input[request].identifier} IN
    /\ step[request] = "scan"
    /\ \/ \E address \in bearers :
            /\ Moves(request, "scan", "store")
            /\ found' = [found EXCEPT ![request] = address]
            /\ UNCHANGED <<input, outcome>>
       \/ bearers = {} /\ Answers(request, "scan", Failure("unknown"))
       \/ Answers(request, "scan", Failure("network"))
    /\ UNCHANGED <<now, challengeVars, worldVars, databaseVars>>

\* Faulty variant of the next definition: the cache is written under another chip's key.
StoredAtOther(request) ==
    [i \in Identifiers |-> IF i = input[request].identifier THEN cache[i] ELSE found[request]]

Stored(request) == [cache EXCEPT ![input[request].identifier] = found[request]]

Store(request) ==
    LET identifier == input[request].identifier IN
    /\ step[request] = "store"
    /\ \/ /\ Answers(request, "store", Admission(found[request], identifier))
          /\ cache' = Stored(request)
       \/ /\ Answers(request, "store", Failure("network"))
          /\ cache' \in {cache, Stored(request)}
    /\ UNCHANGED <<now, challengeVars, worldVars, tapCounters, consumed>>

-----------------------------------------------------------------------------
(* POST /api/tap/resume *)

(* Any challenge id, with any assertion made so far; the time is read now. *)
ReceiveResume(request, id, response) ==
    /\ Moves(request, "idle", "consumeChallenge")
    /\ input' = [input EXCEPT ![request] =
                    [challengeId |-> id, response |-> response, at |-> now]]
    /\ UNCHANGED <<now, challengeVars, worldVars, databaseVars, found, outcome>>

\* Faulty variant of the next definition: an answer to any challenge will do.
RespondsToAny(resume) == TRUE

(* verifyResponse: the tap signed the message of this challenge. *)
RespondsTo(resume) == resume.response.challenge = resume.challengeId

(***************************************************************************)
(* verifyResume: the challenge is gone, whatever comes of the response.    *)
(***************************************************************************)
ConsumeChallenge(request) ==
    LET rows == Live("resume", input[request].challengeId, input[request].at) IN
    /\ step[request] = "consumeChallenge"
    /\ \/ /\ rows = {}
          /\ Answers(request, "consumeChallenge", Failure("too_slow"))
          /\ UNCHANGED <<now, challengeVars>>
       \/ /\ rows # {}
          /\ ConsumeRows(rows)
          /\ \/ /\ RespondsTo(input[request])
                /\ Continues(request, "consumeChallenge", "fetch")
             \/ /\ ~RespondsTo(input[request])
                /\ Answers(request, "consumeChallenge", Failure("tap_rejected"))
             \/ Answers(request, "consumeChallenge", Failure("network"))
       \/ /\ Answers(request, "consumeChallenge", Failure("network"))
          /\ UNCHANGED <<now, challengeVars>>
    /\ UNCHANGED <<worldVars, databaseVars>>

\* Faulty variant of the next definition: the account is not asked for.
IsRegisteredAnyway(address) == TRUE

IsRegistered(address) == registry[address] # NoIdentifier

(* fetchAccessory at the address of the passkey that was tapped. *)
Fetch(request) ==
    LET address == input[request].response.address IN
    /\ step[request] = "fetch"
    /\ \/ /\ IsRegistered(address)
          /\ Answers(request, "fetch", Admission(address, registry[address]))
       \/ /\ ~IsRegistered(address)
          /\ Answers(request, "fetch", Failure("unknown"))
       \/ Answers(request, "fetch", Failure("network"))
    /\ UNCHANGED <<now, challengeVars, worldVars, databaseVars>>

(* The worker is gone, the answer with it. *)
Drop(request) ==
    /\ step[request] \notin {"idle", "answered", "dropped"}
    /\ step' = [step EXCEPT ![request] = "dropped"]
    /\ UNCHANGED <<now, challengeVars, worldVars, databaseVars, input, found, outcome>>

-----------------------------------------------------------------------------

Init ==
    /\ ChallengesInit
    /\ registry = [address \in Addresses |-> NoIdentifier]
    /\ nextCounter = [identifier \in Identifiers |-> 0]
    /\ assertions = {}
    /\ tapCounters = [identifier \in Identifiers |-> -1]
    /\ cache = [identifier \in Identifiers |-> NoAddress]
    /\ step = [request \in Requests |-> "idle"]
    /\ input = [request \in Requests |-> NoInput]
    /\ found = [request \in Requests |-> NoAddress]
    /\ outcome = [request \in Requests |-> Failure("none")]
    /\ consumed = {}
    /\ outdated = {}

World ==
    \/ Time
    \/ \E identifier \in Identifiers : TapUrl(identifier)
    \/ \E address \in Addresses : \/ Close(address)
                                  \/ TapPasskey(address)
                                  \/ \E identifier \in Identifiers : Register(address, identifier)

Serve(request) ==
    \/ ConsumeCounter(request)
    \/ Lookup(request)
    \/ Scan(request)
    \/ Store(request)
    \/ ConsumeChallenge(request)
    \/ Fetch(request)

Next ==
    \/ World
    \/ \E namespace \in Namespaces, message \in Messages : Issue(namespace, message)
    \/ \E request \in Requests :
        \/ \E url \in Url : ReceiveUrl(request, url)
        \/ \E id \in ChallengeIds, response \in assertions : ReceiveResume(request, id, response)
        \/ Serve(request)
        \/ Drop(request)

Spec == Init /\ [][Next]_vars

-----------------------------------------------------------------------------

(* The shape of the chain, of the D1 tables and of the requests under way. *)
TypeOK ==
    /\ ChallengesTypeOK
    /\ registry \in [Addresses -> Identifiers \cup {NoIdentifier}]
    /\ nextCounter \in [Identifiers -> 0 .. MaxCounter]
    /\ assertions \subseteq Assertion
    /\ tapCounters \in [Identifiers -> -1 .. MaxCounter - 1]
    /\ cache \in [Identifiers -> Addresses \cup {NoAddress}]
    /\ step \in [Requests -> Steps]
    /\ input \in [Requests -> Url \cup Resume \cup {NoInput}]
    /\ found \in [Requests -> Addresses \cup {NoAddress}]
    /\ outcome \in [Requests -> Outcome]
    /\ consumed \subseteq Url
    /\ outdated \subseteq Addresses \X Identifiers

Admitted(request) == outcome[request].reason = "ok"

IsUrl(request) == input[request] \in Url

(***************************************************************************)
(* A tap admits at most one browser: of all the requests that carry the    *)
(* same URL, or the same challenge, at most one is answered with a         *)
(* session, however they overlap, fail and are sent again.                 *)
(***************************************************************************)
AdmittedOnce ==
    \A r, s \in Requests :
        /\ Admitted(r) /\ Admitted(s)
        /\ \/ IsUrl(r) /\ IsUrl(s) /\ input[r] = input[s]
           \/ ~IsUrl(r) /\ ~IsUrl(s) /\ input[r].challengeId = input[s].challengeId
        => r = s

(***************************************************************************)
(* ARCHITECTURE.md: "An unused signed NFC URL stays valid until a newer    *)
(* counter is consumed."  A URL is still good exactly when neither it nor  *)
(* a newer one of its chip was used up; no other request, failed or        *)
(* forged, changes that.                                                   *)
(***************************************************************************)
UnusedUrlStaysValid ==
    \A identifier \in Identifiers :
        \A counter \in 0 .. nextCounter[identifier] :
            tapCounters[identifier] < counter
            <=> \A url \in consumed : url.identifier = identifier => url.counter < counter

(***************************************************************************)
(* A passkey tap resumes a session only for a challenge of this purpose    *)
(* that was still unspent (this request spends it), over which the passkey *)
(* was tapped after it was issued, and which was issued less than          *)
(* CHALLENGE_TTL_MS before the request arrived, however long the database  *)
(* took then.                                                              *)
(***************************************************************************)
ResumedFresh ==
    [][\A request \in Requests :
        step[request] = "consumeChallenge" /\ step'[request] = "fetch" =>
            \E challenge \in authChallenges \ authChallenges' :
                LET resume == input[request]
                    issuedAt == challenge.expiresAt - ChallengeTTL IN
                /\ challenge.namespace = "resume"
                /\ challenge.id = resume.challengeId
                /\ challenge.id = resume.response.challenge
                /\ issuedAt <= resume.response.at /\ resume.response.at <= resume.at
                /\ resume.at - issuedAt < ChallengeTTL
      ]_vars

(***************************************************************************)
(* A session is for the accessory that was tapped, the NFC key of the URL  *)
(* or the passkey of the assertion, and names the account that is of it:   *)
(* the one there is when the session is given or, for a URL, one that was  *)
(* closed only after its address had been read (fetchPhygitalTokenBy-      *)
(* Identifier) and before anybody asked again (revibase_identifier_cache). *)
(***************************************************************************)
AdmitsTheTapped ==
    [][\A request \in Requests :
        ~Admitted(request) /\ Admitted(request)' =>
            LET pda == outcome'[request].pda
                identifier == outcome'[request].identifier IN
            /\ identifier \in Identifiers
            /\ \/ /\ IsUrl(request)
                  /\ identifier = input[request].identifier
                  /\ registry[pda] = identifier \/ <<pda, identifier>> \in outdated
               \/ /\ ~IsUrl(request)
                  /\ pda = input[request].response.address
                  /\ registry[pda] = identifier
      ]_vars

-----------------------------------------------------------------------------
(* The inductive invariant behind these properties, in parts. *)

(* Requests carry what their step works on, and answers are kept. *)
InputsFit ==
    \A request \in Requests :
        /\ step[request] \in {"consumeCounter", "lookup", "scan", "store"} =>
              /\ IsUrl(request)
              /\ input[request].counter < nextCounter[input[request].identifier]
        /\ step[request] \in {"consumeChallenge", "fetch"} =>
              /\ input[request] \in Resume
              /\ input[request].response \in assertions
              /\ input[request].response.at <= input[request].at
        /\ Admitted(request) =>
              step[request] = "answered" /\ input[request] \in Url \cup Resume

(* The high-water mark of a chip is the newest of its URLs that were consumed. *)
MarksConsumed ==
    /\ \A url \in consumed : url.counter <= tapCounters[url.identifier]
    /\ \A identifier \in Identifiers :
          \/ tapCounters[identifier] = -1
          \/ \E url \in consumed : /\ url.identifier = identifier
                                  /\ url.counter = tapCounters[identifier]

(* Challenges are told apart by their ids. *)
IdsDiffer == \A c, d \in issued : c.id = d.id => c = d

(* The counter or the challenge of a request has been used up for it. *)
Spent(request) ==
    step[request] \in {"lookup", "scan", "store", "fetch"} \/ Admitted(request)

SpentAreGone ==
    \A request \in Requests : Spent(request) =>
        IF IsUrl(request)
        THEN input[request].counter <= tapCounters[input[request].identifier]
        ELSE \E c \in issued \ authChallenges : c.id = input[request].challengeId

SpentOnce ==
    \A r, s \in Requests :
        /\ Spent(r) /\ Spent(s)
        /\ \/ IsUrl(r) /\ IsUrl(s) /\ input[r] = input[s]
           \/ ~IsUrl(r) /\ ~IsUrl(s) /\ input[r].challengeId = input[s].challengeId
        => r = s

(* Challenges were issued in the past, and passkeys tapped over them after that. *)
TappedAfterIssue ==
    /\ \A c \in issued : c.expiresAt - ChallengeTTL <= now
    /\ \A assertion \in assertions :
          /\ assertion.at <= now
          /\ \E c \in issued :
                c.id = assertion.challenge /\ c.expiresAt - ChallengeTTL <= assertion.at

(* An address held for a chip is of an account that bears its identifier, or did until then. *)
AccountsKnown ==
    /\ \A address \in Addresses, identifier \in Identifiers :
          Known(address, identifier) =>
              registry[address] = identifier \/ <<address, identifier>> \in outdated
    /\ \A request \in Requests : step[request] = "store" => found[request] \in Addresses

Inv ==
    /\ TypeOK
    /\ InputsFit
    /\ MarksConsumed
    /\ IdsDiffer
    /\ SpentAreGone
    /\ SpentOnce
    /\ TappedAfterIssue
    /\ AccountsKnown
=============================================================================
