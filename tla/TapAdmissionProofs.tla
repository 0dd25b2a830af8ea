-------------------------- MODULE TapAdmissionProofs --------------------------
(***************************************************************************)
(* Proofs about tap admission, for any number of chips, passkeys, requests *)
(* and challenges.                                                         *)
(***************************************************************************)
EXTENDS TapAdmission, TLAPS

(***************************************************************************)
(* A signed URL is never taken for a resume.                               *)
(***************************************************************************)
LEMMA UrlsAreNoResumes == Url \cap Resume = {}
<1> SUFFICES ASSUME NEW x \in Url, x \in Resume
             PROVE  FALSE
  OBVIOUS
<1>1. DOMAIN x = {"identifier", "counter", "signed"}
  BY DEF Url
<1>2. DOMAIN x = {"challengeId", "response", "at"}
  BY DEF Resume
<1> QED
  BY <1>1, <1>2

(***************************************************************************)
(* Outcomes are made by these two only.                                    *)
(***************************************************************************)
LEMMA OutcomesTyped ==
    /\ \A reason \in Reasons : Failure(reason) \in Outcome
    /\ \A pda \in Addresses \cup {NoAddress}, identifier \in Identifiers :
          Admission(pda, identifier) \in Outcome
BY DEF Failure, Admission, Outcome, Reasons

(***************************************************************************)
(* Issuing a challenge keeps the rows and the history of challenges typed. *)
(***************************************************************************)
LEMMA IssueType ==
    ASSUME ChallengesTypeOK, NEW namespace \in Namespaces, NEW message \in Messages,
           IssueChallenge(namespace, message)
    PROVE  ChallengesTypeOK'
<1>1. PICK id \in ChallengeIds \ {c.id : c \in issued} :
        LET challenge == [id |-> id, namespace |-> namespace,
                          message |-> message, expiresAt |-> Expiry]
            expired == {c \in authChallenges : c.namespace = namespace /\ c.expiresAt < now} IN
        /\ authChallenges' = (authChallenges \ expired) \cup {challenge}
        /\ issued' = issued \cup {challenge}
        /\ UNCHANGED now
  BY DEF IssueChallenge
<1> DEFINE challenge == [id |-> id, namespace |-> namespace,
                         message |-> message, expiresAt |-> Expiry]
<1>2. Expiry \in 0 .. MaxTime + ChallengeTTL
  BY ChallengeAssumption DEF Expiry, ChallengesTypeOK
<1>3. challenge \in Challenge
  BY <1>2 DEF Challenge
<1> QED
  BY <1>1, <1>3 DEF ChallengesTypeOK

-----------------------------------------------------------------------------
(***************************************************************************)
(* Every step of a request, and of the world, keeps the state well typed.  *)
(***************************************************************************)
LEMMA TypeStep == TypeOK /\ InputsFit /\ [Next]_vars => TypeOK'
<1> SUFFICES ASSUME TypeOK, InputsFit, [Next]_vars
             PROVE  TypeOK'
  OBVIOUS
<1> USE ChallengeAssumption, AdmissionAssumption
<1> USE DEF TypeOK, vars, challengeVars, worldVars, databaseVars, requestVars
<1>1. CASE Time
  BY <1>1 DEF Time, Tick, ChallengesTypeOK
<1>2. ASSUME NEW identifier \in Identifiers, TapUrl(identifier)
      PROVE  TypeOK'
  BY <1>2 DEF TapUrl, ChallengesTypeOK
<1>3. ASSUME NEW address \in Addresses, Close(address)
      PROVE  TypeOK'
  BY <1>3 DEF Close, ChallengesTypeOK
<1>4. ASSUME NEW address \in Addresses, TapPasskey(address)
      PROVE  TypeOK'
  <2>1. PICK challenge \in issued :
          assertions' = assertions \cup
              {[address |-> address, challenge |-> challenge.id, at |-> now]}
    BY <1>4 DEF TapPasskey
  <2>2. assertions' \subseteq Assertion
    BY <2>1 DEF ChallengesTypeOK, Challenge, Assertion
  <2> QED
    BY <1>4, <2>2 DEF TapPasskey, ChallengesTypeOK
<1>5. ASSUME NEW address \in Addresses, NEW identifier \in Identifiers,
             Register(address, identifier)
      PROVE  TypeOK'
  BY <1>5 DEF Register, ChallengesTypeOK
<1>6. ASSUME NEW namespace \in Namespaces, NEW message \in Messages, Issue(namespace, message)
      PROVE  TypeOK'
  <2>1. ChallengesTypeOK'
    BY <1>6, IssueType DEF Issue
  <2> QED
    BY <1>6, <2>1 DEF Issue
<1>7. ASSUME NEW request \in Requests, NEW url \in Url, ReceiveUrl(request, url)
      PROVE  TypeOK'
  BY <1>7, OutcomesTyped DEF ReceiveUrl, ChallengesTypeOK, Steps, Reasons
<1>8. ASSUME NEW request \in Requests, NEW id \in ChallengeIds, NEW response \in assertions,
             ReceiveResume(request, id, response)
      PROVE  TypeOK'
  <2>1. [challengeId |-> id, response |-> response, at |-> now] \in Resume
    BY DEF Resume, ChallengesTypeOK
  <2> QED
    BY <1>8, <2>1 DEF ReceiveResume, Moves, ChallengesTypeOK, Steps
<1>9. ASSUME NEW request \in Requests, ConsumeCounter(request)
      PROVE  TypeOK'
  <2>1. /\ input[request] \in Url
        /\ input[request].counter \in 0 .. MaxCounter - 1
        /\ input[request].identifier \in Identifiers
    BY <1>9 DEF ConsumeCounter, InputsFit, IsUrl, Url
  <2>2. tapCounters' \in [Identifiers -> -1 .. MaxCounter - 1] /\ consumed' \subseteq Url
    BY <1>9, <2>1 DEF ConsumeCounter, Upsert
  <2>3. step' \in [Requests -> Steps] /\ outcome' \in [Requests -> Outcome]
        /\ UNCHANGED <<input, found, cache>>
    BY <1>9, OutcomesTyped
       DEF ConsumeCounter, Upsert, Continues, Answers, Moves, Steps, Reasons
  <2> QED
    BY <1>9, <2>2, <2>3 DEF ConsumeCounter, ChallengesTypeOK
<1>10. ASSUME NEW request \in Requests, Lookup(request)
       PROVE  TypeOK'
  <2>1. input[request].identifier \in Identifiers
    BY <1>10 DEF Lookup, InputsFit, IsUrl, Url
  <2>2. step' \in [Requests -> Steps] /\ outcome' \in [Requests -> Outcome]
        /\ UNCHANGED <<input, found>>
    BY <1>10, <2>1, OutcomesTyped DEF Lookup, Continues, Answers, Moves, Steps, Reasons
  <2> QED
    BY <1>10, <2>2 DEF Lookup, ChallengesTypeOK
<1>11. ASSUME NEW request \in Requests, Scan(request)
       PROVE  TypeOK'
  <2>2. /\ step' \in [Requests -> Steps] /\ outcome' \in [Requests -> Outcome]
        /\ found' \in [Requests -> Addresses \cup {NoAddress}] /\ UNCHANGED input
    BY <1>11, OutcomesTyped DEF Scan, Answers, Moves, Steps, Reasons
  <2> QED
    BY <1>11, <2>2 DEF Scan, ChallengesTypeOK
<1>12. ASSUME NEW request \in Requests, Store(request)
       PROVE  TypeOK'
  <2>1. input[request].identifier \in Identifiers
    BY <1>12 DEF Store, InputsFit, IsUrl, Url
  <2>2. cache' \in [Identifiers -> Addresses \cup {NoAddress}]
    BY <1>12, <2>1 DEF Store, Stored
  <2>3. step' \in [Requests -> Steps] /\ outcome' \in [Requests -> Outcome]
        /\ UNCHANGED <<input, found>>
    BY <1>12, <2>1, OutcomesTyped DEF Store, Answers, Moves, Steps, Reasons
  <2> QED
    BY <1>12, <2>2, <2>3 DEF Store, ChallengesTypeOK
<1>13. ASSUME NEW request \in Requests, ConsumeChallenge(request)
       PROVE  TypeOK'
  <2>1. ChallengesTypeOK'
    BY <1>13 DEF ConsumeChallenge, ConsumeRows, ChallengesTypeOK
  <2>2. step' \in [Requests -> Steps] /\ outcome' \in [Requests -> Outcome]
        /\ UNCHANGED <<input, found>>
    BY <1>13, OutcomesTyped DEF ConsumeChallenge, Continues, Answers, Moves, Steps, Reasons
  <2> QED
    BY <1>13, <2>1, <2>2 DEF ConsumeChallenge
<1>14. ASSUME NEW request \in Requests, Fetch(request)
       PROVE  TypeOK'
  <2>1. input[request].response.address \in Addresses
    BY <1>14 DEF Fetch, InputsFit, Resume, Assertion
  <2>2. step' \in [Requests -> Steps] /\ outcome' \in [Requests -> Outcome]
        /\ UNCHANGED <<input, found>>
    BY <1>14, <2>1, OutcomesTyped DEF Fetch, IsRegistered, Answers, Moves, Steps, Reasons
  <2> QED
    BY <1>14, <2>2 DEF Fetch, ChallengesTypeOK
<1>15. ASSUME NEW request \in Requests, Drop(request)
       PROVE  TypeOK'
  BY <1>15 DEF Drop, ChallengesTypeOK, Steps
<1>16. CASE UNCHANGED vars
  BY <1>16 DEF ChallengesTypeOK
<1> QED
  BY <1>1, <1>2, <1>3, <1>4, <1>5, <1>6, <1>7, <1>8, <1>9, <1>10, <1>11, <1>12, <1>13, <1>14,
     <1>15, <1>16 DEF Next, World, Serve

-----------------------------------------------------------------------------
(***************************************************************************)
(* Time, chips, passkeys and accounts leave the requests as they are; what *)
(* a request relies on is not taken back by them.                          *)
(***************************************************************************)
LEMMA WorldStep == Inv /\ World => Inv'
<1> SUFFICES ASSUME Inv, World
             PROVE  Inv'
  OBVIOUS
<1> USE ChallengeAssumption, AdmissionAssumption
<1>0. TypeOK'
  BY TypeStep DEF Inv, Next
<1>1. UNCHANGED <<tapCounters, cache, consumed, requestVars, challengeVars>>
  BY DEF World, Time, TapUrl, Close, TapPasskey, Register, Tick, databaseVars
<1>2. MarksConsumed' /\ IdsDiffer' /\ SpentAreGone' /\ SpentOnce'
  BY <1>1 DEF Inv, MarksConsumed, IdsDiffer, SpentAreGone, SpentOnce, Spent, IsUrl, Admitted,
              challengeVars, requestVars
<1>3. /\ \A identifier \in Identifiers : nextCounter[identifier] <= nextCounter'[identifier]
      /\ assertions \subseteq assertions'
  BY DEF World, Time, TapUrl, Close, TapPasskey, Register, Tick, worldVars, Inv, TypeOK
<1>4. InputsFit'
  BY <1>0, <1>1, <1>3 DEF Inv, TypeOK, InputsFit, IsUrl, Admitted, requestVars, Url
<1>5. TappedAfterIssue'
  <2>1. now <= now' /\ now \in Int /\ now' \in Int
    BY <1>0 DEF World, Time, TapUrl, Close, TapPasskey, Register, Tick, Inv, TypeOK,
                ChallengesTypeOK
  <2>2. \A c \in issued : c.expiresAt - ChallengeTTL \in Int
    BY DEF Inv, TypeOK, ChallengesTypeOK, Challenge
  <2>3. \A c \in issued' : c.expiresAt - ChallengeTTL <= now'
    BY <1>1, <2>1, <2>2 DEF Inv, TappedAfterIssue, challengeVars
  <2>4. \A assertion \in assertions : assertion.at <= now'
    BY <2>1 DEF Inv, TappedAfterIssue, TypeOK, Assertion
  <2>5. CASE UNCHANGED assertions
    BY <1>1, <2>3, <2>4, <2>5 DEF Inv, TappedAfterIssue, challengeVars
  <2>6. ASSUME NEW address \in Addresses, TapPasskey(address)
        PROVE  TappedAfterIssue'
    <3>1. PICK challenge \in issued :
            assertions' = assertions \cup
                {[address |-> address, challenge |-> challenge.id, at |-> now]}
      BY <2>6 DEF TapPasskey
    <3> QED
      BY <1>1, <2>1, <2>3, <2>4, <3>1 DEF Inv, TappedAfterIssue, challengeVars
  <2> QED
    BY <2>5, <2>6 DEF World, Time, TapUrl, Close, Register, Tick, worldVars
<1>6. AccountsKnown'
  <2> SUFFICES ASSUME NEW a \in Addresses, NEW i \in Identifiers, Known(a, i)
               PROVE  registry'[a] = i \/ <<a, i>> \in outdated'
    BY <1>1 DEF Inv, AccountsKnown, Known, requestVars
  <2>1. registry[a] = i \/ <<a, i>> \in outdated
    BY DEF Inv, AccountsKnown
  <2>2. ASSUME NEW address \in Addresses, Close(address)
        PROVE  registry'[a] = i \/ <<a, i>> \in outdated'
    BY <2>1, <2>2 DEF Close, Inv, TypeOK
  <2>3. ASSUME NEW address \in Addresses, NEW identifier \in Identifiers,
               Register(address, identifier)
        PROVE  registry'[a] = i \/ <<a, i>> \in outdated'
    BY <2>1, <2>3 DEF Register, Inv, TypeOK
  <2> QED
    BY <2>1, <2>2, <2>3 DEF World, Time, TapUrl, TapPasskey, worldVars
<1> QED
  BY <1>0, <1>2, <1>4, <1>5, <1>6 DEF Inv

(***************************************************************************)
(* A new challenge has an id of its own; rows it clears had expired, and   *)
(* what is gone stays gone.                                                *)
(***************************************************************************)
LEMMA IssueStep ==
    ASSUME Inv, NEW namespace \in Namespaces, NEW message \in Messages, Issue(namespace, message)
    PROVE  Inv'
<1> USE ChallengeAssumption, AdmissionAssumption
<1>1. PICK id \in ChallengeIds \ {c.id : c \in issued} :
        LET challenge == [id |-> id, namespace |-> namespace,
                          message |-> message, expiresAt |-> Expiry]
            expired == {c \in authChallenges : c.namespace = namespace /\ c.expiresAt < now} IN
        /\ authChallenges' = (authChallenges \ expired) \cup {challenge}
        /\ issued' = issued \cup {challenge}
        /\ UNCHANGED now
  BY DEF Issue, IssueChallenge
<1> DEFINE challenge == [id |-> id, namespace |-> namespace,
                         message |-> message, expiresAt |-> Expiry]
<1>2. \A c \in issued : c.id # id
  BY <1>1
<1>3. /\ challenge.id = id /\ challenge.expiresAt = now + ChallengeTTL
      /\ issued' = issued \cup {challenge}
      /\ authChallenges' \subseteq authChallenges \cup {challenge}
      /\ now' = now /\ now \in Int
  BY <1>1 DEF Expiry, Inv, TypeOK, ChallengesTypeOK
<1> HIDE DEF challenge
<1>4. UNCHANGED <<worldVars, databaseVars, requestVars>>
  BY DEF Issue
<1>5. TypeOK'
  BY TypeStep DEF Inv, Next
<1>6. InputsFit' /\ MarksConsumed' /\ SpentOnce' /\ AccountsKnown'
  BY <1>4 DEF Inv, InputsFit, MarksConsumed, SpentOnce, AccountsKnown, Known, Spent,
              IsUrl, Admitted, worldVars, databaseVars, requestVars
<1>7. IdsDiffer'
  BY <1>2, <1>3 DEF Inv, IdsDiffer
<1>8. SpentAreGone'
  BY <1>2, <1>3, <1>4
     DEF Inv, SpentAreGone, Spent, IsUrl, Admitted, databaseVars, requestVars
<1>9. TappedAfterIssue'
  BY <1>3, <1>4 DEF Inv, TappedAfterIssue, worldVars
<1> QED
  BY <1>5, <1>6, <1>7, <1>8, <1>9 DEF Inv

(***************************************************************************)
(* Requests arrive with nothing used up for them yet; a forged URL is      *)
(* turned away.                                                            *)
(***************************************************************************)
LEMMA ReceiveStep ==
    ASSUME Inv, NEW request \in Requests,
           \/ \E url \in Url : ReceiveUrl(request, url)
           \/ \E id \in ChallengeIds, response \in assertions :
                ReceiveResume(request, id, response)
    PROVE  Inv'
<1> USE ChallengeAssumption, AdmissionAssumption
<1>1. TypeOK'
  BY TypeStep DEF Inv, Next
<1>2. /\ UNCHANGED <<now, challengeVars, worldVars, databaseVars, found>>
      /\ step[request] = "idle"
      /\ ~Spent(request) /\ ~Admitted(request)'
      /\ step'[request] \in {"consumeCounter", "consumeChallenge", "answered"}
  BY DEF ReceiveUrl, ReceiveResume, Moves, Inv, InputsFit, Spent, Admitted, TypeOK, Failure
<1>3. ASSUME NEW other \in Requests \ {request}
      PROVE  /\ step'[other] = step[other] /\ input'[other] = input[other]
             /\ outcome'[other] = outcome[other]
  BY <1>3 DEF ReceiveUrl, ReceiveResume, Moves, Inv, TypeOK
<1>4. ~Spent(request)'
  BY <1>2 DEF Spent
<1>5. InputsFit'
  <2>1. ASSUME NEW url \in Url, ReceiveUrl(request, url)
        PROVE  /\ input'[request] = url
               /\ step'[request] \in {"consumeCounter", "answered"}
               /\ step'[request] = "consumeCounter" =>
                     url.counter < nextCounter[url.identifier]
    BY <2>1 DEF ReceiveUrl, Verified, Inv, TypeOK
  <2>2. ASSUME NEW id \in ChallengeIds, NEW response \in assertions,
               ReceiveResume(request, id, response)
        PROVE  /\ input'[request] \in Resume /\ input'[request].response = response
               /\ response.at <= input'[request].at
               /\ step'[request] = "consumeChallenge"
    BY <2>2 DEF ReceiveResume, Moves, Inv, TypeOK, ChallengesTypeOK, Resume, TappedAfterIssue
  <2>3. CASE \E url \in Url : ReceiveUrl(request, url)
    BY <1>2, <1>3, <2>1, <2>3 DEF Inv, InputsFit, IsUrl, Admitted, worldVars
  <2>4. CASE \E id \in ChallengeIds, response \in assertions :
               ReceiveResume(request, id, response)
    BY <1>2, <1>3, <2>2, <2>4 DEF Inv, InputsFit, IsUrl, Admitted, worldVars
  <2> QED
    BY <2>3, <2>4
<1>6. MarksConsumed' /\ IdsDiffer' /\ TappedAfterIssue'
  BY <1>2 DEF Inv, MarksConsumed, IdsDiffer, TappedAfterIssue, challengeVars, worldVars,
              databaseVars
<1>7. SpentAreGone' /\ SpentOnce'
  BY <1>2, <1>3, <1>4
     DEF Inv, SpentAreGone, SpentOnce, Spent, IsUrl, Admitted, challengeVars, databaseVars
<1>8. AccountsKnown'
  BY <1>2, <1>3 DEF Inv, AccountsKnown, Known, worldVars, databaseVars
<1> QED
  BY <1>1, <1>5, <1>6, <1>7, <1>8 DEF Inv

(***************************************************************************)
(* A step of one request leaves the others alone.                          *)
(***************************************************************************)
LEMMA OthersStay ==
    ASSUME TypeOK, NEW request \in Requests, Serve(request) \/ Drop(request)
    PROVE  /\ input' = input
           /\ \A other \in Requests \ {request} :
                 /\ step'[other] = step[other]
                 /\ found'[other] = found[other]
                 /\ outcome'[other] = outcome[other]
BY DEF TypeOK, Serve, Drop, ConsumeCounter, Lookup, Scan, Store, ConsumeChallenge, Fetch,
       Continues, Answers, Moves

(***************************************************************************)
(* The upsert consumes a counter that is newer than every one consumed     *)
(* before, so no other request has used this URL.                          *)
(***************************************************************************)
LEMMA ConsumeCounterStep ==
    ASSUME Inv, NEW request \in Requests, ConsumeCounter(request)
    PROVE  Inv'
<1> USE ChallengeAssumption, AdmissionAssumption
<1> DEFINE url == input[request]
<1>1. TypeOK'
  BY TypeStep DEF Inv, Next, Serve
<1>2. /\ input' = input
      /\ \A other \in Requests \ {request} :
            /\ step'[other] = step[other]
            /\ found'[other] = found[other]
            /\ outcome'[other] = outcome[other]
  BY OthersStay DEF Inv, Serve
<1>3. /\ UNCHANGED <<now, challengeVars, worldVars, cache>>
      /\ step[request] = "consumeCounter"
  BY DEF ConsumeCounter, Upsert, databaseVars
<1>4. /\ url \in Url /\ url.identifier \in Identifiers /\ url.counter \in Nat
      /\ ~Spent(request)
      /\ ~Admitted(request)'
      /\ step'[request] \in {"lookup", "answered"}
  BY <1>3 DEF Inv, InputsFit, IsUrl, Url, Spent, Admitted, Failure, ConsumeCounter, Continues,
              Answers, Moves, TypeOK
<1>5. InputsFit'
  BY <1>2, <1>3, <1>4 DEF Inv, InputsFit, IsUrl, Admitted, worldVars
<1>6. IdsDiffer' /\ TappedAfterIssue'
  BY <1>3 DEF Inv, IdsDiffer, TappedAfterIssue, challengeVars, worldVars
<1>7. AccountsKnown'
  BY <1>2, <1>3, <1>4 DEF Inv, AccountsKnown, Known, worldVars
<1>8. CASE CounterIsNew(url) /\ Upsert(url)
  <2>1. /\ tapCounters[url.identifier] < url.counter
        /\ tapCounters' = [tapCounters EXCEPT ![url.identifier] = url.counter]
        /\ consumed' = consumed \cup {url}
    BY <1>8 DEF CounterIsNew, Upsert
  <2>2. \A identifier \in Identifiers : /\ tapCounters[identifier] \in Int
                                        /\ tapCounters'[identifier] \in Int
                                        /\ tapCounters[identifier] <= tapCounters'[identifier]
    BY <1>4, <2>1 DEF Inv, TypeOK
  <2>3. \A x \in Url : x.counter \in Int /\ x.identifier \in Identifiers
    BY DEF Url
  <2>4. tapCounters'[url.identifier] = url.counter
    BY <1>4, <2>1 DEF Inv, TypeOK
  <2>5. MarksConsumed'
    <3>1. ASSUME NEW x \in consumed'
          PROVE  x.counter <= tapCounters'[x.identifier]
      BY <1>4, <2>1, <2>2, <2>3, <2>4 DEF Inv, MarksConsumed, TypeOK
    <3>2. ASSUME NEW identifier \in Identifiers
          PROVE  \/ tapCounters'[identifier] = -1
                 \/ \E x \in consumed' : /\ x.identifier = identifier
                                         /\ x.counter = tapCounters'[identifier]
      <4>1. CASE identifier = url.identifier
        BY <2>1, <2>4, <4>1
      <4>2. CASE identifier # url.identifier
        BY <2>1, <4>2 DEF Inv, MarksConsumed, TypeOK
      <4> QED
        BY <4>1, <4>2
    <3> QED
      BY <3>1, <3>2 DEF MarksConsumed
  <2>6. \A other \in Requests \ {request} :
            Spent(other)' /\ IsUrl(other) => /\ input[other] # url
                                             /\ input[other].counter
                                                <= tapCounters'[input[other].identifier]
    <3> SUFFICES ASSUME NEW other \in Requests \ {request}, Spent(other)', IsUrl(other)
                 PROVE  /\ input[other] # url
                        /\ input[other].counter <= tapCounters'[input[other].identifier]
      OBVIOUS
    <3>1. Spent(other)
      BY <1>2 DEF Spent, Admitted
    <3>2. input[other].counter <= tapCounters[input[other].identifier]
      BY <3>1 DEF Inv, SpentAreGone
    <3> QED
      BY <2>1, <2>2, <2>3, <3>2 DEF IsUrl
  <2>7. SpentAreGone'
    <3> SUFFICES ASSUME NEW r \in Requests, Spent(r)'
                 PROVE  IF IsUrl(r)
                        THEN input[r].counter <= tapCounters'[input[r].identifier]
                        ELSE \E c \in issued \ authChallenges : c.id = input[r].challengeId
      BY <1>2, <1>3 DEF SpentAreGone, IsUrl, challengeVars
    <3>1. CASE r = request
      BY <1>4, <2>3, <2>4, <3>1 DEF IsUrl
    <3>2. CASE r # request
      BY <1>2, <2>6, <3>2 DEF Inv, SpentAreGone, Spent, Admitted
    <3> QED
      BY <3>1, <3>2
  <2>8. SpentOnce'
    BY <1>2, <1>4, <2>6 DEF Inv, SpentOnce, Spent, Admitted, IsUrl
  <2> QED
    BY <1>1, <1>5, <1>6, <1>7, <2>5, <2>7, <2>8 DEF Inv
<1>9. CASE UNCHANGED databaseVars /\ step'[request] = "answered"
  BY <1>1, <1>2, <1>3, <1>4, <1>5, <1>6, <1>7, <1>9
     DEF Inv, MarksConsumed, SpentAreGone, SpentOnce, Spent, Admitted, IsUrl, databaseVars,
         challengeVars
<1> QED
  BY <1>8, <1>9 DEF ConsumeCounter, Answers, Moves, Inv, TypeOK

(***************************************************************************)
(* What keeps the parts of the invariant that are about the database and   *)
(* the world: a request that reads, answers or is gone spends nothing.     *)
(***************************************************************************)
LEMMA ReadingKeeps ==
    ASSUME Inv, NEW request \in Requests, Serve(request) \/ Drop(request),
           UNCHANGED <<now, challengeVars, worldVars, tapCounters, consumed>>,
           Spent(request)' => Spent(request),
           step'[request] \in {"scan", "store"} => step[request] \in {"lookup", "scan"},
           step'[request] \in {"scan", "store", "answered", "dropped"},
           Admitted(request)' => /\ step'[request] = "answered"
                                 /\ step[request] \in {"lookup", "store", "fetch"}
    PROVE  /\ TypeOK' /\ InputsFit' /\ MarksConsumed' /\ IdsDiffer' /\ SpentAreGone'
           /\ SpentOnce' /\ TappedAfterIssue'
<1>1. TypeOK'
  BY TypeStep DEF Inv, Next
<1>2. /\ input' = input
      /\ \A other \in Requests \ {request} :
            /\ step'[other] = step[other]
            /\ outcome'[other] = outcome[other]
  BY OthersStay DEF Inv
<1>3. InputsFit'
  BY <1>2 DEF Inv, InputsFit, IsUrl, Admitted, worldVars
<1>4. MarksConsumed' /\ IdsDiffer' /\ TappedAfterIssue'
  BY DEF Inv, MarksConsumed, IdsDiffer, TappedAfterIssue, challengeVars, worldVars
<1>5. \A r \in Requests : Spent(r)' => Spent(r)
  BY <1>2 DEF Spent, Admitted
<1>6. SpentAreGone' /\ SpentOnce'
  BY <1>2, <1>5 DEF Inv, SpentAreGone, SpentOnce, IsUrl, challengeVars
<1> QED
  BY <1>1, <1>3, <1>4, <1>6

(***************************************************************************)
(* What is held for a chip stays what it is while the cache is read.       *)
(***************************************************************************)
LEMMA LookupStep ==
    ASSUME Inv, NEW request \in Requests, Lookup(request)
    PROVE  Inv'
<1>1. /\ input' = input
      /\ \A other \in Requests \ {request} :
            /\ step'[other] = step[other]
            /\ found'[other] = found[other]
            /\ outcome'[other] = outcome[other]
  BY OthersStay DEF Inv, Serve
<1>2. /\ UNCHANGED <<now, challengeVars, worldVars, databaseVars, found>>
      /\ step[request] = "lookup" /\ IsUrl(request)
      /\ step'[request] \in {"scan", "answered"}
      /\ Spent(request)
      /\ Admitted(request)' =>
            /\ step'[request] = "answered"
            /\ cache[input[request].identifier] # NoAddress
            /\ outcome'[request] = Admission(cache[input[request].identifier],
                                             input[request].identifier)
  BY DEF Lookup, Continues, Answers, Moves, Inv, TypeOK, InputsFit, Spent, Admitted, Failure
<1>3. /\ TypeOK' /\ InputsFit' /\ MarksConsumed' /\ IdsDiffer' /\ SpentAreGone'
      /\ SpentOnce' /\ TappedAfterIssue'
  BY <1>2, ReadingKeeps DEF Serve, databaseVars
<1>4. AccountsKnown'
  BY <1>1, <1>2 DEF Inv, AccountsKnown, Known, worldVars, databaseVars
<1> QED
  BY <1>3, <1>4 DEF Inv

(***************************************************************************)
(* The account found bears the identifier now.                             *)
(***************************************************************************)
LEMMA ScanStep ==
    ASSUME Inv, NEW request \in Requests, Scan(request)
    PROVE  Inv'
<1> USE AdmissionAssumption
<1>1. /\ input' = input
      /\ \A other \in Requests \ {request} :
            /\ step'[other] = step[other]
            /\ found'[other] = found[other]
            /\ outcome'[other] = outcome[other]
  BY OthersStay DEF Inv, Serve
<1>2. /\ UNCHANGED <<now, challengeVars, worldVars, databaseVars>>
      /\ step[request] = "scan" /\ IsUrl(request)
      /\ step'[request] \in {"store", "answered"}
      /\ Spent(request)
      /\ ~Admitted(request)'
  BY DEF Scan, Answers, Moves, Inv, TypeOK, InputsFit, Spent, Admitted, Failure
<1>3. step'[request] = "store" =>
        /\ found'[request] \in Addresses
        /\ registry[found'[request]] = input[request].identifier
  BY DEF Scan, Answers, Moves, Inv, TypeOK
<1>4. /\ TypeOK' /\ InputsFit' /\ MarksConsumed' /\ IdsDiffer' /\ SpentAreGone'
      /\ SpentOnce' /\ TappedAfterIssue'
  BY <1>2, ReadingKeeps DEF Serve, databaseVars
<1>5. AccountsKnown'
  <2> SUFFICES ASSUME NEW a \in Addresses, NEW i \in Identifiers, Known(a, i)'
               PROVE  registry[a] = i \/ <<a, i>> \in outdated
    BY <1>1, <1>2, <1>3 DEF Inv, AccountsKnown, worldVars
  <2>1. CASE Known(a, i)
    BY <2>1 DEF Inv, AccountsKnown
  <2>2. CASE step'[request] = "store" /\ found'[request] = a /\ input'[request].identifier = i
    BY <1>1, <1>3, <2>2
  <2> QED
    BY <1>1, <1>2, <2>1, <2>2 DEF Known, databaseVars
<1> QED
  BY <1>4, <1>5 DEF Inv

(***************************************************************************)
(* What is cached, and answered, is what the scan found.                   *)
(***************************************************************************)
LEMMA StoreStep ==
    ASSUME Inv, NEW request \in Requests, Store(request)
    PROVE  Inv'
<1>1. /\ input' = input
      /\ \A other \in Requests \ {request} :
            /\ step'[other] = step[other]
            /\ found'[other] = found[other]
            /\ outcome'[other] = outcome[other]
  BY OthersStay DEF Inv, Serve
<1>2. /\ UNCHANGED <<now, challengeVars, worldVars, tapCounters, consumed, found>>
      /\ step[request] = "store" /\ IsUrl(request)
      /\ step'[request] = "answered"
      /\ Spent(request)
      /\ Admitted(request)' =>
            outcome'[request] = Admission(found[request], input[request].identifier)
      /\ cache' \in {cache, Stored(request)}
  BY DEF Store, Answers, Moves, Inv, TypeOK, InputsFit, Spent, Admitted, Failure
<1>3. /\ TypeOK' /\ InputsFit' /\ MarksConsumed' /\ IdsDiffer' /\ SpentAreGone'
      /\ SpentOnce' /\ TappedAfterIssue'
  BY <1>2, ReadingKeeps DEF Serve
<1>4. input[request].identifier \in Identifiers
  BY <1>2 DEF IsUrl, Url
<1>5. AccountsKnown'
  <2> SUFFICES ASSUME NEW a \in Addresses, NEW i \in Identifiers, Known(a, i)'
               PROVE  Known(a, i)
    BY <1>1, <1>2 DEF Inv, AccountsKnown, worldVars
  <2>1. cache'[i] = a => cache[i] = a \/ (found[request] = a /\ input[request].identifier = i)
    BY <1>2, <1>4 DEF Stored, Inv, TypeOK
  <2> QED
    BY <1>1, <1>2, <2>1 DEF Known
<1> QED
  BY <1>3, <1>5 DEF Inv

(***************************************************************************)
(* The account at the address that was tapped is there now.                *)
(***************************************************************************)
LEMMA FetchStep ==
    ASSUME Inv, NEW request \in Requests, Fetch(request)
    PROVE  Inv'
<1>1. /\ input' = input
      /\ \A other \in Requests \ {request} :
            /\ step'[other] = step[other]
            /\ found'[other] = found[other]
            /\ outcome'[other] = outcome[other]
  BY OthersStay DEF Inv, Serve
<1> DEFINE address == input[request].response.address
<1>2. /\ UNCHANGED <<now, challengeVars, worldVars, databaseVars, found>>
      /\ step[request] = "fetch" /\ input[request] \in Resume
      /\ step'[request] = "answered"
      /\ Spent(request)
      /\ Admitted(request)' => /\ registry[address] # NoIdentifier
                               /\ outcome'[request] = Admission(address, registry[address])
  BY DEF Fetch, IsRegistered, Answers, Moves, Inv, TypeOK, InputsFit, Spent, Admitted, Failure
<1>3. /\ TypeOK' /\ InputsFit' /\ MarksConsumed' /\ IdsDiffer' /\ SpentAreGone'
      /\ SpentOnce' /\ TappedAfterIssue'
  BY <1>2, ReadingKeeps DEF Serve, databaseVars
<1>4. AccountsKnown'
  BY <1>1, <1>2 DEF Inv, AccountsKnown, Known, worldVars, databaseVars
<1> QED
  BY <1>3, <1>4 DEF Inv

LEMMA DropStep ==
    ASSUME Inv, NEW request \in Requests, Drop(request)
    PROVE  Inv'
<1>1. /\ UNCHANGED <<now, challengeVars, worldVars, databaseVars, input, found, outcome>>
      /\ step'[request] = "dropped"
      /\ ~Admitted(request) /\ ~Admitted(request)' /\ ~Spent(request)'
      /\ \A other \in Requests \ {request} : step'[other] = step[other]
  BY DEF Drop, Inv, TypeOK, InputsFit, Admitted, Spent
<1>2. /\ TypeOK' /\ InputsFit' /\ MarksConsumed' /\ IdsDiffer' /\ SpentAreGone'
      /\ SpentOnce' /\ TappedAfterIssue'
  BY <1>1, ReadingKeeps DEF databaseVars
<1>3. AccountsKnown'
  BY <1>1 DEF Inv, AccountsKnown, Known, worldVars, databaseVars
<1> QED
  BY <1>2, <1>3 DEF Inv

(***************************************************************************)
(* The row of a challenge is gone once a request was let through with it,  *)
(* and there was one row only.                                             *)
(***************************************************************************)
LEMMA ConsumeChallengeStep ==
    ASSUME Inv, NEW request \in Requests, ConsumeChallenge(request)
    PROVE  Inv'
<1> DEFINE rows == Live("resume", input[request].challengeId, input[request].at)
<1>1. TypeOK'
  BY TypeStep DEF Inv, Next, Serve
<1>2. /\ input' = input
      /\ \A other \in Requests \ {request} :
            /\ step'[other] = step[other]
            /\ found'[other] = found[other]
            /\ outcome'[other] = outcome[other]
  BY OthersStay DEF Inv, Serve
<1>3. /\ UNCHANGED <<now, issued, worldVars, databaseVars, found>>
      /\ authChallenges' \subseteq authChallenges
      /\ step[request] = "consumeChallenge"
      /\ input[request] \in Resume /\ ~IsUrl(request)
      /\ ~Admitted(request)' /\ ~Spent(request)
      /\ step'[request] \in {"fetch", "answered"}
  BY UrlsAreNoResumes
     DEF ConsumeChallenge, ConsumeRows, challengeVars, Continues, Answers, Moves, Inv, TypeOK,
         InputsFit, Admitted, Spent, Failure, IsUrl
<1>4. InputsFit'
  BY <1>2, <1>3 DEF Inv, InputsFit, IsUrl, Admitted, worldVars
<1>5. MarksConsumed' /\ IdsDiffer' /\ TappedAfterIssue'
  BY <1>3 DEF Inv, MarksConsumed, IdsDiffer, TappedAfterIssue, worldVars, databaseVars
<1>6. AccountsKnown'
  BY <1>2, <1>3 DEF Inv, AccountsKnown, Known, worldVars, databaseVars
<1>7. \A other \in Requests \ {request} : Spent(other)' <=> Spent(other)
  BY <1>2 DEF Spent, Admitted
<1>8. Spent(request)' =>
        \E c \in issued : /\ c.id = input[request].challengeId
                          /\ c \in authChallenges /\ c \notin authChallenges'
  <2> SUFFICES ASSUME step'[request] = "fetch"
               PROVE  \E c \in issued : /\ c.id = input[request].challengeId
                                        /\ c \in authChallenges /\ c \notin authChallenges'
    BY <1>3 DEF Spent, Admitted
  <2>1. rows # {} /\ authChallenges' = authChallenges \ rows
    BY DEF ConsumeChallenge, ConsumeRows, Continues, Answers, Moves, Inv, TypeOK
  <2>2. PICK c \in rows : TRUE
    BY <2>1
  <2> QED
    BY <2>1, <2>2 DEF Live, Inv, TypeOK, ChallengesTypeOK
<1>9. SpentAreGone'
  BY <1>2, <1>3, <1>7, <1>8 DEF Inv, SpentAreGone, IsUrl, databaseVars
<1>10. SpentOnce'
  <2>1. ASSUME NEW other \in Requests \ {request}, Spent(other), ~IsUrl(other), Spent(request)'
        PROVE  input[other].challengeId # input[request].challengeId
    BY <1>8, <2>1 DEF Inv, SpentAreGone, IdsDiffer
  <2> QED
    BY <1>2, <1>3, <1>7, <2>1 DEF Inv, SpentOnce, IsUrl
<1> QED
  BY <1>1, <1>4, <1>5, <1>6, <1>9, <1>10 DEF Inv

LEMMA InvStep == Inv /\ [Next]_vars => Inv'
<1> SUFFICES ASSUME Inv, [Next]_vars
             PROVE  Inv'
  OBVIOUS
<1>1. ASSUME NEW request \in Requests, Serve(request)
      PROVE  Inv'
  BY <1>1, ConsumeCounterStep, LookupStep, ScanStep, StoreStep, ConsumeChallengeStep, FetchStep
     DEF Serve
<1>2. CASE UNCHANGED vars
  BY <1>2 DEF vars, challengeVars, worldVars, databaseVars, requestVars, Inv, TypeOK,
              ChallengesTypeOK, InputsFit, MarksConsumed, IdsDiffer, SpentAreGone, SpentOnce,
              TappedAfterIssue, AccountsKnown, Known, Spent, IsUrl, Admitted
<1> QED
  BY <1>1, <1>2, WorldStep, IssueStep, ReceiveStep, DropStep DEF Next

(***************************************************************************)
(* The invariant holds in every state of every run of the server.          *)
(***************************************************************************)
THEOREM InvCorrect == Spec => []Inv
<1>1. Init => Inv
  BY ChallengeAssumption, AdmissionAssumption, OutcomesTyped
     DEF Init, ChallengesInit, Inv, TypeOK, ChallengesTypeOK, InputsFit, MarksConsumed, IdsDiffer,
         SpentAreGone, SpentOnce, TappedAfterIssue, AccountsKnown, Known, Spent, IsUrl,
         Admitted, Failure, Steps, Reasons
<1> QED
  BY <1>1, InvStep, PTL DEF Spec

(***************************************************************************)
(* A signed URL, or a challenge, opens an accessory for one request only.  *)
(***************************************************************************)
THEOREM AlwaysAdmittedOnce == Spec => []AdmittedOnce
<1>1. Inv => AdmittedOnce
  BY DEF Inv, AdmittedOnce, SpentOnce, Spent
<1> QED
  BY <1>1, InvCorrect, PTL

(***************************************************************************)
(* A URL is good until it, or a newer one of its chip, was consumed.       *)
(***************************************************************************)
THEOREM UnusedUrlAlwaysValid == Spec => []UnusedUrlStaysValid
<1>1. ASSUME Inv, NEW identifier \in Identifiers, NEW counter \in 0 .. nextCounter[identifier]
      PROVE  tapCounters[identifier] < counter
             <=> \A url \in consumed : url.identifier = identifier => url.counter < counter
  <2>1. /\ tapCounters[identifier] \in Int /\ counter \in Nat
        /\ \A url \in consumed : url.counter \in Nat
    BY <1>1, AdmissionAssumption DEF Inv, TypeOK, Url
  <2> QED
    BY <1>1, <2>1 DEF Inv, MarksConsumed
<1>2. Inv => UnusedUrlStaysValid
  BY <1>1 DEF UnusedUrlStaysValid
<1> QED
  BY <1>2, InvCorrect, PTL

(***************************************************************************)
(* The account at an address held for a chip is the chip's, unless it was  *)
(* closed since; at the address that was tapped it is read just then.      *)
(***************************************************************************)
LEMMA AdmittingStep ==
    ASSUME Inv, NEW request \in Requests, Serve(request), ~Admitted(request), Admitted(request)'
    PROVE  LET pda == outcome'[request].pda
               identifier == outcome'[request].identifier IN
           /\ identifier \in Identifiers
           /\ \/ /\ IsUrl(request)
                 /\ identifier = input[request].identifier
                 /\ registry[pda] = identifier \/ <<pda, identifier>> \in outdated
              \/ /\ ~IsUrl(request)
                 /\ pda = input[request].response.address
                 /\ registry[pda] = identifier
<1>1. Lookup(request) \/ Store(request) \/ Fetch(request)
  BY DEF Serve, ConsumeCounter, Scan, ConsumeChallenge, Continues, Answers, Moves, Admitted,
         Failure, Inv, TypeOK
<1>2. CASE Lookup(request) \/ Store(request)
  <2> DEFINE identifier == input[request].identifier
             pda == outcome'[request].pda
  <2>1. IsUrl(request) /\ identifier \in Identifiers
    BY <1>2 DEF Lookup, Store, Inv, InputsFit, IsUrl, Url
  <2>2. /\ outcome'[request] = Admission(pda, identifier)
        /\ pda \in Addresses \cup {NoAddress}
        /\ \/ cache[identifier] # NoAddress /\ cache[identifier] = pda
           \/ step[request] = "store" /\ found[request] = pda
    BY <1>2, <2>1 DEF Lookup, Store, Continues, Answers, Moves, Admitted, Failure, Admission,
                      Inv, TypeOK
  <2>3. pda \in Addresses
    BY <2>2 DEF Inv, AccountsKnown
  <2>4. registry[pda] = identifier \/ <<pda, identifier>> \in outdated
    BY <2>1, <2>2, <2>3 DEF Inv, AccountsKnown, Known
  <2> QED
    BY <2>1, <2>2, <2>4 DEF Admission
<1>3. CASE Fetch(request)
  <2> DEFINE address == input[request].response.address
  <2>1. input[request] \in Resume /\ ~IsUrl(request) /\ address \in Addresses
    BY <1>3, UrlsAreNoResumes DEF Fetch, Inv, InputsFit, IsUrl, Resume, Assertion
  <2>2. registry[address] # NoIdentifier
        /\ outcome'[request] = Admission(address, registry[address])
    BY <1>3 DEF Fetch, IsRegistered, Answers, Moves, Admitted, Failure, Inv, TypeOK
  <2>3. registry[address] \in Identifiers
    BY <2>1, <2>2 DEF Inv, TypeOK
  <2> QED
    BY <2>1, <2>2, <2>3 DEF Admission
<1> QED
  BY <1>1, <1>2, <1>3

(***************************************************************************)
(* A session is for what was tapped, and names the account of it: the one  *)
(* there now, or one closed after its address was read.                    *)
(***************************************************************************)
THEOREM AlwaysAdmitsTheTapped == Spec => AdmitsTheTapped
<1> DEFINE Tapped ==
        \A request \in Requests :
            ~Admitted(request) /\ Admitted(request)' =>
                LET pda == outcome'[request].pda
                    identifier == outcome'[request].identifier IN
                /\ identifier \in Identifiers
                /\ \/ /\ IsUrl(request)
                      /\ identifier = input[request].identifier
                      /\ registry[pda] = identifier \/ <<pda, identifier>> \in outdated
                   \/ /\ ~IsUrl(request)
                      /\ pda = input[request].response.address
                      /\ registry[pda] = identifier
<1>1. ASSUME Inv, Next, NEW request \in Requests, ~Admitted(request), Admitted(request)'
      PROVE  Serve(request)
  <2>1. ~World /\ ~\E namespace \in Namespaces, message \in Messages : Issue(namespace, message)
    BY <1>1 DEF World, Time, TapUrl, Close, TapPasskey, Register, Issue, requestVars, Admitted
  <2>2. PICK r \in Requests : \/ \E url \in Url : ReceiveUrl(r, url)
                              \/ \E id \in ChallengeIds, response \in assertions :
                                      ReceiveResume(r, id, response)
                              \/ Serve(r)
                              \/ Drop(r)
    BY <1>1, <2>1 DEF Next
  <2>3. Serve(r)
    BY <1>1, <2>2 DEF ReceiveUrl, ReceiveResume, Drop, Admitted, Failure, Inv, TypeOK
  <2>4. r = request
    BY <1>1, <2>3, OthersStay DEF Admitted, Inv
  <2> QED
    BY <2>3, <2>4
<1>2. Inv /\ [Next]_vars => [Tapped]_vars
  <2> SUFFICES ASSUME Inv, Next
               PROVE  Tapped
    OBVIOUS
  <2> QED
    BY <1>1, AdmittingStep
<1> QED
  BY <1>2, InvCorrect, PTL DEF Spec, AdmitsTheTapped

(***************************************************************************)
(* A passkey tap is let through only over a challenge for resuming that    *)
(* the request spends, tapped and sent within the life of the challenge.   *)
(***************************************************************************)
THEOREM AlwaysResumedFresh == Spec => ResumedFresh
<1> DEFINE Suits(request, challenge) ==
        LET resume == input[request]
            issuedAt == challenge.expiresAt - ChallengeTTL IN
        /\ challenge.namespace = "resume"
        /\ challenge.id = resume.challengeId
        /\ challenge.id = resume.response.challenge
        /\ issuedAt <= resume.response.at /\ resume.response.at <= resume.at
        /\ resume.at - issuedAt < ChallengeTTL
    Fresh ==
        \A request \in Requests :
            step[request] = "consumeChallenge" /\ step'[request] = "fetch" =>
                \E challenge \in authChallenges \ authChallenges' : Suits(request, challenge)
<1>1. ASSUME Inv, Next, NEW request \in Requests,
             step[request] = "consumeChallenge", step'[request] = "fetch"
      PROVE  \E challenge \in authChallenges \ authChallenges' : Suits(request, challenge)
  <2> DEFINE rows == Live("resume", input[request].challengeId, input[request].at)
  <2>1. ConsumeChallenge(request)
    <3>1. ~World /\ ~\E namespace \in Namespaces, message \in Messages : Issue(namespace, message)
      BY <1>1 DEF World, Time, TapUrl, Close, TapPasskey, Register, Issue, requestVars
    <3>2. PICK r \in Requests : \/ \E url \in Url : ReceiveUrl(r, url)
                                \/ \E id \in ChallengeIds, response \in assertions :
                                        ReceiveResume(r, id, response)
                                \/ Serve(r)
                                \/ Drop(r)
      BY <1>1, <3>1 DEF Next
    <3>3. r = request
      BY <1>1, <3>2 DEF ReceiveUrl, ReceiveResume, Serve, Drop, ConsumeCounter, Lookup, Scan,
                        Store, ConsumeChallenge, Fetch, Continues, Answers, Moves, Inv, TypeOK
    <3> QED
      BY <1>1, <3>2, <3>3 DEF ReceiveUrl, ReceiveResume, Serve, Drop, ConsumeCounter, Lookup,
                        Scan, Store, Fetch, Continues, Answers, Moves, Inv, TypeOK
  <2>2. rows # {} /\ RespondsTo(input[request]) /\ authChallenges' = authChallenges \ rows
    BY <1>1, <2>1 DEF ConsumeChallenge, ConsumeRows, Continues, Answers, Moves, Inv, TypeOK
  <2>3. PICK c \in rows : TRUE
    BY <2>2
  <2>4. /\ c \in issued /\ c.id = input[request].challengeId
        /\ c.id = input[request].response.challenge
        /\ c.namespace = "resume" /\ c.expiresAt > input[request].at
        /\ c \in authChallenges \ authChallenges'
    BY <1>1, <2>2, <2>3 DEF Live, RespondsTo, Inv, TypeOK, ChallengesTypeOK
  <2>5. /\ input[request].response \in assertions /\ input[request] \in Resume
        /\ input[request].response.at <= input[request].at
    BY <1>1 DEF Inv, InputsFit
  <2>6. c.expiresAt - ChallengeTTL <= input[request].response.at
    BY <1>1, <2>4, <2>5 DEF Inv, TappedAfterIssue, IdsDiffer
  <2>7. /\ c.expiresAt \in Int /\ input[request].at \in Int
        /\ input[request].response.at \in Int /\ ChallengeTTL \in Int
    BY <1>1, <2>4, <2>5, ChallengeAssumption
       DEF Inv, TypeOK, ChallengesTypeOK, Challenge, Resume, Assertion
  <2>8. input[request].at - (c.expiresAt - ChallengeTTL) < ChallengeTTL
    BY <2>4, <2>7
  <2> QED
    BY <2>4, <2>5, <2>6, <2>8
<1>2. Inv /\ [Next]_vars => [Fresh]_vars
  BY <1>1
<1> QED
  BY <1>2, InvCorrect, PTL DEF Spec, ResumedFresh
=============================================================================
