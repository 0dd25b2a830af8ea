------------------------------ MODULE Challenges ------------------------------
(***************************************************************************)
(* The single-use challenges of the app's server: rows of the D1 table     *)
(* auth_challenges, each for one purpose, with an expiry time.             *)
(***************************************************************************)
EXTENDS Integers

CONSTANTS
    ChallengeIds,       \* random ids: no two challenges share one
    Namespaces,         \* what challenges are for
    Messages,           \* what the text of a message names: a wallet, or nothing
    ChallengeTTL,       \* CHALLENGE_TTL_MS
    MaxTime             \* bound: the last moment

ASSUME ChallengeAssumption == ChallengeTTL \in Nat \ {0} /\ MaxTime \in Nat

VARIABLES
    now,
    authChallenges,     \* the rows of auth_challenges
    issued              \* history: every challenge ever issued

challengeVars == <<authChallenges, issued>>

Challenge == [id : ChallengeIds, namespace : Namespaces, message : Messages,
              expiresAt : 0 .. MaxTime + ChallengeTTL]

ChallengesTypeOK ==
    /\ now \in 0 .. MaxTime
    /\ issued \subseteq Challenge
    /\ authChallenges \subseteq issued

ChallengesInit ==
    /\ now = 0
    /\ authChallenges = {}
    /\ issued = {}

Tick == now < MaxTime /\ now' = now + 1 /\ UNCHANGED challengeVars

Expiry == now + ChallengeTTL

(***************************************************************************)
(* issueChallenge: clears the rows of the namespace that have expired and  *)
(* adds the new one.  (Two statements; an expired row is good for nothing, *)
(* so nobody can tell what comes between them.)                            *)
(***************************************************************************)
IssueChallenge(namespace, message) ==
    \E id \in ChallengeIds \ {c.id : c \in issued} :
        LET challenge == [id |-> id, namespace |-> namespace,
                          message |-> message, expiresAt |-> Expiry]
            expired == {c \in authChallenges : c.namespace = namespace /\ c.expiresAt < now} IN
        /\ authChallenges' = (authChallenges \ expired) \cup {challenge}
        /\ issued' = issued \cup {challenge}
        /\ UNCHANGED now

\* Faulty variant of the next definition: a challenge never expires.
LiveNeverExpiring(namespace, id, at) ==
    {c \in authChallenges : c.id = id /\ c.namespace = namespace}

(***************************************************************************)
(* The rows consumeChallenge deletes and returns: one, or none.  The time  *)
(* is read when the request is taken up; the statement runs later.         *)
(***************************************************************************)
Live(namespace, id, at) ==
    {c \in authChallenges : c.id = id /\ c.namespace = namespace /\ c.expiresAt > at}

\* Faulty variant of the next definition: the row is read and left there.
ConsumeRowsKeeping(rows) == UNCHANGED <<now, challengeVars>>

(* The DELETE of consumeChallenge: one statement, so nobody comes between. *)
ConsumeRows(rows) ==
    /\ authChallenges' = authChallenges \ rows
    /\ UNCHANGED <<now, issued>>
=============================================================================
