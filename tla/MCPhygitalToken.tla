--------------------------- MODULE MCPhygitalToken ---------------------------
(***************************************************************************)
(* Instances of PhygitalToken for TLC.                                     *)
(***************************************************************************)
EXTENDS PhygitalToken, TLC

CONSTANTS
    k1, k1odd, k2, k2odd,   \* passkeys; the odd ones share an x coordinate
    t1, t2                  \* the token addresses of the two x coordinates

\* The address of a passkey forgets the parity prefix.
MCPda == [key \in PublicKeys |-> IF key \in {k1, k1odd} THEN t1 ELSE t2]

\* A tap in the browser: user present, on the one site there is.
PlainContexts == {[type |-> "webauthn.get", userPresent |-> TRUE,
                   rpId |-> "site", origin |-> "https://site"]}

\* Also a client on that site that asks silently.
SilentContexts == PlainContexts \cup
    {[type |-> "webauthn.get", userPresent |-> FALSE,
      rpId |-> "site", origin |-> "https://site"]}

TwoSites == {"site", "other"}

TwoOrigins == {"https://site", "https://other"}

\* The keys of wallets and authorities are interchangeable.
KeySymmetry == Permutations(Pubkeys)
=============================================================================
