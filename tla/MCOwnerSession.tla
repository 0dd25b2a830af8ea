--------------------------- MODULE MCOwnerSession ---------------------------
(***************************************************************************)
(* Instances of OwnerSession for TLC.                                      *)
(***************************************************************************)
EXTENDS OwnerSession, TLC

\* Requests, accessories and challenges are interchangeable, and so are wallets.
Symmetry == Permutations(Requests) \cup Permutations(Addresses)
            \cup Permutations(ChallengeIds) \cup Permutations(Wallets)
=============================================================================
