--------------------------- MODULE MCTapAdmission ---------------------------
(***************************************************************************)
(* Instances of TapAdmission for TLC.                                      *)
(***************************************************************************)
EXTENDS TapAdmission, TLC

\* Chips, passkeys, requests and challenges are interchangeable.
Symmetry == Permutations(Identifiers) \cup Permutations(Addresses)
            \cup Permutations(Requests) \cup Permutations(ChallengeIds)
=============================================================================
