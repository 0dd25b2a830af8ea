--------------------------- MODULE MCTransferSheet ---------------------------
(***************************************************************************)
(* TransferSheet for TLC: fee, rent of an account and rent of a token      *)
(* account stand to each other as in the code, the smallest first, and     *)
(* balances lie on both sides of their sums.                               *)
(***************************************************************************)
EXTENDS TransferSheet, TLC

\* 0.1 and 0.3.
MCTyped == {[whole |-> 0, frac |-> <<1>>], [whole |-> 0, frac |-> <<3>>]}

CONSTANTS First, Second, Stranger

MCLedger(lamports, strangers, tokens, opened, frozen) ==
    [lamports |-> First :> lamports @@ Second :> 9 @@ Stranger :> strangers,
     tokens   |-> First :> tokens @@ Second :> 0 @@ Stranger :> 0,
     opened   |-> {First} \cup opened,
     frozen   |-> frozen]

\* Just enough for the fee; one more, and a token that is frozen; for the account of a new address
\* one lamport less than the total, just enough, and enough for its extensions too.
MCLedgers ==
    {MCLedger(5, 3, 30, {Stranger}, {}), MCLedger(6, 3, 30, {Stranger}, {First}),
     MCLedger(8, 0, 30, {}, {}), MCLedger(9, 0, 30, {}, {}),
     MCLedger(10, 0, 30, {}, {})}

=============================================================================
