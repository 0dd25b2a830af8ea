------------------------- MODULE MCProgramInterface -------------------------
(* Two people, two keys that differ in x, one of which also names a chip.   *)
(* Another passkey's signature, over a shorter message, came before.        *)
EXTENDS ProgramInterface

MCWallets == {<<"wallet", "alice">>, <<"wallet", "bob">>}
MCKeys == {<<"key", 2, "x">>, <<"key", 3, "y">>}
MCIdentifiers == {<<"key", 2, "chip">>, <<"key", 3, "y">>}

\* Arrays: none, an empty one, one whose signature is not of its message, and
\* one that a tap still fits in, but not two (of the three signatures taken).
ForeignKey == <<"key", 2, "foreign">>
Entry(message) == [publicKey |-> ForeignKey, message |-> <<"text">>, size |-> 40,
                   signature |-> <<"signature", {ForeignKey}, message>>]
GivenOf(n, message) == [given |-> TRUE, entries |-> [i \in 1 .. n |-> Entry(message)]]
Filled == {C!NoArray, GivenOf(0, <<"text">>), GivenOf(1, <<"other text">>),
           GivenOf(2, <<"text">>)}
=============================================================================
