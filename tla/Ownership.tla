------------------------------ MODULE Ownership ------------------------------
(***************************************************************************)
(* What the program promises about who owns an accessory, without the      *)
(* roles, slots, hashes and assertions that keep the promise.              *)
(*                                                                         *)
(* Holding an accessory is being able to tap it.  A tap is the next in the *)
(* accessory's order; it may express a wish, that a deed go to a wallet,   *)
(* which anybody may have carried out before it lapses.  A deed follows    *)
(* the wishes of its accessory forwards only, and not while it is locked.  *)
(***************************************************************************)
EXTENDS Integers

CONSTANTS
    Keys,           \* what deeds are bound to
    Accessories,    \* the keys there is an accessory for
    Addresses,      \* where deeds are kept
    Wallets,
    Nobody,         \* the owner of what nobody owns
    NoDeed

VARIABLES
    deed,           \* the deed at each address
    reached,        \* how often each accessory was tapped
    wishes          \* those that have not lapsed

vars == <<deed, reached, wishes>>

Kinds == {"Permanent", "Bearer", "Controlled"}

Locked(d) == d.kind # "Bearer" /\ d.owner # Nobody

Wish(accessory, address, recipient, order) ==
    [accessory |-> accessory, address |-> address, recipient |-> recipient, order |-> order]

(* A tap, with a wish or for something else. *)
Tap(accessory) ==
    /\ reached' = [reached EXCEPT ![accessory] = @ + 1]
    /\ \/ UNCHANGED wishes
       \/ \E address \in Addresses, recipient \in Wallets :
            wishes' = wishes \cup {Wish(accessory, address, recipient, reached'[accessory])}
    /\ UNCHANGED deed

Lapse ==
    /\ wishes' \subseteq wishes
    /\ UNCHANGED <<deed, reached>>

Issue(address) ==
    /\ deed[address] = NoDeed
    /\ \E key \in Keys, kind \in Kinds, owner \in Wallets \cup {Nobody} :
        /\ kind = "Permanent" <=> owner # Nobody
        /\ deed' = [deed EXCEPT ![address] =
                       [key |-> key, kind |-> kind, owner |-> owner, settled |-> 0]]
    /\ UNCHANGED <<reached, wishes>>

Revoke(address) ==
    /\ deed[address] # NoDeed
    /\ deed' = [deed EXCEPT ![address] = NoDeed]
    /\ UNCHANGED <<reached, wishes>>

SettledAt(d, order) == [d EXCEPT !.settled = order]

(* A wish for this deed, newer than what was settled, comes true. *)
Give(address, wish) ==
    /\ deed[address] # NoDeed
    /\ ~Locked(deed[address])
    /\ wish.accessory = deed[address].key
    /\ wish.address = address
    /\ wish.order > deed[address].settled
    /\ deed' = [deed EXCEPT ![address] =
                   [SettledAt(@, wish.order) EXCEPT !.owner = wish.recipient]]
    /\ UNCHANGED <<reached, wishes>>

(* A tap for something else settles that no earlier wish comes true. *)
Settle(address) ==
    /\ deed[address] # NoDeed
    /\ deed[address].key \in Accessories
    /\ \E order \in (deed[address].settled + 1) .. reached[deed[address].key] :
        deed' = [deed EXCEPT ![address] = SettledAt(@, order)]
    /\ UNCHANGED <<reached, wishes>>

GiveUp(address) ==
    /\ deed[address] # NoDeed
    /\ deed[address].kind # "Permanent"
    /\ deed' = [deed EXCEPT ![address].owner = Nobody]
    /\ UNCHANGED <<reached, wishes>>

Init ==
    /\ deed = [address \in Addresses |-> NoDeed]
    /\ reached = [accessory \in Accessories |-> 0]
    /\ wishes = {}

Next ==
    \/ \E accessory \in Accessories : Tap(accessory)
    \/ Lapse
    \/ \E address \in Addresses :
        \/ Issue(address)
        \/ Revoke(address)
        \/ \E wish \in wishes : Give(address, wish)
        \/ Settle(address)
        \/ GiveUp(address)

Spec == Init /\ [][Next]_vars
=============================================================================
