---------------------------- MODULE SlotHashSearch ----------------------------
(***************************************************************************)
(* fetch_slot_hash: a binary search in the data of the SlotHashes sysvar,  *)
(* one probe per step.  The account's data has a fixed size: an entry      *)
(* count, the entries, newest slot first, and zeros up to the end.         *)
(***************************************************************************)
EXTENDS Integers

CONSTANTS
    Capacity,       \* entries the account's data has room for (512)
    SlotNumbers,    \* slot numbers, zero included
    Pending, Failed

ASSUME SearchAssumption ==
    /\ Capacity \in Nat \ {0}
    /\ SlotNumbers \subseteq Nat
    /\ 0 \in SlotNumbers
    /\ Pending \notin Nat \cup {Failed}
    /\ Failed \notin Nat

VARIABLES
    count,          \* the header: how many entries there are
    entry,          \* the slot of each entry, the unused ones included
    wanted,         \* slot_number
    left, right,    \* the entries still searched: left .. right - 1
    answer          \* what is returned

searchVars == <<count, entry, wanted, left, right, answer>>

(* The sysvar as the runtime writes it. *)
SlotHashes(n, data) ==
    /\ \A i \in 0 .. n - 1 : \A j \in i + 1 .. n - 1 : data[i] > data[j]
    /\ \A i \in n .. Capacity - 1 : data[i] = 0

SearchInit ==
    /\ count \in 0 .. Capacity
    /\ entry \in [0 .. Capacity - 1 -> SlotNumbers]
    /\ SlotHashes(count, entry)
    /\ wanted \in SlotNumbers
    /\ left = 0
    /\ right = count
    /\ answer = Pending

mid == left + (right - left) \div 2

(* A sysvar without entries is malformed. *)
RefuseEmpty ==
    /\ answer = Pending
    /\ count = 0
    /\ answer' = Failed
    /\ UNCHANGED <<count, entry, wanted, left, right>>

\* Faulty variants of the next two definitions: the middle is kept, or one too many goes.
NarrowUpKeeping == left' = mid /\ right' = right

NarrowUp == left' = mid + 1 /\ right' = right

NarrowDownClosed == left' = left /\ right' = mid - 1

NarrowDown == left' = left /\ right' = mid

(***************************************************************************)
(* One turn of the loop: the entry in the middle is the one wanted, or     *)
(* rules out half of the others.  (The header never counts more entries    *)
(* than the data has room for, so the entry is always inside the data.)    *)
(***************************************************************************)
Probe ==
    /\ answer = Pending
    /\ left < right
    /\ \/ /\ entry[mid] = wanted
          /\ answer' = entry[mid]
          /\ UNCHANGED <<left, right>>
       \/ /\ entry[mid] > wanted
          /\ NarrowUp
          /\ UNCHANGED answer
       \/ /\ entry[mid] < wanted
          /\ NarrowDown
          /\ UNCHANGED answer
    /\ UNCHANGED <<count, entry, wanted>>

(* The search runs out of entries: InvalidSlotHash. *)
GiveUp ==
    /\ answer = Pending
    /\ count # 0
    /\ left >= right
    /\ answer' = Failed
    /\ UNCHANGED <<count, entry, wanted, left, right>>

SearchNext == RefuseEmpty \/ Probe \/ GiveUp

\* A BPF program that was started runs on until it returns.
SearchSpec == SearchInit /\ [][SearchNext]_searchVars /\ WF_searchVars(SearchNext)

-----------------------------------------------------------------------------

(* The bounds stay within the table, and the result is what a search returns. *)
SearchTypeOK ==
    /\ count \in 0 .. Capacity
    /\ entry \in [0 .. Capacity - 1 -> SlotNumbers]
    /\ SlotHashes(count, entry)
    /\ wanted \in SlotNumbers
    /\ left \in 0 .. count
    /\ right \in 0 .. count
    /\ answer \in SlotNumbers \cup {Pending, Failed}

(* The loop invariant: what is no longer searched is on the right side. *)
RuledOut ==
    /\ left <= right
    /\ \A i \in 0 .. left - 1 : entry[i] > wanted
    /\ \A i \in right .. count - 1 : entry[i] < wanted

SearchInv == SearchTypeOK /\ RuledOut

(***************************************************************************)
(* The search is a lookup: it returns the hash of the slot asked for       *)
(* whenever the window holds it (the oldest and the newest entry           *)
(* included), fails otherwise, and never takes the zeros behind the last   *)
(* entry for the hash of slot zero.                                        *)
(***************************************************************************)
Lookup == INSTANCE SlotHashLookup WITH window <- {entry[i] : i \in 0 .. count - 1}

IsLookup == Lookup!Spec

(***************************************************************************)
(* Every probe that does not end the search halves what is left of it: a   *)
(* full window takes ten probes, whatever the slot.                        *)
(***************************************************************************)
Halves == [][answer' = Pending => 2 * (right' - left') <= right - left]_searchVars

(* The search ends, with an answer. *)
Answers == <>(answer # Pending)
=============================================================================
