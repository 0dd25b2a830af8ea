---------------------------- MODULE SlotHashLookup ----------------------------
(***************************************************************************)
(* What the program needs of the SlotHashes sysvar: asked for a slot, the  *)
(* hash of that very slot when the window holds one, and an error when it  *)
(* does not.  A hash is modelled as the slot it belongs to.                *)
(***************************************************************************)
CONSTANTS Pending, Failed      \* no answer yet; InvalidSlotHash and the like

VARIABLES
    window,     \* the slots whose hash the sysvar holds
    wanted,     \* the slot number the caller names
    answer

Init == answer = Pending

Answer ==
    /\ answer = Pending
    /\ answer' = IF wanted \in window THEN wanted ELSE Failed
    /\ UNCHANGED <<window, wanted>>

Spec == Init /\ [][Answer]_<<window, wanted, answer>>
=============================================================================
