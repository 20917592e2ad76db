---------------------------- MODULE PublishOnce ----------------------------
(***************************************************************************)
(* What local archive operations promise: an operation freezes one copy of *)
(* the candidate, promises one archive made from it, shows that archive    *)
(* once, as promised, where nothing was, and calls itself complete only    *)
(* when it is there; none of this is ever taken back.                      *)
(*                                                                         *)
(* The directories are in plain sight.  Once others have changed those of  *)
(* an operation the destination may hold anything, until the operation has *)
(* found the promised archive there again.                                 *)
(***************************************************************************)
CONSTANTS
  Operations, Attempts, Archives,
  Unfrozen,  \* no copy is frozen yet
  Nothing,   \* no archive, or no destination
  Empty      \* a destination that holds nothing

VARIABLES
  frozen,    \* for each operation the copy it froze
  promised,  \* the archive it promised
  shown,     \* what is at its destination
  complete,  \* the operations that say they are complete
  disturbed  \* those whose directories others have changed since

ledger == <<frozen, promised, complete>>
all == <<frozen, promised, shown, complete, disturbed>>

Init ==
  /\ frozen = [o \in Operations |-> Unfrozen]
  /\ promised = [o \in Operations |-> Nothing]
  /\ shown = [o \in Operations |-> Nothing]
  /\ complete = {}
  /\ disturbed = {}

(* A function changes only where it is applied to o. *)
OnlyAt(o, before, after) == after = [before EXCEPT ![o] = after[o]]

Freeze(o) ==
  /\ frozen[o] = Unfrozen
  /\ frozen'[o] \in Attempts
  /\ OnlyAt(o, frozen, frozen')
  /\ UNCHANGED <<promised, shown, complete, disturbed>>

Promise(o) ==
  /\ frozen[o] # Unfrozen
  /\ promised[o] = Nothing
  /\ promised'[o] \in Archives
  /\ OnlyAt(o, promised, promised')
  /\ UNCHANGED <<frozen, shown, complete, disturbed>>

(* Where others were, what appears may not be what was promised.           *)
Show(o) ==
  /\ promised[o] # Nothing
  /\ shown[o] = Nothing \/ (o \in disturbed /\ shown[o] = Empty)
  /\ o \notin disturbed => shown'[o] = promised[o]
  /\ OnlyAt(o, shown, shown')
  /\ UNCHANGED <<ledger, disturbed>>

Confirm(o) ==
  /\ promised[o] # Nothing
  /\ shown[o] = promised[o]
  /\ disturbed' = disturbed \ {o}
  /\ UNCHANGED <<ledger, shown>>

Complete(o) ==
  /\ promised[o] # Nothing
  /\ o \notin disturbed => shown[o] = promised[o]
  /\ complete' = complete \union {o}
  /\ UNCHANGED <<frozen, promised, shown, disturbed>>

Disturb(o) ==
  /\ disturbed' = disturbed \union {o}
  /\ OnlyAt(o, shown, shown')
  /\ UNCHANGED ledger

Next ==
  \E o \in Operations :
    Freeze(o) \/ Promise(o) \/ Show(o) \/ Confirm(o) \/ Complete(o) \/ Disturb(o)

Spec == Init /\ [][Next]_all
=============================================================================
