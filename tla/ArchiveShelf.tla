---------------------------- MODULE ArchiveShelf ----------------------------
(***************************************************************************)
(* What the archive of a mod promises its readers: Done/<Mod> holds one    *)
(* whole archive or none, an archive that is replaced is kept aside, and   *)
(* no archive that was ever whole is deleted or changed.                   *)
(***************************************************************************)
CONSTANTS Archives, None

VARIABLES
  current,  \* the archive at Done/<Mod>, or None
  earlier   \* archives that were moved aside

shelf == <<current, earlier>>

Init == current = None /\ earlier = {}

(* A new archive appears whole, where there was none. *)
Publish(a) ==
  /\ current = None
  /\ current' = a
  /\ UNCHANGED earlier

SetAside ==
  /\ current # None
  /\ earlier' = earlier \union {current}
  /\ current' = None

(* A failed replacement puts back what it had set aside. *)
PutBack(a) ==
  /\ current = None
  /\ a \in earlier
  /\ current' = a
  /\ earlier' \in {earlier, earlier \ {a}}

Next ==
  \/ SetAside
  \/ \E a \in Archives : Publish(a) \/ PutBack(a)

Spec == Init /\ [][Next]_shelf
=============================================================================
