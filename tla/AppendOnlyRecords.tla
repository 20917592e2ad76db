------------------------- MODULE AppendOnlyRecords -------------------------
(***************************************************************************)
(* What the case store of case_store.py promises its readers, with no      *)
(* locks, retries or crashes in it: three kinds of records, each appears   *)
(* whole in one step, never changes afterwards, and is only ever added     *)
(* when everything it refers to is already there.                          *)
(***************************************************************************)

CONSTANTS
  Cases,      \* identities of cases
  NoRecord    \* what cases[c] is while case c has not been created

VARIABLES
  cases,       \* the case record of each identity, or NoRecord
  candidates,  \* the candidate records, each with its case and predecessor
  receipts     \* the receipt records, each with its candidate

records == <<cases, candidates, receipts>>

Init ==
  /\ cases = [c \in Cases |-> NoRecord]
  /\ candidates = {}
  /\ receipts = {}

(* A case identity is bound once, to one workspace, scope and profile. *)
BindCase(c) ==
  /\ cases[c] = NoRecord
  /\ cases' = [cases EXCEPT ![c] = cases'[c]]
  /\ UNCHANGED <<candidates, receipts>>

(* A candidate belongs to a bound case; its predecessor, if it has one, is *)
(* an earlier candidate of the same case.                                  *)
AddCandidate(x) ==
  /\ cases[x.case] # NoRecord
  /\ x.predecessor # NoRecord =>
       /\ x.predecessor \in candidates
       /\ x.predecessor.case = x.case
  /\ candidates' = candidates \union {x}
  /\ UNCHANGED <<cases, receipts>>

(* A receipt speaks of a candidate of its own case that the store holds. *)
AddReceipt(x) ==
  /\ x.candidate \in candidates
  /\ x.candidate.case = x.case
  /\ receipts' = receipts \union {x}
  /\ UNCHANGED <<cases, candidates>>

Next ==
  \/ \E c \in Cases : BindCase(c)
  \/ \E x \in candidates' : AddCandidate(x)
  \/ \E x \in receipts' : AddReceipt(x)

Spec == Init /\ [][Next]_records
=============================================================================
