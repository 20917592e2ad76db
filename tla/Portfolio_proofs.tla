------------------------- MODULE Portfolio_proofs -------------------------
(***************************************************************************)
(* Proofs about Portfolio, for every set of coordinators, cases and        *)
(* attempt names and every bound: one coordinator at a time, receipts that *)
(* are true of their attempts, one receipt per content, and COMPLETE only  *)
(* for portfolios all of whose cases have their receipt.                   *)
(*                                                                         *)
(* The argument for Truthful: the engine a process runs and the bytes it   *)
(* reads lie between those of its request and the present ones, which only *)
(* grow.  If they are equal when they are checked again, nothing can have  *)
(* been different in between; and once the worker has exited, what it ran  *)
(* and read does not change any more.                                      *)
(***************************************************************************)
EXTENDS Portfolio, TLAPS

(* What is true of an attempt folder and its process. *)
FolderFacts ==
  \A a \in Folders :
    /\ att[a].cand <= inputs[att[a].case]
    /\ att[a].eng <= engine
    /\ att[a].ran # {}
    /\ \A e \in att[a].ran : att[a].eng <= e /\ e <= engine
    /\ \A v \in att[a].read : att[a].cand <= v /\ v <= inputs[att[a].case]
    /\ att[a].worker \in {"wrote", "exited"} =>
         att[a].read # {} /\ att[a].ran = {att[a].eng} /\ att[a].bytes # "none"

(* A completion record is written of a worker that has exited.             *)
Settled == \A a \in Folders : att[a].observed # 0 => att[a].worker = "exited"

(* What the local variables of a call say of the attempts of its rows.     *)
Backed == WithArtifacts \union {"STARTING", "ACTIVE", "ANALYZED", "RECOVERED"}
RowFacts(k, c) ==
  LET a == run[k].at[c] IN
  /\ run[k].sel[c] <= inputs[c]
  /\ run[k].row[c] \in Backed =>
       /\ a \in Folders
       /\ att[a].case = c
       /\ att[a].cand = run[k].sel[c]
       /\ att[a].eng = run[k].eng
       /\ ~att[a].invalid
  /\ run[k].row[c] \in {"STARTING", "ACTIVE"} => phase[k] = "scan" /\ att[a].observed = 0
  /\ run[k].row[c] \in {"SCANNED", "RECOVERING"} => att[a].observed # 0
  /\ run[k].row[c] \in Done => att[a].receipt # "none"
  /\ phase[k] = "choose" /\ c \in run[k].todo => run[k].row[c] = "QUEUED"
  /\ phase[k] = "publish" /\ run[k].row[c] \in {"SCANNED", "RECOVERING"}
       /\ c \notin run[k].errors => att[a].read = {att[a].cand}
  /\ c \in run[k].cleared =>
       /\ phase[k] = "publish"
       /\ run[k].row[c] \in {"SCANNED", "RECOVERING"}
       /\ c \notin run[k].errors

RunFacts(k) ==
  /\ run[k].eng <= engine
  /\ phase[k] \notin Inside \ {"preflight"} => \A c \in Cases : run[k].row[c] = "QUEUED"
  /\ phase[k] # "publish" => run[k].cleared = {} /\ run[k].stored = {}
  /\ run[k].stored # {} => run[k].cleared = {}
  /\ \A c \in Cases : RowFacts(k, c)
  /\ \A r \in run[k].stored :
       /\ r \in ledger
       /\ run[k].row[r.case] \in {"SCANNED", "RECOVERING"}
       /\ run[k].at[r.case] = r.attempt

(* No call without a tick of the clock: no completion is stamped 0.         *)
Started == \A k \in Coordinators : phase[k] # "idle" => clock # 0

(* What a stored receipt says of its attempt. *)
LedgerFacts ==
  \A r \in ledger :
    /\ r.attempt \in Folders
    /\ r.case = att[r.attempt].case
    /\ r.cand = att[r.attempt].cand
    /\ r.eng = att[r.attempt].eng
    /\ r.observed = att[r.attempt].observed
    /\ r.observed # 0
    /\ r.evidence # "none"
    /\ att[r.attempt].read = {r.cand}

(* What no step does to a folder: it keeps its request; what its completion *)
(* record says; that it has a receipt; and, once its worker has exited,     *)
(* what the worker ran and read.                                            *)
Kept ==
  \A a \in Folders :
    /\ att'[a] # NoFolder
    /\ att'[a].case = att[a].case
    /\ att'[a].cand = att[a].cand
    /\ att'[a].eng = att[a].eng
    /\ att[a].observed # 0 => att'[a].observed = att[a].observed
    /\ att[a].receipt # "none" => att'[a].receipt # "none"
    /\ att[a].worker = "exited" =>
         att'[a].worker = "exited" /\ att'[a].read = att[a].read /\ att'[a].ran = att[a].ran

(* Inputs and engine change by edits only. *)
Edited ==
  /\ engine' = engine \/ engine' = engine + 1
  /\ inputs' = inputs \/ \E c \in Cases : inputs' = [inputs EXCEPT ![c] = @ + 1]

IInv ==
  /\ TypeOK
  /\ OneCoordinator
  /\ Started
  /\ Settled
  /\ FolderFacts
  /\ \A k \in Coordinators : RunFacts(k)
  /\ LedgerFacts
  /\ FiledIsStored
  /\ CompleteIsAnalysed
  /\ Owned
-----------------------------------------------------------------------------
(* A folder has the type of a folder. *)
LEMMA FolderType ==
  ASSUME TypeOK, NEW a \in Attempts
  PROVE  a \in Folders <=> att[a] \in AttemptRecords
BY DEF TypeOK, Folders, AttemptRecords, NoFolder

(* The local variables of a call that begins, and of none. *)
LEMMA FreshType ==
  ASSUME NEW e \in Engines, NEW x \in [Cases -> Versions]
  PROVE  Fresh(e, x) \in RunRecords
BY DEF Fresh, RunRecords, RowStates

LEMMA NoRunType == NoRun \in RunRecords
<1>1. 0 \in Engines /\ 0 \in Versions
  BY BoundsAssumption DEF Engines, Versions
<1>2. [c \in Cases |-> 0] \in [Cases -> Versions]
  BY <1>1
<1> QED BY <1>1, <1>2, FreshType DEF NoRun

(* A row that gets a state and an attempt, and leaves the loop or not. *)
LEMMA RowType ==
  ASSUME NEW x \in RunRecords, NEW c \in Cases, NEW state \in RowStates,
         NEW a \in Attempts \union {NoAttempt}, NEW S \in SUBSET Cases
  PROVE  /\ [x EXCEPT !.row[c] = state, !.at[c] = a] \in RunRecords
         /\ [x EXCEPT !.row[c] = state, !.at[c] = a, !.todo = S] \in RunRecords
         /\ [x EXCEPT !.row[c] = state, !.todo = S] \in RunRecords
<1>1. [x.row EXCEPT ![c] = state] \in [Cases -> RowStates]
  BY DEF RunRecords
<1>2. [x.at EXCEPT ![c] = a] \in [Cases -> Attempts \union {NoAttempt}]
  BY DEF RunRecords
<1> QED BY <1>1, <1>2 DEF RunRecords

(* A started row has a folder of its own case. *)
LEMMA ActiveFolder ==
  ASSUME IInv, NEW k \in Coordinators, NEW c \in Cases, run[k].row[c] \in {"STARTING", "ACTIVE"}
  PROVE  run[k].at[c] \in Folders /\ run[k].at[c] \in Attempts
BY DEF IInv, RunFacts, RowFacts, Backed, Folders

(* Closing and orphaning keep the types of the folders. *)
LEMMA CloseType ==
  ASSUME TypeOK, NEW F
  PROVE  Close(F) \in [Attempts -> AttemptRecords \union {NoFolder}]
<1>1. ASSUME NEW a \in Attempts, Live(a)
      PROVE  [att[a] EXCEPT !.worker = "failed"] \in AttemptRecords
  <2>1. att[a] \in AttemptRecords
    BY <1>1, FolderType DEF Live, NoFolder, TypeOK
  <2> QED BY <2>1 DEF AttemptRecords
<1> QED BY <1>1 DEF Close, TypeOK

(* What a close() that raises leaves behind: folders as they were, or with  *)
(* their process killed, or with a process that is on its own.             *)
LEMMA CloseRaisesDoes ==
  ASSUME TypeOK, NEW k \in Coordinators, CloseRaises(k)
  PROVE  /\ \A a \in Attempts :
              \/ att'[a] = att[a]
              \/ /\ a \in ActiveFolders(k) /\ a \in Folders /\ Live(a)
                 /\ \/ att'[a] = [att[a] EXCEPT !.worker = "failed"]
                    \/ att'[a] = [att[a] EXCEPT !.stray = TRUE]
         /\ \A a \in ActiveFolders(k) \cap Attempts : Live(a) => att'[a] # att[a] \/ att[a].stray
         /\ att' \in [Attempts -> AttemptRecords \union {NoFolder}]
<1>1. PICK closed \in SUBSET ActiveFolders(k) :
        att' = [a \in Attempts |->
          IF a \in ActiveFolders(k) \ closed /\ Live(a)
          THEN [att[a] EXCEPT !.stray = TRUE] ELSE Close(closed)[a]]
  BY DEF CloseRaises
<1>2. ASSUME NEW a \in Attempts, Live(a)
      PROVE  att[a] \in AttemptRecords /\ a \in Folders
  <2>1. a \in Folders
    BY <1>2 DEF Live, Folders, NoFolder
  <2> QED BY <2>1, FolderType
<1>3. ASSUME NEW a \in Attempts
      PROVE  \/ att'[a] = att[a] /\ (a \in ActiveFolders(k) => ~Live(a))
             \/ /\ a \in ActiveFolders(k) /\ Live(a)
                /\ \/ att'[a] = [att[a] EXCEPT !.worker = "failed"]
                   \/ att'[a] = [att[a] EXCEPT !.stray = TRUE]
  BY <1>1 DEF Close
<1>4. ASSUME NEW a \in Attempts, Live(a)
      PROVE  /\ [att[a] EXCEPT !.worker = "failed"] \in AttemptRecords
             /\ [att[a] EXCEPT !.stray = TRUE] \in AttemptRecords
             /\ [att[a] EXCEPT !.worker = "failed"] # att[a]
             /\ [att[a] EXCEPT !.stray = TRUE] = att[a] => att[a].stray
  <2>1. att[a] \in AttemptRecords
    BY <1>2, <1>4
  <2>2. [att[a] EXCEPT !.worker = "failed"].worker = "failed" /\ att[a].worker # "failed"
    BY <1>4, <2>1 DEF Live, AttemptRecords
  <2>3. [att[a] EXCEPT !.stray = TRUE].stray = TRUE
    BY <2>1 DEF AttemptRecords
  <2>4. [att[a] EXCEPT !.worker = "failed"] \in AttemptRecords
    BY <2>1 DEF AttemptRecords
  <2>5. [att[a] EXCEPT !.stray = TRUE] \in AttemptRecords
    BY <2>1 DEF AttemptRecords
  <2> QED BY <2>2, <2>3, <2>4, <2>5
<1>5. \A a \in Attempts : att'[a] \in AttemptRecords \union {NoFolder}
  BY <1>3, <1>4 DEF TypeOK
<1>6. att' = [a \in Attempts |-> att'[a]]
  BY <1>1
<1>7. att' \in [Attempts -> AttemptRecords \union {NoFolder}]
  BY <1>5, <1>6
<1> QED BY <1>2, <1>3, <1>4, <1>7

(* Types. *)
LEMMA TypeStep ==
  ASSUME IInv, [Next]_vars
  PROVE  TypeOK'
<1>1. ASSUME NEW k \in Coordinators, Arrive(k)
      PROVE  TypeOK'
  BY <1>1, FreshType, BoundsAssumption DEF Arrive, IInv, TypeOK, Goto, Phases, Inside, Stamps
<1>2. ASSUME NEW k \in Coordinators, TakeLease(k)
      PROVE  TypeOK'
  BY <1>2 DEF TakeLease, IInv, TypeOK, Goto, Leave, Phases, Inside
<1>3. ASSUME NEW k \in Coordinators, LeaseRefused(k)
      PROVE  TypeOK'
  BY <1>3, NoRunType, CloseType DEF LeaseRefused, IInv, TypeOK, Goto, Leave, Phases, Inside
<1>4. ASSUME NEW k \in Coordinators, Preflight(k)
      PROVE  TypeOK'
  BY <1>4, NoRunType, CloseType DEF Preflight, IInv, TypeOK, Goto, Leave, Phases, Inside
<1>5. ASSUME NEW k \in Coordinators, EndChoose(k)
      PROVE  TypeOK'
  BY <1>5 DEF EndChoose, IInv, TypeOK, Goto, Leave, Phases, Inside
<1>6. ASSUME NEW k \in Coordinators, EndScan(k)
      PROVE  TypeOK'
  BY <1>6 DEF EndScan, IInv, TypeOK, Goto, Leave, Phases, Inside
<1>7. ASSUME NEW k \in Coordinators, Postflight(k)
      PROVE  TypeOK'
  <2>1. run[k] \in RunRecords
    BY DEF IInv, TypeOK
  <2>2. run'[k] \in RunRecords
    BY <1>7, <2>1 DEF Postflight, RunRecords, RowStates, Changed, IInv, TypeOK
  <2> QED BY <1>7, <2>2, CloseType DEF Postflight, IInv, TypeOK, Goto, Phases, Inside
<1>8. ASSUME NEW k \in Coordinators, Report(k)
      PROVE  TypeOK'
  <2>1. [sel |-> run[k].sel, eng |-> run[k].eng, complete |-> Rows(k, Done) = Cases] \in ReportRecords
    BY DEF IInv, TypeOK, RunRecords, ReportRecords
  <2> QED BY <1>8, <2>1, NoRunType DEF Report, IInv, TypeOK, Goto, Leave, Phases, Inside
<1>9. ASSUME NEW k \in Coordinators, Raise(k)
      PROVE  TypeOK'
  BY <1>9, NoRunType, CloseType DEF Raise, IInv, TypeOK, Goto, Leave, Phases, Inside
<1>10. ASSUME NEW k \in Coordinators, Crash(k)
      PROVE  TypeOK'
  <2>1. ASSUME NEW a \in StartedFolders(k)
        PROVE  [att[a] EXCEPT !.orphan = TRUE] \in AttemptRecords
    <3>1. a \in Attempts /\ att[a] \in AttemptRecords
      BY ActiveFolder, FolderType DEF StartedFolders, Rows, IInv
    <3> QED BY <3>1 DEF AttemptRecords
  <2> QED BY <1>10, <2>1, NoRunType DEF Crash, IInv, TypeOK, Goto, Leave, Phases, Inside
<1>11. ASSUME NEW k \in Coordinators, NEW c \in Cases, Choose(k, c)
      PROVE  TypeOK'
  <2>1. ASSUME NEW state \in {"REUSED", "RECOVERING", "QUEUED"},
               NEW a \in Attempts \union {NoAttempt}, Row(k, c, state, a)
        PROVE  run' \in [Coordinators -> RunRecords]
    <3>0. run[k] \in RunRecords /\ run[k].todo \ {c} \in SUBSET Cases /\ state \in RowStates
      BY DEF IInv, TypeOK, RunRecords, RowStates
    <3>2. [run[k] EXCEPT !.row[c] = state, !.at[c] = a, !.todo = run[k].todo \ {c}] \in RunRecords
      BY <3>0, RowType
    <3>1. run'[k] \in RunRecords
      BY <2>1, <3>2 DEF Row, IInv, TypeOK
    <3> QED BY <2>1, <3>1 DEF Row, IInv, TypeOK
  <2>2. run' \in [Coordinators -> RunRecords]
    BY <1>11, <2>1 DEF Choose, Reusable, Recoverable, Bucket, Folders
  <2>3. ASSUME NEW a \in Attempts, a \in Drifted(k, c)
        PROVE  [att[a] EXCEPT !.noticed = TRUE] \in AttemptRecords
    <3>1. att[a] \in AttemptRecords
      BY <2>3, FolderType DEF Drifted, Bucket, IInv
    <3> QED BY <3>1 DEF AttemptRecords
  <2>4. att' \in [Attempts -> AttemptRecords \union {NoFolder}]
    BY <1>11, <2>3 DEF Choose, IInv, TypeOK
  <2> QED BY <1>11, <2>2, <2>4 DEF Choose, IInv, TypeOK
<1>12. ASSUME NEW k \in Coordinators, NEW c \in Cases, Launch(k, c)
      PROVE  TypeOK'
  <2>1. PICK a \in Attempts \ Folders :
          /\ att' = [att EXCEPT ![a] =
               [case |-> c, cand |-> run[k].sel[c], eng |-> run[k].eng,
                worker |-> "waiting", gate |-> FALSE, orphan |-> FALSE, stray |-> FALSE,
                ran |-> {engine}, read |-> {}, bytes |-> "none", observed |-> 0,
                invalid |-> FALSE, receipt |-> "none", noticed |-> FALSE]]
          /\ run' = [run EXCEPT ![k].row[c] = "STARTING", ![k].at[c] = a]
    BY <1>12 DEF Launch
  <2>2. run[k].sel[c] \in Versions /\ run[k].eng \in Engines /\ engine \in Engines
    BY DEF IInv, TypeOK, RunRecords
  <2>3. 0 \in Stamps
    BY BoundsAssumption DEF Stamps
  <2>4. att'[a] \in AttemptRecords
    BY <2>1, <2>2, <2>3 DEF AttemptRecords, Bytes, IInv, TypeOK
  <2>5. run'[k] \in RunRecords
    <3>1. run[k] \in RunRecords /\ "STARTING" \in RowStates
      BY DEF IInv, TypeOK, RowStates
    <3>2. [run[k] EXCEPT !.row[c] = "STARTING", !.at[c] = a] \in RunRecords
      BY <2>1, <3>1, RowType
    <3> QED BY <2>1, <3>2 DEF IInv, TypeOK
  <2> QED BY <1>12, <2>1, <2>4, <2>5 DEF Launch, IInv, TypeOK
<1>13. ASSUME NEW k \in Coordinators, NEW c \in Cases, OpenGate(k, c)
      PROVE  TypeOK'
  <2> DEFINE a == run[k].at[c]
  <2>1. a \in Attempts /\ att[a] \in AttemptRecords
    BY <1>13, ActiveFolder, FolderType DEF OpenGate, IInv
  <2>2. att'[a] \in AttemptRecords
    BY <1>13, <2>1 DEF OpenGate, AttemptRecords, IInv, TypeOK
  <2> QED BY <1>13, <2>2 DEF OpenGate, IInv, TypeOK
<1>14. ASSUME NEW k \in Coordinators, NEW c \in Cases, PollScanned(k, c)
      PROVE  TypeOK'
  <2> DEFINE a == run[k].at[c]
  <2>1. a \in Attempts /\ att[a] \in AttemptRecords
    BY <1>14, ActiveFolder, FolderType DEF PollScanned, IInv
  <2>2. att'[a] \in AttemptRecords
    BY <1>14, <2>1 DEF PollScanned, AttemptRecords, IInv, TypeOK
  <2>3. run[k] \in RunRecords
    BY DEF IInv, TypeOK
  <2>4. run'[k] \in RunRecords
    BY <1>14, <2>3 DEF PollScanned, RunRecords, RowStates, IInv, TypeOK
  <2> QED BY <1>14, <2>2, <2>4 DEF PollScanned, IInv, TypeOK
<1>15. ASSUME NEW k \in Coordinators, NEW c \in Cases, PollFailed(k, c)
      PROVE  TypeOK'
  <2>1. run[k] \in RunRecords
    BY DEF IInv, TypeOK
  <2>2. run'[k] \in RunRecords
    BY <1>15, <2>1 DEF PollFailed, RunRecords, RowStates, Changed, IInv, TypeOK
  <2> QED BY <1>15, <2>2, CloseType DEF PollFailed, IInv, TypeOK, Goto, Phases, Inside
<1>16. ASSUME NEW k \in Coordinators, NEW c \in Cases, PollTimeout(k, c)
      PROVE  TypeOK'
  <2>1. run[k] \in RunRecords
    BY DEF IInv, TypeOK
  <2>2. run'[k] \in RunRecords
    BY <1>16, <2>1 DEF PollTimeout, RunRecords, RowStates, Changed, IInv, TypeOK
  <2> QED BY <1>16, <2>2, CloseType DEF PollTimeout, IInv, TypeOK, Goto, Phases, Inside
<1>17. ASSUME NEW k \in Coordinators, NEW c \in Cases, CheckRow(k, c)
      PROVE  TypeOK'
  <2> DEFINE a == run[k].at[c]
  <2>1. ASSUME run[k].row[c] \in WithArtifacts
        PROVE  a \in Attempts /\ att[a] \in AttemptRecords
    BY <2>1, FolderType DEF IInv, RunFacts, RowFacts, Backed, Folders
  <2>2. att' \in [Attempts -> AttemptRecords \union {NoFolder}]
    <3>1. CASE att' = att
      BY <3>1 DEF IInv, TypeOK
    <3>2. CASE run[k].row[c] \in WithArtifacts /\ att' = [att EXCEPT ![a].invalid = TRUE]
      <4>1. [att[a] EXCEPT !.invalid = TRUE] \in AttemptRecords
        BY <2>1, <3>2 DEF AttemptRecords
      <4> QED BY <3>2, <4>1 DEF IInv, TypeOK
    <3> QED BY <1>17, <3>1, <3>2 DEF CheckRow
  <2>3. run[k] \in RunRecords
    BY DEF IInv, TypeOK
  <2>4. \/ run' = [run EXCEPT ![k].row[c] = "STALE", ![k].todo = @ \ {c}]
        \/ run' = [run EXCEPT ![k].todo = @ \ {c},
             ![k].cleared = IF run[k].row[c] \in {"SCANNED", "RECOVERING"} THEN {c} ELSE {}]
    BY <1>17 DEF CheckRow
  <2>5. run'[k] \in RunRecords
    <3>1. "STALE" \in RowStates
      BY DEF RowStates
    <3>2. CASE run' = [run EXCEPT ![k].row[c] = "STALE", ![k].todo = @ \ {c}]
      <4>1. run[k].todo \ {c} \in SUBSET Cases
        BY <2>3 DEF RunRecords
      <4>2. [run[k] EXCEPT !.row[c] = "STALE", !.todo = run[k].todo \ {c}] \in RunRecords
        <5>1. [run[k].row EXCEPT ![c] = "STALE"] \in [Cases -> RowStates]
          BY <2>3, <3>1 DEF RunRecords
        <5> QED BY <2>3, <4>1, <5>1 DEF RunRecords
      <4> QED BY <3>2, <4>2 DEF IInv, TypeOK
    <3>3. CASE run' = [run EXCEPT ![k].todo = @ \ {c},
             ![k].cleared = IF run[k].row[c] \in {"SCANNED", "RECOVERING"} THEN {c} ELSE {}]
      BY <2>3, <3>3 DEF RunRecords, IInv, TypeOK
    <3> QED BY <2>4, <3>2, <3>3
  <2>6. run' = [run EXCEPT ![k] = run'[k]]
    BY <2>4 DEF IInv, TypeOK
  <2> QED BY <1>17, <2>2, <2>5, <2>6 DEF CheckRow, IInv, TypeOK
<1>18. ASSUME NEW k \in Coordinators, NEW c \in Cases, StoreReceipt(k, c)
      PROVE  TypeOK'
  <2> DEFINE a == run[k].at[c]
  <2>1. a \in Attempts /\ att[a] \in AttemptRecords
    BY <1>18, FolderType DEF StoreReceipt, IInv, RunFacts, RowFacts, Backed, WithArtifacts, Folders
  <2>2. Receipt(a) \in ReceiptRecords
    BY <2>1 DEF Receipt, ReceiptRecords, AttemptRecords
  <2>3. run[k] \in RunRecords
    BY DEF IInv, TypeOK
  <2>4. [run[k] EXCEPT !.cleared = {}, !.stored = {Receipt(a)}] \in RunRecords
    BY <2>2, <2>3 DEF RunRecords
  <2>5. run' = [run EXCEPT ![k] = [run[k] EXCEPT !.cleared = {}, !.stored = {Receipt(a)}]]
    BY <1>18 DEF StoreReceipt, IInv, TypeOK
  <2> QED BY <1>18, <2>2, <2>4, <2>5 DEF StoreReceipt, IInv, TypeOK
<1>19. ASSUME NEW k \in Coordinators, NEW r \in run[k].stored, FileReceipt(k, r)
      PROVE  TypeOK'
  <2>1. r \in ReceiptRecords
    BY DEF IInv, TypeOK, RunRecords
  <2>2. r.attempt \in Attempts /\ r.case \in Cases
    BY <2>1 DEF ReceiptRecords
  <2>3. att[r.attempt] \in AttemptRecords
    BY <2>2, FolderType DEF IInv, RunFacts, LedgerFacts
  <2>4. [att[r.attempt] EXCEPT !.receipt = r.evidence] \in AttemptRecords
    BY <2>1, <2>3 DEF AttemptRecords, ReceiptRecords
  <2>5. run'[k] \in RunRecords
    <3> DEFINE state == IF run[k].row[r.case] = "RECOVERING" THEN "RECOVERED" ELSE "ANALYZED"
    <3>1. run[k] \in RunRecords /\ state \in RowStates
      BY DEF IInv, TypeOK, RowStates
    <3>2. run'[k] = [run[k] EXCEPT !.stored = {}, !.row = [run[k].row EXCEPT ![r.case] = state]]
      BY <1>19 DEF FileReceipt, IInv, TypeOK
    <3>3. [run[k].row EXCEPT ![r.case] = state] \in [Cases -> RowStates]
      BY <2>2, <3>1 DEF RunRecords
    <3> HIDE DEF state
    <3> QED BY <3>1, <3>2, <3>3 DEF RunRecords
  <2> QED BY <1>19, <2>2, <2>4, <2>5 DEF FileReceipt, IInv, TypeOK
<1>20. ASSUME NEW k \in Coordinators, NEW reason \in {"CANCELLED", "MEMORY_STOP"}, Stop(k, reason)
      PROVE  TypeOK'
  <2>1. run[k] \in RunRecords
    BY DEF IInv, TypeOK
  <2>2. run'[k] \in RunRecords
    BY <1>20, <2>1 DEF Stop, RunRecords, RowStates, Changed, IInv, TypeOK
  <2> QED BY <1>20, <2>2, CloseType DEF Stop, IInv, TypeOK, Goto, Phases, Inside
<1>21. ASSUME NEW a \in Attempts, WorkerStart(a)
      PROVE  TypeOK'
  <2>1. a \in Folders
    BY <1>21 DEF WorkerStart, Live, Folders, NoFolder
  <2>2. att[a] \in AttemptRecords
    BY <2>1, FolderType DEF IInv
  <2>3. att'[a] \in AttemptRecords
    <3>1. engine \in Engines /\ (att[a].case \in Cases => inputs[att[a].case] \in Versions)
      BY DEF IInv, TypeOK
    <3> QED BY <1>21, <2>2, <3>1 DEF WorkerStart, AttemptRecords, Bytes, IInv, TypeOK
  <2> QED BY <1>21, <2>3 DEF WorkerStart, IInv, TypeOK
<1>22. ASSUME NEW a \in Attempts, WorkerReads(a)
      PROVE  TypeOK'
  <2>1. a \in Folders
    BY <1>22 DEF WorkerReads, Live, Folders, NoFolder
  <2>2. att[a] \in AttemptRecords
    BY <2>1, FolderType DEF IInv
  <2>3. att'[a] \in AttemptRecords
    <3>1. engine \in Engines /\ (att[a].case \in Cases => inputs[att[a].case] \in Versions)
      BY DEF IInv, TypeOK
    <3> QED BY <1>22, <2>2, <3>1 DEF WorkerReads, AttemptRecords, Bytes, IInv, TypeOK
  <2> QED BY <1>22, <2>3 DEF WorkerReads, IInv, TypeOK
<1>23. ASSUME NEW a \in Attempts, WorkerWrites(a)
      PROVE  TypeOK'
  <2>1. a \in Folders
    BY <1>23 DEF WorkerWrites, Live, Folders, NoFolder
  <2>2. att[a] \in AttemptRecords
    BY <2>1, FolderType DEF IInv
  <2>3. att'[a] \in AttemptRecords
    <3>1. engine \in Engines /\ (att[a].case \in Cases => inputs[att[a].case] \in Versions)
      BY DEF IInv, TypeOK
    <3> QED BY <1>23, <2>2, <3>1 DEF WorkerWrites, AttemptRecords, Bytes, IInv, TypeOK
  <2> QED BY <1>23, <2>3 DEF WorkerWrites, IInv, TypeOK
<1>24. ASSUME NEW a \in Attempts, WorkerFails(a)
      PROVE  TypeOK'
  <2>1. a \in Folders
    BY <1>24 DEF WorkerFails, Live, Folders, NoFolder
  <2>2. att[a] \in AttemptRecords
    BY <2>1, FolderType DEF IInv
  <2>3. att'[a] \in AttemptRecords
    <3>1. engine \in Engines /\ (att[a].case \in Cases => inputs[att[a].case] \in Versions)
      BY DEF IInv, TypeOK
    <3> QED BY <1>24, <2>2, <3>1 DEF WorkerFails, AttemptRecords, Bytes, IInv, TypeOK
  <2> QED BY <1>24, <2>3 DEF WorkerFails, IInv, TypeOK
<1>25. ASSUME NEW a \in Attempts, Alter(a)
      PROVE  TypeOK'
  <2>1. a \in Folders
    BY <1>25 DEF Alter, Live, Folders, NoFolder
  <2>2. att[a] \in AttemptRecords
    BY <2>1, FolderType DEF IInv
  <2>3. att'[a] \in AttemptRecords
    <3>1. engine \in Engines /\ (att[a].case \in Cases => inputs[att[a].case] \in Versions)
      BY DEF IInv, TypeOK
    <3> QED BY <1>25, <2>2, <3>1 DEF Alter, AttemptRecords, Bytes, IInv, TypeOK
  <2> QED BY <1>25, <2>3 DEF Alter, IInv, TypeOK
<1>26. ASSUME NEW c \in Cases, EditInputs(c)
      PROVE  TypeOK'
  <2>1. inputs[c] + 1 \in Versions
    BY <1>26, BoundsAssumption DEF EditInputs, IInv, TypeOK, Versions
  <2> QED BY <1>26, <2>1 DEF EditInputs, IInv, TypeOK
<1>27. ASSUME EditEngine
      PROVE  TypeOK'
  BY <1>27, BoundsAssumption DEF EditEngine, IInv, TypeOK, Engines
<1>28. CASE UNCHANGED vars
  BY <1>28 DEF vars, IInv, TypeOK
<1>29. ASSUME NEW k \in Coordinators, NEW c \in Cases, Register(k, c)
      PROVE  TypeOK'
  <2>1. run[k] \in RunRecords
    BY DEF IInv, TypeOK
  <2>2. run'[k] \in RunRecords
    BY <1>29, <2>1 DEF Register, RunRecords, RowStates, IInv, TypeOK
  <2> QED BY <1>29, <2>2 DEF Register, IInv, TypeOK
<1>30. ASSUME NEW k \in Coordinators, CloseRaises(k)
      PROVE  TypeOK'
  BY <1>30, NoRunType, CloseRaisesDoes DEF CloseRaises, IInv, TypeOK, Goto, Leave, Phases, Inside
<1>31. ASSUME NEW a \in Attempts, WorkerExits(a)
      PROVE  TypeOK'
  <2>1. a \in Folders
    BY <1>31 DEF WorkerExits, Live, Folders, NoFolder
  <2>2. att[a] \in AttemptRecords
    BY <2>1, FolderType DEF IInv
  <2>3. att'[a] \in AttemptRecords
    <3>1. engine \in Engines /\ (att[a].case \in Cases => inputs[att[a].case] \in Versions)
      BY DEF IInv, TypeOK
    <3> QED BY <1>31, <2>2, <3>1 DEF WorkerExits, AttemptRecords, Bytes, IInv, TypeOK
  <2> QED BY <1>31, <2>3 DEF WorkerExits, IInv, TypeOK
<1> QED
  BY <1>1, <1>2, <1>3, <1>4, <1>5, <1>6, <1>7, <1>8, <1>9, <1>10, <1>11, <1>12, <1>13, <1>14, <1>15, <1>16, <1>17, <1>18, <1>19, <1>20, <1>21, <1>22, <1>23, <1>24, <1>25, <1>26, <1>27, <1>28, <1>29, <1>30, <1>31
     DEF Next, Step, Interruption, Worker, World

(* No step takes anything of that from a folder. *)
LEMMA KeptStep ==
  ASSUME IInv, [Next]_vars
  PROVE  Kept
<1>1. ASSUME NEW k \in Coordinators, Arrive(k)
      PROVE  Kept
  BY <1>1 DEF Arrive, Kept, Folders
<1>2. ASSUME NEW k \in Coordinators, TakeLease(k)
      PROVE  Kept
  BY <1>2 DEF TakeLease, Kept, Folders
<1>3. ASSUME NEW k \in Coordinators, LeaseRefused(k)
      PROVE  Kept
  BY <1>3 DEF LeaseRefused, Kept, Folders
<1>4. ASSUME NEW k \in Coordinators, Preflight(k)
      PROVE  Kept
  BY <1>4 DEF Preflight, Kept, Folders
<1>5. ASSUME NEW k \in Coordinators, EndChoose(k)
      PROVE  Kept
  BY <1>5 DEF EndChoose, Kept, Folders
<1>6. ASSUME NEW k \in Coordinators, EndScan(k)
      PROVE  Kept
  BY <1>6 DEF EndScan, Kept, Folders
<1>7. ASSUME NEW k \in Coordinators, Postflight(k)
      PROVE  Kept
  BY <1>7 DEF Postflight, Kept, Folders
<1>8. ASSUME NEW k \in Coordinators, Report(k)
      PROVE  Kept
  BY <1>8 DEF Report, Kept, Folders
<1>9. ASSUME NEW k \in Coordinators, Raise(k)
      PROVE  Kept
  <2>1. \A a \in Folders : att[a] \in AttemptRecords
    BY FolderType DEF IInv, Folders
  <2> QED BY <1>9, <2>1 DEF Raise, Kept, Folders, NoFolder, AttemptRecords, IInv, TypeOK, Close, Live
<1>10. ASSUME NEW k \in Coordinators, Crash(k)
      PROVE  Kept
  <2>1. \A a \in Folders : att[a] \in AttemptRecords
    BY FolderType DEF IInv, Folders
  <2> QED BY <1>10, <2>1 DEF Crash, Kept, Folders, NoFolder, AttemptRecords, IInv, TypeOK
<1>11. ASSUME NEW k \in Coordinators, NEW c \in Cases, Choose(k, c)
      PROVE  Kept
  <2>1. \A a \in Folders : att[a] \in AttemptRecords
    BY FolderType DEF IInv, Folders
  <2> QED BY <1>11, <2>1 DEF Choose, Kept, Folders, NoFolder, AttemptRecords, IInv, TypeOK
<1>12. ASSUME NEW k \in Coordinators, NEW c \in Cases, Launch(k, c)
      PROVE  Kept
  <2>1. \A a \in Folders : att[a] \in AttemptRecords
    BY FolderType DEF IInv, Folders
  <2> QED BY <1>12, <2>1 DEF Launch, Kept, Folders, NoFolder, AttemptRecords, IInv, TypeOK
<1>13. ASSUME NEW k \in Coordinators, NEW c \in Cases, OpenGate(k, c)
      PROVE  Kept
  <2>1. \A a \in Folders : att[a] \in AttemptRecords
    BY FolderType DEF IInv, Folders
  <2> QED BY <1>13, <2>1 DEF OpenGate, Kept, Folders, NoFolder, AttemptRecords, IInv, TypeOK
<1>14. ASSUME NEW k \in Coordinators, NEW c \in Cases, PollScanned(k, c)
      PROVE  Kept
  <2>1. att[run[k].at[c]].observed = 0
    BY <1>14 DEF PollScanned, IInv, RunFacts, RowFacts
  <2>2. \A a \in Folders : att[a] \in AttemptRecords
    BY FolderType DEF IInv, Folders
  <2> QED BY <1>14, <2>1, <2>2 DEF PollScanned, Kept, Folders, NoFolder, AttemptRecords, IInv, TypeOK
<1>15. ASSUME NEW k \in Coordinators, NEW c \in Cases, PollFailed(k, c)
      PROVE  Kept
  BY <1>15 DEF PollFailed, Kept, Folders
<1>16. ASSUME NEW k \in Coordinators, NEW c \in Cases, PollTimeout(k, c)
      PROVE  Kept
  <2>1. \A b \in Folders : att[b] \in AttemptRecords
    BY FolderType DEF IInv, Folders
  <2> QED BY <1>16, <2>1 DEF PollTimeout, Kept, Folders, NoFolder, AttemptRecords, IInv, TypeOK, Close, Live
<1>17. ASSUME NEW k \in Coordinators, NEW c \in Cases, CheckRow(k, c)
      PROVE  Kept
  <2>1. \A b \in Folders : att[b] \in AttemptRecords
    BY FolderType DEF IInv, Folders
  <2> QED BY <1>17, <2>1 DEF CheckRow, Kept, Folders, NoFolder, AttemptRecords, IInv, TypeOK
<1>18. ASSUME NEW k \in Coordinators, NEW c \in Cases, StoreReceipt(k, c)
      PROVE  Kept
  BY <1>18 DEF StoreReceipt, Kept, Folders
<1>19. ASSUME NEW k \in Coordinators, NEW r \in run[k].stored, FileReceipt(k, r)
      PROVE  Kept
  <2>1. \A b \in Folders : att[b] \in AttemptRecords
    BY FolderType DEF IInv, Folders
  <2>2. r.evidence # "none"
    BY DEF IInv, RunFacts, LedgerFacts
  <2> QED BY <1>19, <2>1, <2>2 DEF FileReceipt, Kept, Folders, NoFolder, AttemptRecords, IInv, TypeOK
<1>20. ASSUME NEW k \in Coordinators, NEW reason \in {"CANCELLED", "MEMORY_STOP"}, Stop(k, reason)
      PROVE  Kept
  <2>1. \A b \in Folders : att[b] \in AttemptRecords
    BY FolderType DEF IInv, Folders
  <2> QED BY <1>20, <2>1 DEF Stop, Kept, Folders, NoFolder, AttemptRecords, IInv, TypeOK, Close, Live
<1>21. ASSUME NEW a \in Attempts, WorkerStart(a)
      PROVE  Kept
  <2>1. \A b \in Folders : att[b] \in AttemptRecords
    BY FolderType DEF IInv, Folders
  <2> QED BY <1>21, <2>1 DEF WorkerStart, Kept, Folders, NoFolder, AttemptRecords, IInv, TypeOK, Live
<1>22. ASSUME NEW a \in Attempts, WorkerReads(a)
      PROVE  Kept
  <2>1. \A b \in Folders : att[b] \in AttemptRecords
    BY FolderType DEF IInv, Folders
  <2> QED BY <1>22, <2>1 DEF WorkerReads, Kept, Folders, NoFolder, AttemptRecords, IInv, TypeOK, Live
<1>23. ASSUME NEW a \in Attempts, WorkerWrites(a)
      PROVE  Kept
  <2>1. \A b \in Folders : att[b] \in AttemptRecords
    BY FolderType DEF IInv, Folders
  <2> QED BY <1>23, <2>1 DEF WorkerWrites, Kept, Folders, NoFolder, AttemptRecords, IInv, TypeOK, Live
<1>24. ASSUME NEW a \in Attempts, WorkerFails(a)
      PROVE  Kept
  <2>1. \A b \in Folders : att[b] \in AttemptRecords
    BY FolderType DEF IInv, Folders
  <2> QED BY <1>24, <2>1 DEF WorkerFails, Kept, Folders, NoFolder, AttemptRecords, IInv, TypeOK, Live
<1>25. ASSUME NEW a \in Attempts, Alter(a)
      PROVE  Kept
  <2>1. \A b \in Folders : att[b] \in AttemptRecords
    BY FolderType DEF IInv, Folders
  <2> QED BY <1>25, <2>1 DEF Alter, Kept, Folders, NoFolder, AttemptRecords, IInv, TypeOK, Live
<1>26. ASSUME NEW c \in Cases, EditInputs(c)
      PROVE  Kept
  BY <1>26 DEF EditInputs, Kept, Folders
<1>27. ASSUME EditEngine
      PROVE  Kept
  BY <1>27 DEF EditEngine, Kept, Folders
<1>28. CASE UNCHANGED vars
  BY <1>28 DEF vars, Kept, Folders
<1>29. ASSUME NEW k \in Coordinators, NEW c \in Cases, Register(k, c)
      PROVE  Kept
  BY <1>29 DEF Register, Kept, Folders
<1>30. ASSUME NEW k \in Coordinators, CloseRaises(k)
      PROVE  Kept
  <2>1. \A a \in Folders : att[a] \in AttemptRecords
    BY FolderType DEF IInv, Folders
  <2>2. ASSUME NEW a \in Folders
        PROVE  /\ att'[a] # NoFolder
               /\ att'[a].case = att[a].case /\ att'[a].cand = att[a].cand
               /\ att'[a].eng = att[a].eng /\ att'[a].observed = att[a].observed
               /\ att'[a].receipt = att[a].receipt
               /\ att[a].worker = "exited" => att'[a].worker = "exited"
               /\ att'[a].read = att[a].read /\ att'[a].ran = att[a].ran
    <3>1. CASE att'[a] = att[a]
      BY <2>2, <3>1 DEF Folders
    <3>2. CASE Live(a) /\ att'[a] = [att[a] EXCEPT !.worker = "failed"]
      BY <2>1, <2>2, <3>2 DEF AttemptRecords, NoFolder, Live
    <3>3. CASE Live(a) /\ att'[a] = [att[a] EXCEPT !.stray = TRUE]
      BY <2>1, <2>2, <3>3 DEF AttemptRecords, NoFolder, Live
    <3> QED BY <1>30, <2>2, <3>1, <3>2, <3>3, CloseRaisesDoes DEF IInv, Folders
  <2> QED BY <2>2 DEF Kept
<1>31. ASSUME NEW a \in Attempts, WorkerExits(a)
      PROVE  Kept
  <2>1. \A b \in Folders : att[b] \in AttemptRecords
    BY FolderType DEF IInv, Folders
  <2> QED BY <1>31, <2>1 DEF WorkerExits, Kept, Folders, NoFolder, AttemptRecords, IInv, TypeOK, Live
<1> QED
  BY <1>1, <1>2, <1>3, <1>4, <1>5, <1>6, <1>7, <1>8, <1>9, <1>10, <1>11, <1>12, <1>13, <1>14, <1>15, <1>16, <1>17, <1>18, <1>19, <1>20, <1>21, <1>22, <1>23, <1>24, <1>25, <1>26, <1>27, <1>28, <1>29, <1>30, <1>31
     DEF Next, Step, Interruption, Worker, World

(* Edits are the only changes of inputs and engine. *)
LEMMA EditStep ==
  ASSUME IInv, [Next]_vars
  PROVE  Edited
<1>1. ASSUME NEW k \in Coordinators, Arrive(k)
      PROVE  Edited
  BY <1>1 DEF Arrive, Edited
<1>2. ASSUME NEW k \in Coordinators, TakeLease(k)
      PROVE  Edited
  BY <1>2 DEF TakeLease, Edited
<1>3. ASSUME NEW k \in Coordinators, LeaseRefused(k)
      PROVE  Edited
  BY <1>3 DEF LeaseRefused, Edited
<1>4. ASSUME NEW k \in Coordinators, Preflight(k)
      PROVE  Edited
  BY <1>4 DEF Preflight, Edited
<1>5. ASSUME NEW k \in Coordinators, EndChoose(k)
      PROVE  Edited
  BY <1>5 DEF EndChoose, Edited
<1>6. ASSUME NEW k \in Coordinators, EndScan(k)
      PROVE  Edited
  BY <1>6 DEF EndScan, Edited
<1>7. ASSUME NEW k \in Coordinators, Postflight(k)
      PROVE  Edited
  BY <1>7 DEF Postflight, Edited
<1>8. ASSUME NEW k \in Coordinators, Report(k)
      PROVE  Edited
  BY <1>8 DEF Report, Edited
<1>9. ASSUME NEW k \in Coordinators, Raise(k)
      PROVE  Edited
  BY <1>9 DEF Raise, Edited
<1>10. ASSUME NEW k \in Coordinators, Crash(k)
      PROVE  Edited
  BY <1>10 DEF Crash, Edited
<1>11. ASSUME NEW k \in Coordinators, NEW c \in Cases, Choose(k, c)
      PROVE  Edited
  BY <1>11 DEF Choose, Edited
<1>12. ASSUME NEW k \in Coordinators, NEW c \in Cases, Launch(k, c)
      PROVE  Edited
  BY <1>12 DEF Launch, Edited
<1>13. ASSUME NEW k \in Coordinators, NEW c \in Cases, OpenGate(k, c)
      PROVE  Edited
  BY <1>13 DEF OpenGate, Edited
<1>14. ASSUME NEW k \in Coordinators, NEW c \in Cases, PollScanned(k, c)
      PROVE  Edited
  BY <1>14 DEF PollScanned, Edited
<1>15. ASSUME NEW k \in Coordinators, NEW c \in Cases, PollFailed(k, c)
      PROVE  Edited
  BY <1>15 DEF PollFailed, Edited
<1>16. ASSUME NEW k \in Coordinators, NEW c \in Cases, PollTimeout(k, c)
      PROVE  Edited
  BY <1>16 DEF PollTimeout, Edited
<1>17. ASSUME NEW k \in Coordinators, NEW c \in Cases, CheckRow(k, c)
      PROVE  Edited
  BY <1>17 DEF CheckRow, Edited
<1>18. ASSUME NEW k \in Coordinators, NEW c \in Cases, StoreReceipt(k, c)
      PROVE  Edited
  BY <1>18 DEF StoreReceipt, Edited
<1>19. ASSUME NEW k \in Coordinators, NEW r \in run[k].stored, FileReceipt(k, r)
      PROVE  Edited
  BY <1>19 DEF FileReceipt, Edited
<1>20. ASSUME NEW k \in Coordinators, NEW reason \in {"CANCELLED", "MEMORY_STOP"}, Stop(k, reason)
      PROVE  Edited
  BY <1>20 DEF Stop, Edited
<1>21. ASSUME NEW a \in Attempts, WorkerStart(a)
      PROVE  Edited
  BY <1>21 DEF WorkerStart, Edited
<1>22. ASSUME NEW a \in Attempts, WorkerReads(a)
      PROVE  Edited
  BY <1>22 DEF WorkerReads, Edited
<1>23. ASSUME NEW a \in Attempts, WorkerWrites(a)
      PROVE  Edited
  BY <1>23 DEF WorkerWrites, Edited
<1>24. ASSUME NEW a \in Attempts, WorkerFails(a)
      PROVE  Edited
  BY <1>24 DEF WorkerFails, Edited
<1>25. ASSUME NEW a \in Attempts, Alter(a)
      PROVE  Edited
  BY <1>25 DEF Alter, Edited
<1>26. ASSUME NEW c \in Cases, EditInputs(c)
      PROVE  Edited
  BY <1>26 DEF EditInputs, Edited
<1>27. ASSUME EditEngine
      PROVE  Edited
  BY <1>27 DEF EditEngine, Edited
<1>28. CASE UNCHANGED vars
  BY <1>28 DEF vars, Edited
<1>29. ASSUME NEW k \in Coordinators, NEW c \in Cases, Register(k, c)
      PROVE  Edited
  BY <1>29 DEF Register, Edited
<1>30. ASSUME NEW k \in Coordinators, CloseRaises(k)
      PROVE  Edited
  BY <1>30 DEF CloseRaises, Edited
<1>31. ASSUME NEW a \in Attempts, WorkerExits(a)
      PROVE  Edited
  BY <1>31 DEF WorkerExits, Edited
<1> QED
  BY <1>1, <1>2, <1>3, <1>4, <1>5, <1>6, <1>7, <1>8, <1>9, <1>10, <1>11, <1>12, <1>13, <1>14, <1>15, <1>16, <1>17, <1>18, <1>19, <1>20, <1>21, <1>22, <1>23, <1>24, <1>25, <1>26, <1>27, <1>28, <1>29, <1>30, <1>31
     DEF Next, Step, Interruption, Worker, World

(* Inputs and engine only grow. *)
LEMMA Grow ==
  ASSUME IInv, [Next]_vars
  PROVE  /\ engine \in Nat /\ engine' \in Nat /\ engine <= engine'
         /\ \A c \in Cases : inputs[c] \in Nat /\ inputs'[c] \in Nat /\ inputs[c] <= inputs'[c]
<1>1. TypeOK /\ TypeOK'
  BY TypeStep DEF IInv
<1>2. engine \in Nat /\ engine' \in Nat
  BY <1>1, BoundsAssumption DEF TypeOK, Engines
<1>3. \A c \in Cases : inputs[c] \in Nat /\ inputs'[c] \in Nat
  BY <1>1, BoundsAssumption DEF TypeOK, Versions
<1>4. Edited
  BY EditStep
<1>5. \A c \in Cases : inputs[c] <= inputs'[c]
  BY <1>1, <1>3, <1>4 DEF TypeOK, Edited
<1> QED BY <1>2, <1>3, <1>4, <1>5 DEF Edited

(* The kernel lock: nobody gets in while somebody is in. *)
LEMMA LeaseStep ==
  ASSUME IInv, [Next]_vars
  PROVE  OneCoordinator'
<1>1. ASSUME NEW k \in Coordinators, Arrive(k)
      PROVE  OneCoordinator'
  BY <1>1, NobodyAssumption DEF Arrive, IInv, TypeOK, OneCoordinator, Goto, Leave, Phases, Inside
<1>2. ASSUME NEW k \in Coordinators, TakeLease(k)
      PROVE  OneCoordinator'
  BY <1>2, NobodyAssumption DEF TakeLease, IInv, TypeOK, OneCoordinator, Goto, Leave, Phases, Inside
<1>3. ASSUME NEW k \in Coordinators, LeaseRefused(k)
      PROVE  OneCoordinator'
  BY <1>3, NobodyAssumption DEF LeaseRefused, IInv, TypeOK, OneCoordinator, Goto, Leave, Phases, Inside
<1>4. ASSUME NEW k \in Coordinators, Preflight(k)
      PROVE  OneCoordinator'
  BY <1>4, NobodyAssumption DEF Preflight, IInv, TypeOK, OneCoordinator, Goto, Leave, Phases, Inside
<1>5. ASSUME NEW k \in Coordinators, EndChoose(k)
      PROVE  OneCoordinator'
  BY <1>5, NobodyAssumption DEF EndChoose, IInv, TypeOK, OneCoordinator, Goto, Leave, Phases, Inside
<1>6. ASSUME NEW k \in Coordinators, EndScan(k)
      PROVE  OneCoordinator'
  BY <1>6, NobodyAssumption DEF EndScan, IInv, TypeOK, OneCoordinator, Goto, Leave, Phases, Inside
<1>7. ASSUME NEW k \in Coordinators, Postflight(k)
      PROVE  OneCoordinator'
  BY <1>7, NobodyAssumption DEF Postflight, IInv, TypeOK, OneCoordinator, Goto, Leave, Phases, Inside
<1>8. ASSUME NEW k \in Coordinators, Report(k)
      PROVE  OneCoordinator'
  BY <1>8, NobodyAssumption DEF Report, IInv, TypeOK, OneCoordinator, Goto, Leave, Phases, Inside
<1>9. ASSUME NEW k \in Coordinators, Raise(k)
      PROVE  OneCoordinator'
  BY <1>9, NobodyAssumption DEF Raise, IInv, TypeOK, OneCoordinator, Goto, Leave, Phases, Inside
<1>10. ASSUME NEW k \in Coordinators, Crash(k)
      PROVE  OneCoordinator'
  BY <1>10, NobodyAssumption DEF Crash, IInv, TypeOK, OneCoordinator, Goto, Leave, Phases, Inside
<1>11. ASSUME NEW k \in Coordinators, NEW c \in Cases, Choose(k, c)
      PROVE  OneCoordinator'
  BY <1>11, NobodyAssumption DEF Choose, IInv, TypeOK, OneCoordinator, Goto, Leave, Phases, Inside
<1>12. ASSUME NEW k \in Coordinators, NEW c \in Cases, Launch(k, c)
      PROVE  OneCoordinator'
  BY <1>12, NobodyAssumption DEF Launch, IInv, TypeOK, OneCoordinator, Goto, Leave, Phases, Inside
<1>13. ASSUME NEW k \in Coordinators, NEW c \in Cases, OpenGate(k, c)
      PROVE  OneCoordinator'
  BY <1>13, NobodyAssumption DEF OpenGate, IInv, TypeOK, OneCoordinator, Goto, Leave, Phases, Inside
<1>14. ASSUME NEW k \in Coordinators, NEW c \in Cases, PollScanned(k, c)
      PROVE  OneCoordinator'
  BY <1>14, NobodyAssumption DEF PollScanned, IInv, TypeOK, OneCoordinator, Goto, Leave, Phases, Inside
<1>15. ASSUME NEW k \in Coordinators, NEW c \in Cases, PollFailed(k, c)
      PROVE  OneCoordinator'
  BY <1>15, NobodyAssumption DEF PollFailed, IInv, TypeOK, OneCoordinator, Goto, Leave, Phases, Inside
<1>16. ASSUME NEW k \in Coordinators, NEW c \in Cases, PollTimeout(k, c)
      PROVE  OneCoordinator'
  BY <1>16, NobodyAssumption DEF PollTimeout, IInv, TypeOK, OneCoordinator, Goto, Leave, Phases, Inside
<1>17. ASSUME NEW k \in Coordinators, NEW c \in Cases, CheckRow(k, c)
      PROVE  OneCoordinator'
  BY <1>17, NobodyAssumption DEF CheckRow, IInv, TypeOK, OneCoordinator, Goto, Leave, Phases, Inside
<1>18. ASSUME NEW k \in Coordinators, NEW c \in Cases, StoreReceipt(k, c)
      PROVE  OneCoordinator'
  BY <1>18 DEF StoreReceipt, IInv, OneCoordinator
<1>19. ASSUME NEW k \in Coordinators, NEW r \in run[k].stored, FileReceipt(k, r)
      PROVE  OneCoordinator'
  BY <1>19 DEF FileReceipt, IInv, OneCoordinator
<1>20. ASSUME NEW k \in Coordinators, NEW reason \in {"CANCELLED", "MEMORY_STOP"}, Stop(k, reason)
      PROVE  OneCoordinator'
  BY <1>20, NobodyAssumption DEF Stop, IInv, TypeOK, OneCoordinator, Goto, Leave, Phases, Inside
<1>21. ASSUME NEW a \in Attempts, WorkerStart(a)
      PROVE  OneCoordinator'
  BY <1>21, NobodyAssumption DEF WorkerStart, IInv, TypeOK, OneCoordinator, Goto, Leave, Phases, Inside
<1>22. ASSUME NEW a \in Attempts, WorkerReads(a)
      PROVE  OneCoordinator'
  BY <1>22, NobodyAssumption DEF WorkerReads, IInv, TypeOK, OneCoordinator, Goto, Leave, Phases, Inside
<1>23. ASSUME NEW a \in Attempts, WorkerWrites(a)
      PROVE  OneCoordinator'
  BY <1>23, NobodyAssumption DEF WorkerWrites, IInv, TypeOK, OneCoordinator, Goto, Leave, Phases, Inside
<1>24. ASSUME NEW a \in Attempts, WorkerFails(a)
      PROVE  OneCoordinator'
  BY <1>24, NobodyAssumption DEF WorkerFails, IInv, TypeOK, OneCoordinator, Goto, Leave, Phases, Inside
<1>25. ASSUME NEW a \in Attempts, Alter(a)
      PROVE  OneCoordinator'
  BY <1>25, NobodyAssumption DEF Alter, IInv, TypeOK, OneCoordinator, Goto, Leave, Phases, Inside
<1>26. ASSUME NEW c \in Cases, EditInputs(c)
      PROVE  OneCoordinator'
  BY <1>26, NobodyAssumption DEF EditInputs, IInv, TypeOK, OneCoordinator, Goto, Leave, Phases, Inside
<1>27. ASSUME EditEngine
      PROVE  OneCoordinator'
  BY <1>27, NobodyAssumption DEF EditEngine, IInv, TypeOK, OneCoordinator, Goto, Leave, Phases, Inside
<1>28. CASE UNCHANGED vars
  BY <1>28 DEF vars, IInv, OneCoordinator
<1>29. ASSUME NEW k \in Coordinators, NEW c \in Cases, Register(k, c)
      PROVE  OneCoordinator'
  BY <1>29, NobodyAssumption DEF Register, IInv, TypeOK, OneCoordinator, Goto, Leave, Phases, Inside
<1>30. ASSUME NEW k \in Coordinators, CloseRaises(k)
      PROVE  OneCoordinator'
  BY <1>30, NobodyAssumption DEF CloseRaises, IInv, TypeOK, OneCoordinator, Goto, Leave, Phases, Inside
<1>31. ASSUME NEW a \in Attempts, WorkerExits(a)
      PROVE  OneCoordinator'
  BY <1>31, NobodyAssumption DEF WorkerExits, IInv, TypeOK, OneCoordinator, Goto, Leave, Phases, Inside
<1> QED
  BY <1>1, <1>2, <1>3, <1>4, <1>5, <1>6, <1>7, <1>8, <1>9, <1>10, <1>11, <1>12, <1>13, <1>14, <1>15, <1>16, <1>17, <1>18, <1>19, <1>20, <1>21, <1>22, <1>23, <1>24, <1>25, <1>26, <1>27, <1>28, <1>29, <1>30, <1>31
     DEF Next, Step, Interruption, Worker, World

(* The clock does not go back. *)
LEMMA StartedStep ==
  ASSUME IInv, [Next]_vars
  PROVE  Started'
<1>1. ASSUME NEW k \in Coordinators, Arrive(k)
      PROVE  Started'
  BY <1>1, BoundsAssumption DEF Arrive, IInv, TypeOK, Started, Goto, Leave, Inside, Stamps
<1>2. ASSUME NEW k \in Coordinators, TakeLease(k)
      PROVE  Started'
  BY <1>2, BoundsAssumption DEF TakeLease, IInv, TypeOK, Started, Goto, Leave, Inside, Stamps
<1>3. ASSUME NEW k \in Coordinators, LeaseRefused(k)
      PROVE  Started'
  BY <1>3, BoundsAssumption DEF LeaseRefused, IInv, TypeOK, Started, Goto, Leave, Inside, Stamps
<1>4. ASSUME NEW k \in Coordinators, Preflight(k)
      PROVE  Started'
  BY <1>4, BoundsAssumption DEF Preflight, IInv, TypeOK, Started, Goto, Leave, Inside, Stamps
<1>5. ASSUME NEW k \in Coordinators, EndChoose(k)
      PROVE  Started'
  BY <1>5, BoundsAssumption DEF EndChoose, IInv, TypeOK, Started, Goto, Leave, Inside, Stamps
<1>6. ASSUME NEW k \in Coordinators, EndScan(k)
      PROVE  Started'
  BY <1>6, BoundsAssumption DEF EndScan, IInv, TypeOK, Started, Goto, Leave, Inside, Stamps
<1>7. ASSUME NEW k \in Coordinators, Postflight(k)
      PROVE  Started'
  BY <1>7, BoundsAssumption DEF Postflight, IInv, TypeOK, Started, Goto, Leave, Inside, Stamps
<1>8. ASSUME NEW k \in Coordinators, Report(k)
      PROVE  Started'
  BY <1>8, BoundsAssumption DEF Report, IInv, TypeOK, Started, Goto, Leave, Inside, Stamps
<1>9. ASSUME NEW k \in Coordinators, Raise(k)
      PROVE  Started'
  BY <1>9, BoundsAssumption DEF Raise, IInv, TypeOK, Started, Goto, Leave, Inside, Stamps
<1>10. ASSUME NEW k \in Coordinators, Crash(k)
      PROVE  Started'
  BY <1>10, BoundsAssumption DEF Crash, IInv, TypeOK, Started, Goto, Leave, Inside, Stamps
<1>11. ASSUME NEW k \in Coordinators, NEW c \in Cases, Choose(k, c)
      PROVE  Started'
  BY <1>11, BoundsAssumption DEF Choose, IInv, TypeOK, Started, Goto, Leave, Inside, Stamps
<1>12. ASSUME NEW k \in Coordinators, NEW c \in Cases, Launch(k, c)
      PROVE  Started'
  BY <1>12, BoundsAssumption DEF Launch, IInv, TypeOK, Started, Goto, Leave, Inside, Stamps
<1>13. ASSUME NEW k \in Coordinators, NEW c \in Cases, OpenGate(k, c)
      PROVE  Started'
  BY <1>13, BoundsAssumption DEF OpenGate, IInv, TypeOK, Started, Goto, Leave, Inside, Stamps
<1>14. ASSUME NEW k \in Coordinators, NEW c \in Cases, PollScanned(k, c)
      PROVE  Started'
  BY <1>14, BoundsAssumption DEF PollScanned, IInv, TypeOK, Started, Goto, Leave, Inside, Stamps
<1>15. ASSUME NEW k \in Coordinators, NEW c \in Cases, PollFailed(k, c)
      PROVE  Started'
  BY <1>15, BoundsAssumption DEF PollFailed, IInv, TypeOK, Started, Goto, Leave, Inside, Stamps
<1>16. ASSUME NEW k \in Coordinators, NEW c \in Cases, PollTimeout(k, c)
      PROVE  Started'
  BY <1>16, BoundsAssumption DEF PollTimeout, IInv, TypeOK, Started, Goto, Leave, Inside, Stamps
<1>17. ASSUME NEW k \in Coordinators, NEW c \in Cases, CheckRow(k, c)
      PROVE  Started'
  BY <1>17, BoundsAssumption DEF CheckRow, IInv, TypeOK, Started, Goto, Leave, Inside, Stamps
<1>18. ASSUME NEW k \in Coordinators, NEW c \in Cases, StoreReceipt(k, c)
      PROVE  Started'
  BY <1>18 DEF StoreReceipt, IInv, Started
<1>19. ASSUME NEW k \in Coordinators, NEW r \in run[k].stored, FileReceipt(k, r)
      PROVE  Started'
  BY <1>19 DEF FileReceipt, IInv, Started
<1>20. ASSUME NEW k \in Coordinators, NEW reason \in {"CANCELLED", "MEMORY_STOP"}, Stop(k, reason)
      PROVE  Started'
  BY <1>20, BoundsAssumption DEF Stop, IInv, TypeOK, Started, Goto, Leave, Inside, Stamps
<1>21. ASSUME NEW a \in Attempts, WorkerStart(a)
      PROVE  Started'
  BY <1>21, BoundsAssumption DEF WorkerStart, IInv, TypeOK, Started, Goto, Leave, Inside, Stamps
<1>22. ASSUME NEW a \in Attempts, WorkerReads(a)
      PROVE  Started'
  BY <1>22, BoundsAssumption DEF WorkerReads, IInv, TypeOK, Started, Goto, Leave, Inside, Stamps
<1>23. ASSUME NEW a \in Attempts, WorkerWrites(a)
      PROVE  Started'
  BY <1>23, BoundsAssumption DEF WorkerWrites, IInv, TypeOK, Started, Goto, Leave, Inside, Stamps
<1>24. ASSUME NEW a \in Attempts, WorkerFails(a)
      PROVE  Started'
  BY <1>24, BoundsAssumption DEF WorkerFails, IInv, TypeOK, Started, Goto, Leave, Inside, Stamps
<1>25. ASSUME NEW a \in Attempts, Alter(a)
      PROVE  Started'
  BY <1>25, BoundsAssumption DEF Alter, IInv, TypeOK, Started, Goto, Leave, Inside, Stamps
<1>26. ASSUME NEW c \in Cases, EditInputs(c)
      PROVE  Started'
  BY <1>26, BoundsAssumption DEF EditInputs, IInv, TypeOK, Started, Goto, Leave, Inside, Stamps
<1>27. ASSUME EditEngine
      PROVE  Started'
  BY <1>27, BoundsAssumption DEF EditEngine, IInv, TypeOK, Started, Goto, Leave, Inside, Stamps
<1>28. CASE UNCHANGED vars
  BY <1>28 DEF vars, IInv, Started
<1>29. ASSUME NEW k \in Coordinators, NEW c \in Cases, Register(k, c)
      PROVE  Started'
  BY <1>29, BoundsAssumption DEF Register, IInv, TypeOK, Started, Goto, Leave, Inside, Stamps
<1>30. ASSUME NEW k \in Coordinators, CloseRaises(k)
      PROVE  Started'
  BY <1>30, BoundsAssumption DEF CloseRaises, IInv, TypeOK, Started, Goto, Leave, Inside, Stamps
<1>31. ASSUME NEW a \in Attempts, WorkerExits(a)
      PROVE  Started'
  BY <1>31, BoundsAssumption DEF WorkerExits, IInv, TypeOK, Started, Goto, Leave, Inside, Stamps
<1> QED
  BY <1>1, <1>2, <1>3, <1>4, <1>5, <1>6, <1>7, <1>8, <1>9, <1>10, <1>11, <1>12, <1>13, <1>14, <1>15, <1>16, <1>17, <1>18, <1>19, <1>20, <1>21, <1>22, <1>23, <1>24, <1>25, <1>26, <1>27, <1>28, <1>29, <1>30, <1>31
     DEF Next, Step, Interruption, Worker, World

(* Between the two engine checks of a worker nothing can have been different *)
(* if they agree: this is where the versions that only grow are used.        *)
LEMMA FolderStep ==
  ASSUME IInv, [Next]_vars
  PROVE  FolderFacts' /\ Settled'
<1> USE DEF Folders
<1>a. /\ TypeOK /\ TypeOK' /\ FolderFacts /\ Settled /\ Kept
      /\ engine \in Nat /\ engine' \in Nat /\ engine <= engine'
      /\ \A d \in Cases : inputs[d] \in Nat /\ inputs'[d] \in Nat /\ inputs[d] <= inputs'[d]
  BY TypeStep, KeptStep, Grow DEF IInv
<1>b. \A b \in Folders : /\ att[b] \in AttemptRecords /\ att[b].case \in Cases
                        /\ att[b].cand \in Nat /\ att[b].eng \in Nat
                        /\ att[b].ran \subseteq Nat /\ att[b].read \subseteq Nat
  BY <1>a, FolderType, BoundsAssumption DEF AttemptRecords, Versions, Engines
<1>1. ASSUME NEW k \in Coordinators, Arrive(k)
      PROVE  FolderFacts' /\ Settled'
  BY <1>1, <1>a, <1>b DEF Arrive, FolderFacts, Settled
<1>2. ASSUME NEW k \in Coordinators, TakeLease(k)
      PROVE  FolderFacts' /\ Settled'
  BY <1>2, <1>a, <1>b DEF TakeLease, FolderFacts, Settled
<1>3. ASSUME NEW k \in Coordinators, LeaseRefused(k)
      PROVE  FolderFacts' /\ Settled'
  BY <1>3, <1>a, <1>b DEF LeaseRefused, FolderFacts, Settled
<1>4. ASSUME NEW k \in Coordinators, Preflight(k)
      PROVE  FolderFacts' /\ Settled'
  BY <1>4, <1>a, <1>b DEF Preflight, FolderFacts, Settled
<1>5. ASSUME NEW k \in Coordinators, EndChoose(k)
      PROVE  FolderFacts' /\ Settled'
  BY <1>5, <1>a, <1>b DEF EndChoose, FolderFacts, Settled
<1>6. ASSUME NEW k \in Coordinators, EndScan(k)
      PROVE  FolderFacts' /\ Settled'
  BY <1>6, <1>a, <1>b DEF EndScan, FolderFacts, Settled
<1>7. ASSUME NEW k \in Coordinators, Postflight(k)
      PROVE  FolderFacts' /\ Settled'
  BY <1>7, <1>a, <1>b DEF Postflight, FolderFacts, Settled
<1>8. ASSUME NEW k \in Coordinators, Report(k)
      PROVE  FolderFacts' /\ Settled'
  BY <1>8, <1>a, <1>b DEF Report, FolderFacts, Settled
<1>9. ASSUME NEW k \in Coordinators, Raise(k)
      PROVE  FolderFacts' /\ Settled'
  BY <1>9, <1>a, <1>b DEF Raise, FolderFacts, Settled, TypeOK, AttemptRecords, NoFolder, Live, Close
<1>10. ASSUME NEW k \in Coordinators, Crash(k)
      PROVE  FolderFacts' /\ Settled'
  BY <1>10, <1>a, <1>b DEF Crash, FolderFacts, Settled, TypeOK, AttemptRecords, NoFolder, Live, Close
<1>11. ASSUME NEW k \in Coordinators, NEW c \in Cases, Choose(k, c)
      PROVE  FolderFacts' /\ Settled'
  BY <1>11, <1>a, <1>b DEF Choose, FolderFacts, Settled, TypeOK, AttemptRecords, NoFolder, Live, Close
<1>12. ASSUME NEW k \in Coordinators, NEW c \in Cases, Launch(k, c)
      PROVE  FolderFacts' /\ Settled'
  <2>1. PICK a \in Attempts \ Folders :
          att' = [att EXCEPT ![a] =
               [case |-> c, cand |-> run[k].sel[c], eng |-> run[k].eng,
                worker |-> "waiting", gate |-> FALSE, orphan |-> FALSE, stray |-> FALSE,
                ran |-> {engine}, read |-> {}, bytes |-> "none", observed |-> 0,
                invalid |-> FALSE, receipt |-> "none", noticed |-> FALSE]]
    BY <1>12 DEF Launch
  <2>2. run[k].sel[c] <= inputs[c] /\ run[k].eng <= engine
    BY DEF IInv, RunFacts, RowFacts
  <2>3. /\ att'[a].case = c /\ att'[a].cand = run[k].sel[c] /\ att'[a].eng = run[k].eng
        /\ att'[a].worker = "waiting" /\ att'[a].ran = {engine} /\ att'[a].read = {}
        /\ att'[a].observed = 0
    BY <1>a, <2>1 DEF TypeOK
  <2>4. \A b \in Attempts \ {a} : att'[b] = att[b]
    BY <1>a, <2>1 DEF TypeOK
  <2>5. inputs' = inputs /\ engine' = engine
    BY <1>12 DEF Launch
  <2> QED BY <1>a, <1>b, <2>1, <2>2, <2>3, <2>4, <2>5 DEF FolderFacts, Settled
<1>13. ASSUME NEW k \in Coordinators, NEW c \in Cases, OpenGate(k, c)
      PROVE  FolderFacts' /\ Settled'
  <2> DEFINE a == run[k].at[c]
  <2>1. a \in Folders
    BY <1>13, ActiveFolder DEF OpenGate
  <2>2. /\ att'[a].case = att[a].case /\ att'[a].cand = att[a].cand /\ att'[a].eng = att[a].eng
        /\ att'[a].worker = att[a].worker /\ att'[a].ran = att[a].ran /\ att'[a].read = att[a].read
        /\ att'[a].bytes = att[a].bytes
        /\ att'[a].observed # 0 => att[a].observed # 0 \/ att[a].worker = "exited"
    BY <1>13, <1>a, <1>b, <2>1 DEF OpenGate, TypeOK, AttemptRecords
  <2>3. \A b \in Attempts \ {a} : att'[b] = att[b]
    BY <1>13, <1>a DEF OpenGate, TypeOK
  <2>4. inputs' = inputs /\ engine' = engine
    BY <1>13 DEF OpenGate
  <2> HIDE DEF a
  <2> QED BY <1>a, <1>b, <2>1, <2>2, <2>3, <2>4 DEF FolderFacts, Settled
<1>14. ASSUME NEW k \in Coordinators, NEW c \in Cases, PollScanned(k, c)
      PROVE  FolderFacts' /\ Settled'
  <2> DEFINE a == run[k].at[c]
  <2>1. a \in Folders
    BY <1>14, ActiveFolder DEF PollScanned
  <2>2. /\ att'[a].case = att[a].case /\ att'[a].cand = att[a].cand /\ att'[a].eng = att[a].eng
        /\ att'[a].worker = att[a].worker /\ att'[a].ran = att[a].ran /\ att'[a].read = att[a].read
        /\ att'[a].bytes = att[a].bytes
        /\ att'[a].observed # 0 => att[a].observed # 0 \/ att[a].worker = "exited"
    BY <1>14, <1>a, <1>b, <2>1 DEF PollScanned, TypeOK, AttemptRecords
  <2>3. \A b \in Attempts \ {a} : att'[b] = att[b]
    BY <1>14, <1>a DEF PollScanned, TypeOK
  <2>4. inputs' = inputs /\ engine' = engine
    BY <1>14 DEF PollScanned
  <2> HIDE DEF a
  <2> QED BY <1>a, <1>b, <2>1, <2>2, <2>3, <2>4 DEF FolderFacts, Settled
<1>15. ASSUME NEW k \in Coordinators, NEW c \in Cases, PollFailed(k, c)
      PROVE  FolderFacts' /\ Settled'
  BY <1>15, <1>a, <1>b DEF PollFailed, FolderFacts, Settled
<1>16. ASSUME NEW k \in Coordinators, NEW c \in Cases, PollTimeout(k, c)
      PROVE  FolderFacts' /\ Settled'
  BY <1>16, <1>a, <1>b DEF PollTimeout, FolderFacts, Settled, TypeOK, AttemptRecords, NoFolder, Live, Close
<1>17. ASSUME NEW k \in Coordinators, NEW c \in Cases, CheckRow(k, c)
      PROVE  FolderFacts' /\ Settled'
  BY <1>17, <1>a, <1>b DEF CheckRow, FolderFacts, Settled, TypeOK, AttemptRecords, NoFolder, Live, Close
<1>18. ASSUME NEW k \in Coordinators, NEW c \in Cases, StoreReceipt(k, c)
      PROVE  FolderFacts' /\ Settled'
  BY <1>18, <1>a, <1>b DEF StoreReceipt, FolderFacts, Settled
<1>19. ASSUME NEW k \in Coordinators, NEW r \in run[k].stored, FileReceipt(k, r)
      PROVE  FolderFacts' /\ Settled'
  BY <1>19, <1>a, <1>b DEF FileReceipt, FolderFacts, Settled, TypeOK, AttemptRecords, NoFolder, Live, Close
<1>20. ASSUME NEW k \in Coordinators, NEW reason \in {"CANCELLED", "MEMORY_STOP"}, Stop(k, reason)
      PROVE  FolderFacts' /\ Settled'
  BY <1>20, <1>a, <1>b DEF Stop, FolderFacts, Settled, TypeOK, AttemptRecords, NoFolder, Live, Close
<1>21. ASSUME NEW a \in Attempts, WorkerStart(a)
      PROVE  FolderFacts' /\ Settled'
  BY <1>21, <1>a, <1>b DEF WorkerStart, FolderFacts, Settled, TypeOK, AttemptRecords, NoFolder, Live, Close
<1>22. ASSUME NEW a \in Attempts, WorkerReads(a)
      PROVE  FolderFacts' /\ Settled'
  <2>1. a \in Folders
    BY <1>22 DEF WorkerReads, NoFolder
  <2>2. /\ att'[a].read = att[a].read \union {inputs[att[a].case]}
        /\ att'[a].ran = att[a].ran \union {engine}
        /\ att'[a].worker = "started" /\ att'[a].observed = att[a].observed
        /\ att'[a].case = att[a].case /\ att'[a].cand = att[a].cand /\ att'[a].eng = att[a].eng
    BY <1>22, <1>a, <1>b, <2>1 DEF WorkerReads, TypeOK, AttemptRecords
  <2>3. \A b \in Attempts \ {a} : att'[b] = att[b]
    BY <1>22, <1>a DEF WorkerReads, TypeOK
  <2>4. inputs' = inputs /\ engine' = engine /\ att[a].worker = "started"
    BY <1>22 DEF WorkerReads
  <2> QED BY <1>a, <1>b, <2>1, <2>2, <2>3, <2>4 DEF FolderFacts, Settled
<1>23. ASSUME NEW a \in Attempts, WorkerWrites(a)
      PROVE  FolderFacts' /\ Settled'
  BY <1>23, <1>a, <1>b DEF WorkerWrites, FolderFacts, Settled, TypeOK, AttemptRecords, NoFolder, Live, Close
<1>24. ASSUME NEW a \in Attempts, WorkerFails(a)
      PROVE  FolderFacts' /\ Settled'
  BY <1>24, <1>a, <1>b DEF WorkerFails, FolderFacts, Settled, TypeOK, AttemptRecords, NoFolder, Live, Close
<1>25. ASSUME NEW a \in Attempts, Alter(a)
      PROVE  FolderFacts' /\ Settled'
  BY <1>25, <1>a, <1>b DEF Alter, FolderFacts, Settled, TypeOK, AttemptRecords, NoFolder, Live, Close
<1>26. ASSUME NEW c \in Cases, EditInputs(c)
      PROVE  FolderFacts' /\ Settled'
  BY <1>26, <1>a, <1>b DEF EditInputs, FolderFacts, Settled
<1>27. ASSUME EditEngine
      PROVE  FolderFacts' /\ Settled'
  BY <1>27, <1>a, <1>b DEF EditEngine, FolderFacts, Settled
<1>28. CASE UNCHANGED vars
  BY <1>28, <1>a DEF vars, FolderFacts, Settled
<1>29. ASSUME NEW k \in Coordinators, NEW c \in Cases, Register(k, c)
      PROVE  FolderFacts' /\ Settled'
  BY <1>29, <1>a, <1>b DEF Register, FolderFacts, Settled
<1>30. ASSUME NEW k \in Coordinators, CloseRaises(k)
      PROVE  FolderFacts' /\ Settled'
  <2>1. \A a \in Attempts :
          \/ att'[a] = att[a]
          \/ a \in Folders /\ Live(a) /\ (\/ att'[a] = [att[a] EXCEPT !.worker = "failed"]
                                           \/ att'[a] = [att[a] EXCEPT !.stray = TRUE])
    BY <1>30, <1>a, CloseRaisesDoes
  <2>2. inputs' = inputs /\ engine' = engine
    BY <1>30 DEF CloseRaises
  <2>3. ASSUME NEW a \in Folders'
        PROVE  /\ a \in Folders
               /\ att'[a].case = att[a].case /\ att'[a].cand = att[a].cand /\ att'[a].eng = att[a].eng
               /\ att'[a].ran = att[a].ran /\ att'[a].read = att[a].read
               /\ att'[a].observed = att[a].observed /\ att'[a].bytes = att[a].bytes
               /\ att'[a].worker \in {att[a].worker, "failed"}
               /\ att[a].worker = "exited" => att'[a].worker = "exited"
    <3>0. a \in Folders /\ att[a] \in AttemptRecords
      <4>1. a \in Attempts
        BY <2>3 DEF Folders
      <4>2. a \in Folders
        BY <2>1, <2>3, <4>1 DEF Folders
      <4> QED BY <1>b, <4>1, <4>2, FolderType
    <3>1. CASE att'[a] = att[a]
      BY <3>0, <3>1
    <3>2. CASE Live(a) /\ att'[a] = [att[a] EXCEPT !.worker = "failed"]
      BY <3>0, <3>2 DEF AttemptRecords, Live
    <3>3. CASE Live(a) /\ att'[a] = [att[a] EXCEPT !.stray = TRUE]
      BY <3>0, <3>3 DEF AttemptRecords, Live
    <3>4. a \in Attempts
      BY <3>0 DEF Folders
    <3> QED BY <2>1, <3>0, <3>1, <3>2, <3>3, <3>4
  <2> QED BY <1>a, <1>b, <2>2, <2>3 DEF FolderFacts, Settled
<1>31. ASSUME NEW a \in Attempts, WorkerExits(a)
      PROVE  FolderFacts' /\ Settled'
  BY <1>31, <1>a, <1>b DEF WorkerExits, FolderFacts, Settled, TypeOK, AttemptRecords, NoFolder, Live, Close
<1> QED
  BY <1>1, <1>2, <1>3, <1>4, <1>5, <1>6, <1>7, <1>8, <1>9, <1>10, <1>11, <1>12, <1>13, <1>14, <1>15, <1>16, <1>17, <1>18, <1>19, <1>20, <1>21, <1>22, <1>23, <1>24, <1>25, <1>26, <1>27, <1>28, <1>29, <1>30, <1>31
     DEF Next, Step, Interruption, Worker, World

(* Two coordinators are never both past the lease. *)
LEMMA Alone ==
  ASSUME IInv, NEW k \in Coordinators, NEW j \in Coordinators \ {k}, phase[k] \in Inside
  PROVE  phase[j] \notin Inside
BY DEF IInv, OneCoordinator

(* A step that leaves a call's own variables alone keeps what they say.     *)
LEMMA Others ==
  ASSUME IInv, [Next]_vars, NEW k \in Coordinators,
         run'[k] = run[k], phase'[k] = phase[k],
         phase[k] \in Inside =>
           /\ ledger \subseteq ledger'
           /\ \A a \in Folders :
                /\ att'[a].invalid = att[a].invalid
                /\ att[a].observed = 0 => att'[a].observed = 0
  PROVE  RunFacts(k)'
<1>1. RunFacts(k) /\ Settled /\ Kept /\ run[k] \in RunRecords
  BY KeptStep DEF IInv, TypeOK
<1>2. run[k].eng <= engine'
  BY <1>1, Grow, BoundsAssumption DEF RunFacts, RunRecords, Engines
<1>3. ASSUME NEW c \in Cases
      PROVE  run[k].sel[c] <= inputs'[c]
  BY <1>1, <1>3, Grow, BoundsAssumption DEF RunFacts, RowFacts, RunRecords, Versions
<1>4. CASE phase[k] \notin Inside
  <2>1. ASSUME NEW c \in Cases PROVE RowFacts(k, c)'
    BY <1>1, <1>3, <1>4, <2>1 DEF RunFacts, RowFacts, Backed, WithArtifacts, Done, Inside
  <2> QED BY <1>1, <1>2, <1>4, <2>1 DEF RunFacts, Inside
<1>5. CASE phase[k] \in Inside
  <2>1. ASSUME NEW c \in Cases PROVE RowFacts(k, c)'
    <3>1. RowFacts(k, c)
      BY <1>1 DEF RunFacts
    <3>2. run[k].row[c] \in Backed => run[k].at[c] \in Folders'
      BY <1>1, <3>1 DEF RowFacts, Kept, Folders
    <3>3. run[k].row[c] \in {"SCANNED", "RECOVERING"} => att[run[k].at[c]].worker = "exited"
      BY <1>1, <3>1 DEF RowFacts, Settled, Backed, WithArtifacts
    <3> DEFINE a == run[k].at[c]
    <3>4. ASSUME run[k].row[c] \in Backed
          PROVE  /\ att'[a].case = c
                 /\ att'[a].cand = run[k].sel[c]
                 /\ att'[a].cand = att[a].cand
                 /\ att'[a].eng = run[k].eng
                 /\ ~att'[a].invalid
                 /\ att[a].observed = 0 => att'[a].observed = 0
                 /\ att[a].observed # 0 => att'[a].observed = att[a].observed
                 /\ att[a].receipt # "none" => att'[a].receipt # "none"
                 /\ run[k].row[c] \in {"SCANNED", "RECOVERING"} => att'[a].read = att[a].read
      <4>1. a \in Folders /\ att[a].case = c /\ att[a].cand = run[k].sel[c]
            /\ att[a].eng = run[k].eng /\ ~att[a].invalid
        BY <3>1, <3>4 DEF RowFacts
      <4>2. /\ att'[a].case = att[a].case /\ att'[a].cand = att[a].cand /\ att'[a].eng = att[a].eng
            /\ att[a].observed # 0 => att'[a].observed = att[a].observed
            /\ att[a].receipt # "none" => att'[a].receipt # "none"
            /\ att[a].worker = "exited" => att'[a].read = att[a].read
        BY <1>1, <4>1 DEF Kept
      <4>3. att'[a].invalid = att[a].invalid /\ (att[a].observed = 0 => att'[a].observed = 0)
        BY <1>5, <4>1
      <4> QED BY <3>3, <4>1, <4>2, <4>3
    <3>6. Done \subseteq Backed /\ {"SCANNED", "RECOVERING", "STARTING", "ACTIVE"} \subseteq Backed
      BY DEF Done, Backed, WithArtifacts
    <3> QED BY <1>3, <3>1, <3>2, <3>4, <3>6 DEF RowFacts
  <2> QED BY <1>1, <1>2, <1>5, <2>1 DEF RunFacts
<1> QED BY <1>4, <1>5

(* Nothing is said of a call that is over. *)
LEMMA Over ==
  ASSUME IInv, [Next]_vars, NEW k \in Coordinators, run'[k] = NoRun, phase'[k] = "idle"
  PROVE  RunFacts(k)'
<1>1. 0 <= engine' /\ \A c \in Cases : 0 <= inputs'[c]
  BY Grow
<1> QED BY <1>1 DEF RunFacts, RowFacts, NoRun, Fresh, Inside, Backed, WithArtifacts, Done

(* In the scan loop: a row that ends without a result. *)
LEMMA RowEnds ==
  ASSUME IInv, [Next]_vars, NEW k \in Coordinators, NEW c \in Cases,
         NEW state \in RowStates \ (Backed \union Done),
         run'[k] = [run[k] EXCEPT !.row = [run[k].row EXCEPT ![c] = state]],
         phase'[k] = phase[k], phase[k] = "scan",
         inputs' = inputs, engine' = engine, ledger' = ledger,
         \A a \in Folders : att'[a].invalid = att[a].invalid /\ att'[a].observed = att[a].observed
  PROVE  RunFacts(k)'
<1>1. RunFacts(k) /\ Kept /\ run[k] \in RunRecords
  BY KeptStep DEF IInv, TypeOK
<1>2. /\ run'[k].eng = run[k].eng /\ run'[k].sel = run[k].sel /\ run'[k].at = run[k].at
      /\ run'[k].cleared = {} /\ run'[k].stored = {} /\ run'[k].row[c] = state
      /\ \A d \in Cases \ {c} : run'[k].row[d] = run[k].row[d]
  BY <1>1 DEF RunFacts, RunRecords
<1>3. ASSUME NEW d \in Cases
      PROVE  RowFacts(k, d)'
  <2>1. RowFacts(k, d)
    BY <1>1 DEF RunFacts
  <2>2. CASE d = c
    BY <1>2, <2>1, <2>2 DEF RowFacts, Backed, WithArtifacts, Done
  <2>3. CASE d # c
    <3>1. run[k].row[d] \in Backed => run[k].at[d] \in Folders'
      BY <1>1, <2>1 DEF RowFacts, Kept, Folders
    <3> QED BY <1>1, <1>2, <2>1, <2>3, <3>1 DEF RowFacts, Kept, Backed, WithArtifacts, Done
  <2> QED BY <2>2, <2>3
<1> QED BY <1>1, <1>2, <1>3 DEF RunFacts, Inside

(* What a call knows of the attempts of its rows stays true, whoever moves.  *)
LEMMA RunStep ==
  ASSUME IInv, [Next]_vars
  PROVE  \A j \in Coordinators : RunFacts(j)'
<1>1. ASSUME NEW k \in Coordinators, Arrive(k)
      PROVE  \A j \in Coordinators : RunFacts(j)'
  <2>1. ASSUME NEW j \in Coordinators \ {k}
        PROVE  RunFacts(j)'
    <3>1. run'[j] = run[j] /\ phase'[j] = phase[j]
      BY <1>1 DEF Arrive, Goto, Leave, IInv, TypeOK
    <3>2. att' = att /\ ledger' = ledger
      BY <1>1 DEF Arrive
    <3> QED BY <3>1, <3>2, Others
  <2>2. RunFacts(k)'
    <3>1. run'[k] = Fresh(engine, inputs) /\ phase'[k] = "lease" /\ inputs' = inputs /\ engine' = engine
      BY <1>1 DEF Arrive, Goto, IInv, TypeOK
    <3> QED BY <3>1, Grow DEF RunFacts, RowFacts, Fresh, Inside, Backed, WithArtifacts, Done
  <2> QED BY <2>1, <2>2
<1>2. ASSUME NEW k \in Coordinators, TakeLease(k)
      PROVE  \A j \in Coordinators : RunFacts(j)'
  <2>1. ASSUME NEW j \in Coordinators \ {k}
        PROVE  RunFacts(j)'
    <3>1. run'[j] = run[j] /\ phase'[j] = phase[j]
      BY <1>2 DEF TakeLease, Goto, Leave, IInv, TypeOK
    <3>2. att' = att /\ ledger' = ledger
      BY <1>2 DEF TakeLease
    <3> QED BY <3>1, <3>2, Others
  <2>2. RunFacts(k)'
    <3>1. run'[k] = run[k] /\ att' = att /\ inputs' = inputs /\ engine' = engine /\ ledger' = ledger
      BY <1>2 DEF TakeLease
    <3>2. phase'[k] = "preflight" /\ phase[k] = "lease"
      BY <1>2 DEF TakeLease, Goto, IInv, TypeOK
    <3>3. RunFacts(k)
      BY DEF IInv
    <3>4. \A c \in Cases : RowFacts(k, c)'
      BY <1>2, <3>1, <3>2, <3>3 DEF TakeLease, RunFacts, RowFacts, Inside, Folders, Rows
    <3> QED BY <3>1, <3>2, <3>3, <3>4 DEF RunFacts, Inside
  <2> QED BY <2>1, <2>2
<1>3. ASSUME NEW k \in Coordinators, LeaseRefused(k)
      PROVE  \A j \in Coordinators : RunFacts(j)'
  <2>1. ASSUME NEW j \in Coordinators \ {k}
        PROVE  RunFacts(j)'
    <3>1. run'[j] = run[j] /\ phase'[j] = phase[j]
      BY <1>3 DEF LeaseRefused, Goto, Leave, IInv, TypeOK
    <3>2. att' = att /\ ledger' = ledger
      BY <1>3 DEF LeaseRefused
    <3> QED BY <3>1, <3>2, Others
  <2>2. RunFacts(k)'
    <3>1. run'[k] = NoRun /\ phase'[k] = "idle"
      BY <1>3 DEF LeaseRefused, Leave, Goto, IInv, TypeOK
    <3> QED BY <3>1, Over
  <2> QED BY <2>1, <2>2
<1>4. ASSUME NEW k \in Coordinators, Preflight(k)
      PROVE  \A j \in Coordinators : RunFacts(j)'
  <2>1. ASSUME NEW j \in Coordinators \ {k}
        PROVE  RunFacts(j)'
    <3>1. run'[j] = run[j] /\ phase'[j] = phase[j]
      BY <1>4 DEF Preflight, Goto, Leave, IInv, TypeOK
    <3>2. phase[k] \in Inside
      BY <1>4 DEF Preflight, Inside, IInv
    <3> QED BY <3>1, <3>2, Alone, Others
  <2>2. RunFacts(k)'
    <3>1. CASE Leave(k)
      <4>1. run'[k] = NoRun /\ phase'[k] = "idle"
        BY <3>1 DEF Leave, Goto, IInv, TypeOK
      <4> QED BY <4>1, Over
    <3>2. CASE Goto(k, "choose") /\ run' = run
      <4>1. phase'[k] = "choose" /\ phase[k] = "preflight"
        BY <1>4, <3>2 DEF Preflight, Goto, IInv, TypeOK
      <4>2. att' = att /\ inputs' = inputs /\ engine' = engine /\ ledger' = ledger
        BY <1>4 DEF Preflight
      <4>3. RunFacts(k)
        BY DEF IInv
      <4>4. \A c \in Cases : RowFacts(k, c)'
        BY <3>2, <4>1, <4>2, <4>3 DEF RunFacts, RowFacts, Inside, Folders, Backed, WithArtifacts, Done
      <4> QED BY <3>2, <4>1, <4>2, <4>3, <4>4 DEF RunFacts, Inside
    <3> QED BY <1>4, <3>1, <3>2 DEF Preflight
  <2> QED BY <2>1, <2>2
<1>5. ASSUME NEW k \in Coordinators, EndChoose(k)
      PROVE  \A j \in Coordinators : RunFacts(j)'
  <2>1. ASSUME NEW j \in Coordinators \ {k}
        PROVE  RunFacts(j)'
    <3>1. run'[j] = run[j] /\ phase'[j] = phase[j]
      BY <1>5 DEF EndChoose, Goto, Leave, IInv, TypeOK
    <3>2. phase[k] \in Inside
      BY <1>5 DEF EndChoose, Inside, IInv
    <3> QED BY <3>1, <3>2, Alone, Others
  <2>2. RunFacts(k)'
    <3>1. run'[k] = run[k] /\ att' = att /\ inputs' = inputs /\ engine' = engine /\ ledger' = ledger
      BY <1>5 DEF EndChoose
    <3>2. phase'[k] = "scan" /\ phase[k] = "choose"
      BY <1>5 DEF EndChoose, Goto, IInv, TypeOK
    <3>3. RunFacts(k)
      BY DEF IInv
    <3>4. \A c \in Cases : RowFacts(k, c)'
      BY <1>5, <3>1, <3>2, <3>3 DEF EndChoose, RunFacts, RowFacts, Inside, Folders, Rows
    <3> QED BY <3>1, <3>2, <3>3, <3>4 DEF RunFacts, Inside
  <2> QED BY <2>1, <2>2
<1>6. ASSUME NEW k \in Coordinators, EndScan(k)
      PROVE  \A j \in Coordinators : RunFacts(j)'
  <2>1. ASSUME NEW j \in Coordinators \ {k}
        PROVE  RunFacts(j)'
    <3>1. run'[j] = run[j] /\ phase'[j] = phase[j]
      BY <1>6 DEF EndScan, Goto, Leave, IInv, TypeOK
    <3>2. phase[k] \in Inside
      BY <1>6 DEF EndScan, Inside, IInv
    <3> QED BY <3>1, <3>2, Alone, Others
  <2>2. RunFacts(k)'
    <3>1. run'[k] = run[k] /\ att' = att /\ inputs' = inputs /\ engine' = engine /\ ledger' = ledger
      BY <1>6 DEF EndScan
    <3>2. phase'[k] = "postflight" /\ phase[k] = "scan"
      BY <1>6 DEF EndScan, Goto, IInv, TypeOK
    <3>3. RunFacts(k)
      BY DEF IInv
    <3>4. \A c \in Cases : RowFacts(k, c)'
      BY <1>6, <3>1, <3>2, <3>3 DEF EndScan, RunFacts, RowFacts, Inside, Folders, Rows
    <3> QED BY <3>1, <3>2, <3>3, <3>4 DEF RunFacts, Inside
  <2> QED BY <2>1, <2>2
<1>7. ASSUME NEW k \in Coordinators, Postflight(k)
      PROVE  \A j \in Coordinators : RunFacts(j)'
  <2>1. ASSUME NEW j \in Coordinators \ {k}
        PROVE  RunFacts(j)'
    <3>1. run'[j] = run[j] /\ phase'[j] = phase[j]
      BY <1>7 DEF Postflight, Goto, Leave, IInv, TypeOK
    <3>2. phase[k] \in Inside
      BY <1>7 DEF Postflight, Inside, IInv
    <3> QED BY <3>1, <3>2, Alone, Others
  <2>2. RunFacts(k)'
    <3>1. /\ run'[k] = [run[k] EXCEPT
               !.errors = Changed(k) \union (IF engine # run[k].eng THEN Cases ELSE {}), !.todo = Cases]
          /\ phase'[k] = "publish" /\ phase[k] = "postflight"
          /\ att' = att /\ inputs' = inputs /\ engine' = engine /\ ledger' = ledger
      BY <1>7 DEF Postflight, Goto, IInv, TypeOK
    <3>2. RunFacts(k) /\ run[k] \in RunRecords
      BY DEF IInv, TypeOK
    <3>3. /\ run'[k].eng = run[k].eng /\ run'[k].sel = run[k].sel /\ run'[k].row = run[k].row
          /\ run'[k].at = run[k].at /\ run'[k].cleared = {} /\ run'[k].stored = {}
          /\ Changed(k) \subseteq run'[k].errors
      BY <3>1, <3>2 DEF RunFacts, RunRecords
    <3>4. ASSUME NEW c \in Cases
          PROVE  RowFacts(k, c)'
      <4> DEFINE a == run[k].at[c]
      <4>1. RowFacts(k, c)
        BY <3>2 DEF RunFacts
      <4>2. ASSUME run[k].row[c] \in {"SCANNED", "RECOVERING"}, c \notin run'[k].errors
            PROVE  att[a].read = {att[a].cand}
        <5>1. a \in Folders /\ att[a].case = c /\ att[a].cand = run[k].sel[c] /\ att[a].worker = "exited"
          BY <4>1, <4>2 DEF RowFacts, Backed, WithArtifacts, IInv, Settled
        <5>2. inputs[c] = att[a].cand /\ inputs[c] \in Nat
          BY <3>3, <4>2, <5>1, Grow DEF Changed
        <5>3. att[a].read \subseteq Nat
          BY <5>1, FolderType, BoundsAssumption DEF IInv, AttemptRecords, Versions, Folders
        <5>4. att[a].read # {} /\ \A v \in att[a].read : att[a].cand <= v /\ v <= inputs[c]
          BY <5>1 DEF IInv, FolderFacts
        <5> QED BY <5>2, <5>3, <5>4
      <4> QED BY <3>1, <3>3, <4>1, <4>2 DEF RowFacts, Folders
    <3> QED BY <3>1, <3>2, <3>3, <3>4 DEF RunFacts, Inside
  <2> QED BY <2>1, <2>2
<1>8. ASSUME NEW k \in Coordinators, Report(k)
      PROVE  \A j \in Coordinators : RunFacts(j)'
  <2>1. ASSUME NEW j \in Coordinators \ {k}
        PROVE  RunFacts(j)'
    <3>1. run'[j] = run[j] /\ phase'[j] = phase[j]
      BY <1>8 DEF Report, Goto, Leave, IInv, TypeOK
    <3>2. phase[k] \in Inside
      BY <1>8 DEF Report, Inside, IInv
    <3> QED BY <3>1, <3>2, Alone, Others
  <2>2. RunFacts(k)'
    <3>1. run'[k] = NoRun /\ phase'[k] = "idle"
      BY <1>8 DEF Report, Leave, Goto, IInv, TypeOK
    <3> QED BY <3>1, Over
  <2> QED BY <2>1, <2>2
<1>9. ASSUME NEW k \in Coordinators, Raise(k)
      PROVE  \A j \in Coordinators : RunFacts(j)'
  <2>1. ASSUME NEW j \in Coordinators \ {k}
        PROVE  RunFacts(j)'
    <3>1. run'[j] = run[j] /\ phase'[j] = phase[j]
      BY <1>9 DEF Raise, Goto, Leave, IInv, TypeOK
    <3>2. phase[k] \in Inside
      BY <1>9 DEF Raise, Inside, IInv
    <3> QED BY <3>1, <3>2, Alone, Others
  <2>2. RunFacts(k)'
    <3>1. run'[k] = NoRun /\ phase'[k] = "idle"
      BY <1>9 DEF Raise, Leave, Goto, IInv, TypeOK
    <3> QED BY <3>1, Over
  <2> QED BY <2>1, <2>2
<1>10. ASSUME NEW k \in Coordinators, Crash(k)
      PROVE  \A j \in Coordinators : RunFacts(j)'
  <2>1. ASSUME NEW j \in Coordinators \ {k}
        PROVE  RunFacts(j)'
    <3>1. run'[j] = run[j] /\ phase'[j] = phase[j]
      BY <1>10 DEF Crash, Goto, Leave, IInv, TypeOK
    <3>2. CASE phase[k] \in Inside
      BY <3>1, <3>2, Alone, Others
    <3>3. CASE phase[k] \notin Inside
      <4>1. StartedFolders(k) = {}
        BY <3>3 DEF IInv, RunFacts, StartedFolders, Rows
      <4>2. att' = att /\ ledger' = ledger
        BY <1>10, <4>1 DEF Crash, IInv, TypeOK
      <4> QED BY <3>1, <4>2, Others
    <3> QED BY <3>2, <3>3
  <2>2. RunFacts(k)'
    <3>1. run'[k] = NoRun /\ phase'[k] = "idle"
      BY <1>10 DEF Crash, Leave, Goto, IInv, TypeOK
    <3> QED BY <3>1, Over
  <2> QED BY <2>1, <2>2
<1>11. ASSUME NEW k \in Coordinators, NEW c \in Cases, Choose(k, c)
      PROVE  \A j \in Coordinators : RunFacts(j)'
  <2>1. ASSUME NEW j \in Coordinators \ {k}
        PROVE  RunFacts(j)'
    <3>1. run'[j] = run[j] /\ phase'[j] = phase[j]
      BY <1>11 DEF Choose, Goto, Leave, IInv, TypeOK, Row
    <3>2. phase[k] \in Inside
      BY <1>11 DEF Choose, Inside, IInv
    <3> QED BY <3>1, <3>2, Alone, Others
  <2>2. RunFacts(k)'
    <3>0. RunFacts(k) /\ Kept /\ run[k] \in RunRecords
      BY KeptStep DEF IInv, TypeOK
    <3>1. /\ inputs' = inputs /\ engine' = engine /\ phase' = phase /\ ledger' = ledger
          /\ phase[k] = "choose" /\ c \in run[k].todo /\ Kept
      BY <1>11, KeptStep DEF Choose
    <3>2. \A b \in Folders : att'[b].invalid = att[b].invalid /\ att'[b].observed = att[b].observed
      <4>1. \A b \in Folders : att[b] \in AttemptRecords
        BY FolderType DEF IInv, Folders
      <4>2. CASE att' = att
        BY <4>2
      <4>3. CASE att' = [b \in Attempts |->
                   IF b \in Drifted(k, c) THEN [att[b] EXCEPT !.noticed = TRUE] ELSE att[b]]
        BY <4>1, <4>3 DEF Folders, AttemptRecords
      <4> QED BY <1>11, <4>2, <4>3 DEF Choose
    <3>3. ASSUME NEW state \in {"REUSED", "RECOVERING", "QUEUED"},
                 NEW a \in Attempts \union {NoAttempt},
                 Row(k, c, state, a),
                 state # "QUEUED" => /\ a \in Bucket(k, c) /\ ~att[a].invalid
                                     /\ state = "REUSED" => att[a].receipt # "none"
                                     /\ state = "RECOVERING" => att[a].observed # 0
          PROVE  RunFacts(k)'
      <4>1. run' = [run EXCEPT ![k] = [run[k] EXCEPT !.row = [run[k].row EXCEPT ![c] = state],
              !.at = [run[k].at EXCEPT ![c] = a], !.todo = run[k].todo \ {c}]]
        BY <3>3 DEF Row, IInv, TypeOK
      <4>2. /\ run'[k].eng = run[k].eng /\ run'[k].sel = run[k].sel
            /\ run'[k].cleared = {} /\ run'[k].stored = {}
            /\ run'[k].todo = run[k].todo \ {c}
            /\ run'[k].row[c] = state /\ run'[k].at[c] = a
            /\ \A d \in Cases \ {c} : run'[k].row[d] = run[k].row[d] /\ run'[k].at[d] = run[k].at[d]
        BY <3>0, <3>1, <4>1 DEF IInv, TypeOK, RunRecords, RunFacts
      <4>3. ASSUME NEW d \in Cases
            PROVE  RowFacts(k, d)'
        <5>1. RowFacts(k, d)
          BY <3>0 DEF RunFacts
        <5>2. CASE d = c
          <6>1. state # "QUEUED" => /\ a \in Folders /\ a \in Folders' /\ att[a].case = c
                                    /\ att[a].cand = run[k].sel[c] /\ att[a].eng = run[k].eng
            BY <3>1, <3>3 DEF Bucket, Kept, Folders
          <6> QED BY <3>1, <3>2, <3>3, <4>2, <5>1, <5>2, <6>1 DEF RowFacts, Kept, Backed, WithArtifacts, Done
        <5>3. CASE d # c
          <6>1. run[k].row[d] \in Backed => run[k].at[d] \in Folders'
            BY <3>1, <5>1 DEF RowFacts, Kept, Folders
          <6> QED BY <3>1, <3>2, <4>2, <5>1, <5>3, <6>1 DEF RowFacts, Kept, Backed, WithArtifacts, Done
        <5> QED BY <5>2, <5>3
      <4> QED BY <3>0, <3>1, <4>2, <4>3 DEF RunFacts, Inside
    <3>5. CASE \E a \in Reusable(k, c) : Row(k, c, "REUSED", a)
      BY <3>3, <3>5 DEF Reusable, Bucket, Folders
    <3>6. CASE \E a \in Recoverable(k, c) : Row(k, c, "RECOVERING", a)
      BY <3>3, <3>6 DEF Recoverable, Bucket, Folders
    <3>7. CASE Row(k, c, "QUEUED", NoAttempt)
      BY <3>3, <3>7
    <3> QED BY <1>11, <3>5, <3>6, <3>7 DEF Choose
  <2> QED BY <2>1, <2>2
<1>12. ASSUME NEW k \in Coordinators, NEW c \in Cases, Launch(k, c)
      PROVE  \A j \in Coordinators : RunFacts(j)'
  <2>1. ASSUME NEW j \in Coordinators \ {k}
        PROVE  RunFacts(j)'
    <3>1. run'[j] = run[j] /\ phase'[j] = phase[j]
      BY <1>12 DEF Launch, Goto, Leave, IInv, TypeOK
    <3>2. phase[k] \in Inside
      BY <1>12 DEF Launch, Inside, IInv
    <3> QED BY <3>1, <3>2, Alone, Others
  <2>2. RunFacts(k)'
    <3>0. RunFacts(k) /\ Kept /\ run[k] \in RunRecords
      BY KeptStep DEF IInv, TypeOK
    <3>1. /\ inputs' = inputs /\ engine' = engine /\ phase' = phase /\ ledger' = ledger
          /\ phase[k] = "scan" /\ run[k].row[c] = "QUEUED"
      BY <1>12 DEF Launch
    <3>2. PICK a \in Attempts \ Folders :
          /\ att' = [att EXCEPT ![a] =
               [case |-> c, cand |-> run[k].sel[c], eng |-> run[k].eng,
                worker |-> "waiting", gate |-> FALSE, orphan |-> FALSE, stray |-> FALSE,
                ran |-> {engine}, read |-> {}, bytes |-> "none", observed |-> 0,
                invalid |-> FALSE, receipt |-> "none", noticed |-> FALSE]]
          /\ run' = [run EXCEPT ![k].row[c] = "STARTING", ![k].at[c] = a]
      BY <1>12 DEF Launch
    <3>3. /\ att'[a].case = c /\ att'[a].cand = run[k].sel[c] /\ att'[a].eng = run[k].eng
          /\ att'[a].worker = "waiting" /\ att'[a].observed = 0 /\ att'[a].invalid = FALSE
      BY <3>2 DEF IInv, TypeOK
    <3>4. \A b \in Attempts \ {a} : att'[b] = att[b]
      BY <3>2 DEF IInv, TypeOK
    <3>5. run' = [run EXCEPT ![k] = [run[k] EXCEPT !.row = [run[k].row EXCEPT ![c] = "STARTING"],
            !.at = [run[k].at EXCEPT ![c] = a]]]
      BY <3>2 DEF IInv, TypeOK
    <3>6. /\ run'[k].eng = run[k].eng /\ run'[k].sel = run[k].sel
          /\ run'[k].cleared = {} /\ run'[k].stored = {}
          /\ run'[k].row[c] = "STARTING" /\ run'[k].at[c] = a
          /\ \A d \in Cases \ {c} : run'[k].row[d] = run[k].row[d] /\ run'[k].at[d] = run[k].at[d]
      BY <3>0, <3>1, <3>5 DEF IInv, TypeOK, RunRecords, RunFacts
    <3>7. ASSUME NEW d \in Cases
          PROVE  RowFacts(k, d)'
      <4>1. RowFacts(k, d)
        BY <3>0 DEF RunFacts
      <4>2. CASE d = c
        <5>1. a \in Folders'
          BY <3>3 DEF Folders, NoFolder
        <5> QED BY <3>1, <3>3, <3>6, <4>1, <4>2, <5>1 DEF RowFacts, Backed, WithArtifacts, Done
      <4>3. CASE d # c
        <5>1. run[k].row[d] \in Backed => run[k].at[d] \in Attempts \ {a}
          BY <4>1 DEF RowFacts, Folders
        <5> QED BY <3>1, <3>4, <3>6, <4>1, <4>3, <5>1 DEF RowFacts, Backed, WithArtifacts, Done, Folders
      <4> QED BY <4>2, <4>3
    <3> QED BY <3>0, <3>1, <3>6, <3>7 DEF RunFacts, Inside
  <2> QED BY <2>1, <2>2
<1>13. ASSUME NEW k \in Coordinators, NEW c \in Cases, OpenGate(k, c)
      PROVE  \A j \in Coordinators : RunFacts(j)'
  <2>1. ASSUME NEW j \in Coordinators \ {k}
        PROVE  RunFacts(j)'
    <3>1. run'[j] = run[j] /\ phase'[j] = phase[j]
      BY <1>13 DEF OpenGate, Goto, Leave, IInv, TypeOK
    <3>2. phase[k] \in Inside
      BY <1>13 DEF OpenGate, Inside, IInv
    <3> QED BY <3>1, <3>2, Alone, Others
  <2>2. RunFacts(k)'
    <3>1. run[k].at[c] \in Folders
      BY <1>13, ActiveFolder DEF OpenGate
    <3>2. /\ run' = run /\ phase' = phase /\ ledger' = ledger
          /\ \A a \in Folders : att'[a].invalid = att[a].invalid /\ att'[a].observed = att[a].observed
      BY <1>13, <3>1, FolderType DEF OpenGate, IInv, TypeOK, Folders, AttemptRecords
    <3> QED BY <3>2, Others
  <2> QED BY <2>1, <2>2
<1>14. ASSUME NEW k \in Coordinators, NEW c \in Cases, PollScanned(k, c)
      PROVE  \A j \in Coordinators : RunFacts(j)'
  <2>1. ASSUME NEW j \in Coordinators \ {k}
        PROVE  RunFacts(j)'
    <3>1. run'[j] = run[j] /\ phase'[j] = phase[j]
      BY <1>14 DEF PollScanned, Goto, Leave, IInv, TypeOK
    <3>2. phase[k] \in Inside
      BY <1>14 DEF PollScanned, Inside, IInv
    <3> QED BY <3>1, <3>2, Alone, Others
  <2>2. RunFacts(k)'
    <3> DEFINE a == run[k].at[c]
    <3>1. a \in Folders /\ RowFacts(k, c) /\ a \in Attempts /\ att[a] \in AttemptRecords
      BY <1>14, ActiveFolder, FolderType DEF PollScanned, IInv, RunFacts
    <3>2. /\ run'[k] = [run[k] EXCEPT !.row = [run[k].row EXCEPT ![c] = "SCANNED"]]
          /\ phase'[k] = phase[k] /\ phase[k] = "scan" /\ run[k].row[c] = "ACTIVE"
          /\ inputs' = inputs /\ engine' = engine /\ ledger' = ledger
      BY <1>14 DEF PollScanned, IInv, TypeOK
    <3>3. att'[a].invalid = att[a].invalid /\ att'[a].observed = clock /\ clock # 0
      <4>1. clock # 0
        BY <3>2 DEF IInv, Started
      <4> QED BY <1>14, <3>1, <4>1 DEF PollScanned, IInv, TypeOK, AttemptRecords
    <3>4. \A b \in Attempts \ {a} : att'[b] = att[b]
      BY <1>14 DEF PollScanned, IInv, TypeOK
    <3>5. RunFacts(k) /\ Kept /\ run[k] \in RunRecords
      BY KeptStep DEF IInv, TypeOK
    <3>6. /\ run'[k].eng = run[k].eng /\ run'[k].sel = run[k].sel /\ run'[k].at = run[k].at
          /\ run'[k].cleared = {} /\ run'[k].stored = {} /\ run'[k].row[c] = "SCANNED"
          /\ \A d \in Cases \ {c} : run'[k].row[d] = run[k].row[d]
      BY <3>2, <3>5 DEF RunFacts, RunRecords
    <3>7. ASSUME NEW d \in Cases
          PROVE  RowFacts(k, d)'
      <4>1. RowFacts(k, d)
        BY <3>5 DEF RunFacts
      <4>2. CASE d = c
        <5>1. a \in Folders'
          BY <3>1, <3>5 DEF Kept, Folders
        <5>2. /\ att'[a].case = c /\ att'[a].cand = run[k].sel[c] /\ att'[a].eng = run[k].eng
              /\ ~att'[a].invalid /\ att'[a].observed # 0
          BY <3>1, <3>2, <3>3, <3>5 DEF RowFacts, Kept, Backed
        <5>3. run[k].sel[c] <= inputs'[c]
          BY <3>1, <3>2 DEF RowFacts
        <5> QED BY <3>2, <3>6, <4>2, <5>1, <5>2, <5>3 DEF RowFacts, Done
      <4>3. CASE d # c
        <5>1. run[k].row[d] \in Backed => run[k].at[d] \in Folders' /\ run[k].at[d] # a /\ run[k].at[d] \in Attempts
          BY <3>1, <3>2, <3>5, <4>1, <4>3 DEF RowFacts, Kept, Folders, Backed
        <5> QED BY <3>2, <3>4, <3>5, <3>6, <4>1, <4>3, <5>1 DEF RowFacts, Backed, WithArtifacts, Done
      <4> QED BY <4>2, <4>3
    <3> QED BY <3>2, <3>5, <3>6, <3>7 DEF RunFacts, Inside
  <2> QED BY <2>1, <2>2
<1>15. ASSUME NEW k \in Coordinators, NEW c \in Cases, PollFailed(k, c)
      PROVE  \A j \in Coordinators : RunFacts(j)'
  <2>1. ASSUME NEW j \in Coordinators \ {k}
        PROVE  RunFacts(j)'
    <3>1. run'[j] = run[j] /\ phase'[j] = phase[j]
      BY <1>15 DEF PollFailed, Goto, Leave, IInv, TypeOK
    <3>2. phase[k] \in Inside
      BY <1>15 DEF PollFailed, Inside, IInv
    <3> QED BY <3>1, <3>2, Alone, Others
  <2>2. RunFacts(k)'
    <3>1. /\ run'[k] = [run[k] EXCEPT !.row = [run[k].row EXCEPT ![c] = "FAILED"]]
          /\ phase' = phase /\ phase[k] = "scan"
          /\ att' = att /\ inputs' = inputs /\ engine' = engine /\ ledger' = ledger
      BY <1>15 DEF PollFailed, IInv, TypeOK
    <3>2. "FAILED" \in RowStates \ (Backed \union Done)
      BY DEF RowStates, Backed, WithArtifacts, Done
    <3> QED BY <3>1, <3>2, RowEnds
  <2> QED BY <2>1, <2>2
<1>16. ASSUME NEW k \in Coordinators, NEW c \in Cases, PollTimeout(k, c)
      PROVE  \A j \in Coordinators : RunFacts(j)'
  <2>1. ASSUME NEW j \in Coordinators \ {k}
        PROVE  RunFacts(j)'
    <3>1. run'[j] = run[j] /\ phase'[j] = phase[j]
      BY <1>16 DEF PollTimeout, Goto, Leave, IInv, TypeOK
    <3>2. phase[k] \in Inside
      BY <1>16 DEF PollTimeout, Inside, IInv
    <3> QED BY <3>1, <3>2, Alone, Others
  <2>2. RunFacts(k)'
    <3>1. /\ run'[k] = [run[k] EXCEPT !.row = [run[k].row EXCEPT ![c] = "TIMEOUT"]]
          /\ phase' = phase /\ phase[k] = "scan"
          /\ inputs' = inputs /\ engine' = engine /\ ledger' = ledger
          /\ \A a \in Folders : att'[a].invalid = att[a].invalid /\ att'[a].observed = att[a].observed
      BY <1>16 DEF PollTimeout, IInv, TypeOK, Close, Folders
    <3>2. "TIMEOUT" \in RowStates \ (Backed \union Done)
      BY DEF RowStates, Backed, WithArtifacts, Done
    <3> QED BY <3>1, <3>2, RowEnds
  <2> QED BY <2>1, <2>2
<1>17. ASSUME NEW k \in Coordinators, NEW c \in Cases, CheckRow(k, c)
      PROVE  \A j \in Coordinators : RunFacts(j)'
  <2>1. ASSUME NEW j \in Coordinators \ {k}
        PROVE  RunFacts(j)'
    <3>1. run'[j] = run[j] /\ phase'[j] = phase[j]
      BY <1>17 DEF CheckRow, Goto, Leave, IInv, TypeOK
    <3>2. phase[k] \in Inside
      BY <1>17 DEF CheckRow, Inside, IInv
    <3> QED BY <3>1, <3>2, Alone, Others
  <2>2. RunFacts(k)'
    <3>0. RunFacts(k) /\ Kept /\ run[k] \in RunRecords
      BY KeptStep DEF IInv, TypeOK
    <3> DEFINE a == run[k].at[c]
    <3>1. /\ inputs' = inputs /\ engine' = engine /\ ledger' = ledger /\ phase' = phase
          /\ phase[k] = "publish" /\ run[k].cleared = {} /\ run[k].stored = {}
      BY <1>17 DEF CheckRow
    <3>2. CASE /\ run' = [run EXCEPT ![k].row[c] = "STALE", ![k].todo = @ \ {c}]
               /\ \/ att' = att
                  \/ run[k].row[c] \in WithArtifacts /\ att' = [att EXCEPT ![a].invalid = TRUE]
      <4>1. run' = [run EXCEPT ![k] = [run[k] EXCEPT !.row = [run[k].row EXCEPT ![c] = "STALE"],
                                                     !.todo = run[k].todo \ {c}]]
        BY <3>2 DEF IInv, TypeOK
      <4>2. /\ run'[k].eng = run[k].eng /\ run'[k].sel = run[k].sel /\ run'[k].at = run[k].at
            /\ run'[k].cleared = {} /\ run'[k].stored = {} /\ run'[k].row[c] = "STALE"
            /\ run'[k].errors = run[k].errors
            /\ \A d \in Cases \ {c} : run'[k].row[d] = run[k].row[d]
        BY <3>0, <3>1, <4>1 DEF IInv, TypeOK, RunRecords
      <4>3. ASSUME NEW d \in Cases
            PROVE  RowFacts(k, d)'
        <5>1. RowFacts(k, d) /\ RowFacts(k, c)
          BY <3>0 DEF RunFacts
        <5>2. CASE d = c
          BY <3>1, <4>2, <5>1, <5>2 DEF RowFacts, Backed, WithArtifacts, Done
        <5>3. CASE d # c
          <6>1. run[k].row[d] \in Backed => run[k].at[d] \in Attempts /\ run[k].at[d] \in Folders'
            BY <3>0, <5>1 DEF RowFacts, Folders, Kept
          <6>2. run[k].row[d] \in Backed /\ run[k].row[c] \in WithArtifacts => run[k].at[d] # a
            BY <5>1, <5>3 DEF RowFacts, Backed
          <6>3. run[k].row[d] \in Backed => att'[run[k].at[d]] = att[run[k].at[d]]
            BY <3>2, <6>1, <6>2 DEF IInv, TypeOK
          <6> QED BY <3>1, <4>2, <5>1, <5>3, <6>1, <6>3 DEF RowFacts, Backed, WithArtifacts, Done
        <5> QED BY <5>2, <5>3
      <4> QED BY <3>0, <3>1, <4>2, <4>3 DEF RunFacts, Inside
    <3>3. CASE /\ run' = [run EXCEPT ![k].todo = @ \ {c},
                    ![k].cleared = IF run[k].row[c] \in {"SCANNED", "RECOVERING"} THEN {c} ELSE {}]
               /\ att' = att
               /\ c \notin run[k].errors
      <4>1. /\ run'[k].eng = run[k].eng /\ run'[k].sel = run[k].sel /\ run'[k].at = run[k].at
            /\ run'[k].stored = {} /\ run'[k].row = run[k].row /\ run'[k].errors = run[k].errors
            /\ run'[k].cleared = IF run[k].row[c] \in {"SCANNED", "RECOVERING"} THEN {c} ELSE {}
        BY <3>0, <3>1, <3>3 DEF IInv, TypeOK, RunRecords
      <4>2. ASSUME NEW d \in Cases
            PROVE  RowFacts(k, d)'
        <5>1. RowFacts(k, d)
          BY <3>0 DEF RunFacts
        <5>2. d \in run'[k].cleared => /\ d \notin run[k].errors
                                      /\ run[k].row[d] \in {"SCANNED", "RECOVERING"}
          BY <3>3, <4>1
        <5> QED BY <3>1, <3>3, <4>1, <5>1, <5>2 DEF RowFacts, Folders
      <4> QED BY <3>0, <3>1, <4>1, <4>2 DEF RunFacts, Inside
    <3> QED BY <1>17, <3>2, <3>3 DEF CheckRow
  <2> QED BY <2>1, <2>2
<1>18. ASSUME NEW k \in Coordinators, NEW c \in Cases, StoreReceipt(k, c)
      PROVE  \A j \in Coordinators : RunFacts(j)'
  <2>1. ASSUME NEW j \in Coordinators \ {k}
        PROVE  RunFacts(j)'
    <3>1. run'[j] = run[j] /\ phase'[j] = phase[j]
      BY <1>18 DEF StoreReceipt, Goto, Leave, IInv, TypeOK
    <3>2. phase[k] \in Inside
      BY <1>18 DEF StoreReceipt, Inside, IInv, RunFacts, RowFacts
    <3> QED BY <3>1, <3>2, Alone, Others
  <2>2. RunFacts(k)'
    <3>0. RunFacts(k) /\ Kept /\ run[k] \in RunRecords
      BY KeptStep DEF IInv, TypeOK
    <3> DEFINE a == run[k].at[c]
    <3>1. /\ inputs' = inputs /\ engine' = engine /\ phase' = phase /\ att' = att
          /\ ledger' = ledger \union {Receipt(a)} /\ c \in run[k].cleared
      BY <1>18 DEF StoreReceipt
    <3>2. /\ run'[k].eng = run[k].eng /\ run'[k].sel = run[k].sel /\ run'[k].at = run[k].at
          /\ run'[k].row = run[k].row /\ run'[k].errors = run[k].errors /\ run'[k].todo = run[k].todo
          /\ run'[k].cleared = {} /\ run'[k].stored = {Receipt(a)}
      BY <1>18, <3>0 DEF StoreReceipt, IInv, TypeOK, RunRecords
    <3>3. RowFacts(k, c) /\ phase[k] = "publish" /\ run[k].row[c] \in {"SCANNED", "RECOVERING"}
      BY <3>0, <3>1 DEF RunFacts, RowFacts
    <3>4. Receipt(a).case = c /\ Receipt(a).attempt = a
      BY <3>3 DEF RowFacts, Receipt, Backed, WithArtifacts
    <3>5. \A d \in Cases : RowFacts(k, d)'
      BY <3>0, <3>1, <3>2 DEF RunFacts, RowFacts, Folders
    <3> QED BY <3>0, <3>1, <3>2, <3>3, <3>4, <3>5 DEF RunFacts, Inside
  <2> QED BY <2>1, <2>2
<1>19. ASSUME NEW k \in Coordinators, NEW r \in run[k].stored, FileReceipt(k, r)
      PROVE  \A j \in Coordinators : RunFacts(j)'
  <2>1. ASSUME NEW j \in Coordinators \ {k}
        PROVE  RunFacts(j)'
    <3>1. run'[j] = run[j] /\ phase'[j] = phase[j]
      BY <1>19 DEF FileReceipt, Goto, Leave, IInv, TypeOK
    <3>2. phase[k] \in Inside
      BY <1>19 DEF FileReceipt, Inside, IInv, RunFacts, RowFacts
    <3> QED BY <3>1, <3>2, Alone, Others
  <2>2. RunFacts(k)'
    <3>0. RunFacts(k) /\ Kept /\ run[k] \in RunRecords
      BY KeptStep DEF IInv, TypeOK
    <3> DEFINE c == r.case
    <3>1. r \in ReceiptRecords /\ c \in Cases /\ r.attempt \in Attempts /\ r.evidence # "none"
      <4>1. r \in ReceiptRecords
        BY <3>0 DEF RunRecords
      <4>2. r.evidence # "none"
        BY DEF IInv, RunFacts, LedgerFacts
      <4> QED BY <4>1, <4>2 DEF ReceiptRecords
    <3>2. /\ inputs' = inputs /\ engine' = engine /\ phase' = phase /\ ledger' = ledger
          /\ att' = [att EXCEPT ![r.attempt].receipt = r.evidence]
      BY <1>19 DEF FileReceipt
    <3>3. /\ phase[k] = "publish" /\ run[k].row[c] \in {"SCANNED", "RECOVERING"}
          /\ run[k].at[c] = r.attempt /\ RowFacts(k, c)
      <4>1. run[k].row[c] \in {"SCANNED", "RECOVERING"} /\ run[k].at[c] = r.attempt
        BY <3>0 DEF RunFacts
      <4>2. phase[k] = "publish"
        BY <3>0 DEF RunFacts
      <4>3. RowFacts(k, c)
        BY <3>0, <3>1 DEF RunFacts
      <4> QED BY <4>1, <4>2, <4>3
    <3>4. run'[k] = [run[k] EXCEPT !.stored = {}, !.row = [run[k].row EXCEPT ![c] =
            IF run[k].row[c] = "RECOVERING" THEN "RECOVERED" ELSE "ANALYZED"]]
      BY <1>19, <3>0, <3>1 DEF FileReceipt, IInv, TypeOK, RunRecords
    <3>5. /\ run'[k].eng = run[k].eng /\ run'[k].sel = run[k].sel /\ run'[k].at = run[k].at
          /\ run'[k].errors = run[k].errors /\ run'[k].todo = run[k].todo
          /\ run'[k].cleared = run[k].cleared /\ run'[k].stored = {}
          /\ run'[k].row[c] \in {"RECOVERED", "ANALYZED"}
          /\ \A d \in Cases \ {c} : run'[k].row[d] = run[k].row[d]
      BY <3>0, <3>1, <3>4 DEF RunRecords
    <3>6. run[k].cleared = {}
      BY <3>0 DEF RunFacts
    <3>7. /\ r.attempt \in Folders /\ att[r.attempt] \in AttemptRecords
      BY <3>3, FolderType DEF RowFacts, Backed, WithArtifacts, IInv, Folders
    <3>8. /\ att'[r.attempt].receipt # "none" /\ r.attempt \in Folders'
          /\ att'[r.attempt].invalid = att[r.attempt].invalid
          /\ att'[r.attempt].case = att[r.attempt].case /\ att'[r.attempt].cand = att[r.attempt].cand
          /\ att'[r.attempt].eng = att[r.attempt].eng
      BY <3>0, <3>1, <3>2, <3>7 DEF IInv, TypeOK, AttemptRecords, Kept, Folders
    <3>9. \A b \in Attempts \ {r.attempt} : att'[b] = att[b]
      BY <3>2 DEF IInv, TypeOK
    <3>10. ASSUME NEW d \in Cases
           PROVE  RowFacts(k, d)'
      <4>1. RowFacts(k, d)
        BY <3>0 DEF RunFacts
      <4>2. CASE d = c
        BY <3>2, <3>3, <3>5, <3>6, <3>8, <4>1, <4>2 DEF RowFacts, Backed, WithArtifacts, Done
      <4>3. CASE d # c
        <5>1. run[k].row[d] \in Backed => run[k].at[d] \in Attempts \ {r.attempt}
          BY <3>3, <4>1, <4>3 DEF RowFacts, Folders, Backed, WithArtifacts
        <5> QED BY <3>2, <3>3, <3>5, <3>6, <3>9, <4>1, <4>3, <5>1
              DEF RowFacts, Backed, WithArtifacts, Done, Folders
      <4> QED BY <4>2, <4>3
    <3> QED BY <3>0, <3>2, <3>3, <3>5, <3>6, <3>10 DEF RunFacts, Inside
  <2> QED BY <2>1, <2>2
<1>20. ASSUME NEW k \in Coordinators, NEW reason \in {"CANCELLED", "MEMORY_STOP"}, Stop(k, reason)
      PROVE  \A j \in Coordinators : RunFacts(j)'
  <2>1. ASSUME NEW j \in Coordinators \ {k}
        PROVE  RunFacts(j)'
    <3>1. run'[j] = run[j] /\ phase'[j] = phase[j]
      BY <1>20 DEF Stop, Goto, Leave, IInv, TypeOK
    <3>2. phase[k] \in Inside
      BY <1>20 DEF Stop, Inside, IInv
    <3> QED BY <3>1, <3>2, Alone, Others
  <2>2. RunFacts(k)'
    <3>1. /\ run'[k] = [run[k] EXCEPT !.row =
               [c \in Cases |-> IF run[k].row[c] \in {"QUEUED", "STARTING", "ACTIVE"} THEN reason ELSE run[k].row[c]]]
          /\ phase'[k] = "postflight" /\ phase[k] \in {"choose", "scan"}
          /\ inputs' = inputs /\ engine' = engine /\ ledger' = ledger
          /\ \A a \in Folders : att'[a].invalid = att[a].invalid /\ att'[a].observed = att[a].observed
      BY <1>20 DEF Stop, Goto, IInv, TypeOK, Close, Folders
    <3>2. RunFacts(k) /\ Kept /\ run[k] \in RunRecords
      BY KeptStep DEF IInv, TypeOK
    <3>3. /\ run'[k].eng = run[k].eng /\ run'[k].sel = run[k].sel /\ run'[k].at = run[k].at
          /\ run'[k].cleared = {} /\ run'[k].stored = {}
          /\ \A c \in Cases : run'[k].row[c] =
               IF run[k].row[c] \in {"QUEUED", "STARTING", "ACTIVE"} THEN reason ELSE run[k].row[c]
      BY <3>1, <3>2 DEF RunFacts, RunRecords
    <3>4. ASSUME NEW c \in Cases
          PROVE  RowFacts(k, c)'
      <4>1. RowFacts(k, c)
        BY <3>2 DEF RunFacts
      <4>2. run[k].row[c] \in Backed => run[k].at[c] \in Folders'
        BY <3>2, <4>1 DEF RowFacts, Kept, Folders
      <4> QED BY <3>1, <3>2, <3>3, <4>1, <4>2 DEF RowFacts, Kept, Backed, WithArtifacts, Done
    <3> QED BY <3>1, <3>2, <3>3, <3>4 DEF RunFacts, Inside
  <2> QED BY <2>1, <2>2
<1>21. ASSUME NEW a \in Attempts, WorkerStart(a)
      PROVE  \A j \in Coordinators : RunFacts(j)'
  <2>1. a \in Folders /\ att[a] \in AttemptRecords
    BY <1>21, FolderType DEF WorkerStart, Live, Folders, NoFolder, IInv
  <2>2. /\ run' = run /\ phase' = phase /\ ledger' = ledger
        /\ \A b \in Folders : att'[b].invalid = att[b].invalid /\ att'[b].observed = att[b].observed
    BY <1>21, <2>1 DEF WorkerStart, IInv, TypeOK, AttemptRecords, Folders
  <2> QED BY <2>2, Others
<1>22. ASSUME NEW a \in Attempts, WorkerReads(a)
      PROVE  \A j \in Coordinators : RunFacts(j)'
  <2>1. a \in Folders /\ att[a] \in AttemptRecords
    BY <1>22, FolderType DEF WorkerReads, Live, Folders, NoFolder, IInv
  <2>2. /\ run' = run /\ phase' = phase /\ ledger' = ledger
        /\ \A b \in Folders : att'[b].invalid = att[b].invalid /\ att'[b].observed = att[b].observed
    BY <1>22, <2>1 DEF WorkerReads, IInv, TypeOK, AttemptRecords, Folders
  <2> QED BY <2>2, Others
<1>23. ASSUME NEW a \in Attempts, WorkerWrites(a)
      PROVE  \A j \in Coordinators : RunFacts(j)'
  <2>1. a \in Folders /\ att[a] \in AttemptRecords
    BY <1>23, FolderType DEF WorkerWrites, Live, Folders, NoFolder, IInv
  <2>2. /\ run' = run /\ phase' = phase /\ ledger' = ledger
        /\ \A b \in Folders : att'[b].invalid = att[b].invalid /\ att'[b].observed = att[b].observed
    BY <1>23, <2>1 DEF WorkerWrites, IInv, TypeOK, AttemptRecords, Folders
  <2> QED BY <2>2, Others
<1>24. ASSUME NEW a \in Attempts, WorkerFails(a)
      PROVE  \A j \in Coordinators : RunFacts(j)'
  <2>1. a \in Folders /\ att[a] \in AttemptRecords
    BY <1>24, FolderType DEF WorkerFails, Live, Folders, NoFolder, IInv
  <2>2. /\ run' = run /\ phase' = phase /\ ledger' = ledger
        /\ \A b \in Folders : att'[b].invalid = att[b].invalid /\ att'[b].observed = att[b].observed
    BY <1>24, <2>1 DEF WorkerFails, IInv, TypeOK, AttemptRecords, Folders
  <2> QED BY <2>2, Others
<1>25. ASSUME NEW a \in Attempts, Alter(a)
      PROVE  \A j \in Coordinators : RunFacts(j)'
  <2>1. a \in Folders /\ att[a] \in AttemptRecords
    BY <1>25, FolderType DEF Alter, Live, Folders, NoFolder, IInv
  <2>2. /\ run' = run /\ phase' = phase /\ ledger' = ledger
        /\ \A b \in Folders : att'[b].invalid = att[b].invalid /\ att'[b].observed = att[b].observed
    BY <1>25, <2>1 DEF Alter, IInv, TypeOK, AttemptRecords, Folders
  <2> QED BY <2>2, Others
<1>26. ASSUME NEW c \in Cases, EditInputs(c)
      PROVE  \A j \in Coordinators : RunFacts(j)'
  <2>1. run' = run /\ phase' = phase /\ ledger' = ledger /\ att' = att
    BY <1>26 DEF EditInputs
  <2> QED BY <2>1, Others
<1>27. ASSUME EditEngine
      PROVE  \A j \in Coordinators : RunFacts(j)'
  <2>1. run' = run /\ phase' = phase /\ ledger' = ledger /\ att' = att
    BY <1>27 DEF EditEngine
  <2> QED BY <2>1, Others
<1>28. CASE UNCHANGED vars
  <2>1. run' = run /\ phase' = phase /\ ledger' = ledger /\ att' = att
    BY <1>28 DEF vars
  <2> QED BY <2>1, Others
<1>29. ASSUME NEW k \in Coordinators, NEW c \in Cases, Register(k, c)
      PROVE  \A j \in Coordinators : RunFacts(j)'
  <2>1. ASSUME NEW j \in Coordinators \ {k}
        PROVE  RunFacts(j)'
    <3>1. run'[j] = run[j] /\ phase'[j] = phase[j]
      BY <1>29 DEF Register, IInv, TypeOK
    <3>2. phase[k] \in Inside
      BY <1>29 DEF Register, Inside, IInv
    <3> QED BY <3>1, <3>2, Alone, Others
  <2>2. RunFacts(k)'
    <3>1. /\ run'[k] = [run[k] EXCEPT !.row = [run[k].row EXCEPT ![c] = "ACTIVE"]]
          /\ phase'[k] = phase[k] /\ phase[k] = "scan" /\ run[k].row[c] = "STARTING"
          /\ att' = att /\ inputs' = inputs /\ engine' = engine /\ ledger' = ledger
      BY <1>29 DEF Register, IInv, TypeOK
    <3>2. RunFacts(k) /\ run[k] \in RunRecords
      BY DEF IInv, TypeOK
    <3>3. /\ run'[k].eng = run[k].eng /\ run'[k].sel = run[k].sel /\ run'[k].at = run[k].at
          /\ run'[k].cleared = {} /\ run'[k].stored = {} /\ run'[k].row[c] = "ACTIVE"
          /\ \A d \in Cases \ {c} : run'[k].row[d] = run[k].row[d]
      BY <3>1, <3>2 DEF RunFacts, RunRecords
    <3>4. ASSUME NEW d \in Cases
          PROVE  RowFacts(k, d)'
      <4>1. RowFacts(k, d)
        BY <3>2 DEF RunFacts
      <4>2. CASE d = c
        BY <3>1, <3>3, <4>1, <4>2 DEF RowFacts, Backed, WithArtifacts, Done, Folders
      <4>3. CASE d # c
        BY <3>1, <3>3, <4>1, <4>3 DEF RowFacts, Backed, WithArtifacts, Done, Folders
      <4> QED BY <4>2, <4>3
    <3> QED BY <3>1, <3>2, <3>3, <3>4 DEF RunFacts, Inside
  <2> QED BY <2>1, <2>2
<1>30. ASSUME NEW k \in Coordinators, CloseRaises(k)
      PROVE  \A j \in Coordinators : RunFacts(j)'
  <2>1. ASSUME NEW j \in Coordinators \ {k}
        PROVE  RunFacts(j)'
    <3>1. run'[j] = run[j] /\ phase'[j] = phase[j]
      BY <1>30 DEF CloseRaises, Goto, Leave, IInv, TypeOK
    <3>2. phase[k] \in Inside
      BY <1>30 DEF CloseRaises, Inside, IInv
    <3> QED BY <3>1, <3>2, Alone, Others
  <2>2. RunFacts(k)'
    <3>1. run'[k] = NoRun /\ phase'[k] = "idle"
      BY <1>30 DEF CloseRaises, Leave, Goto, IInv, TypeOK
    <3> QED BY <3>1, Over
  <2> QED BY <2>1, <2>2
<1>31. ASSUME NEW a \in Attempts, WorkerExits(a)
      PROVE  \A j \in Coordinators : RunFacts(j)'
  <2>1. a \in Folders /\ att[a] \in AttemptRecords
    BY <1>31, FolderType DEF WorkerExits, Live, Folders, NoFolder, IInv
  <2>2. /\ run' = run /\ phase' = phase /\ ledger' = ledger
        /\ \A b \in Folders : att'[b].invalid = att[b].invalid /\ att'[b].observed = att[b].observed
    BY <1>31, <2>1 DEF WorkerExits, IInv, TypeOK, AttemptRecords, Folders
  <2> QED BY <2>2, Others
<1> QED
  BY <1>1, <1>2, <1>3, <1>4, <1>5, <1>6, <1>7, <1>8, <1>9, <1>10, <1>11, <1>12, <1>13, <1>14, <1>15, <1>16, <1>17, <1>18, <1>19, <1>20, <1>21, <1>22, <1>23, <1>24, <1>25, <1>26, <1>27, <1>28, <1>29, <1>30, <1>31
     DEF Next, Step, Interruption, Worker, World

(* What a stored receipt says stays true of its attempt. *)
LEMMA LedgerKept ==
  ASSUME IInv, [Next]_vars, NEW r \in ledger
  PROVE  /\ r.attempt \in Folders'
         /\ r.case = att'[r.attempt].case
         /\ r.cand = att'[r.attempt].cand
         /\ r.eng = att'[r.attempt].eng
         /\ r.observed = att'[r.attempt].observed
         /\ r.observed # 0
         /\ r.evidence # "none"
         /\ att'[r.attempt].read = {r.cand}
<1>1. /\ r.attempt \in Folders /\ r.case = att[r.attempt].case /\ r.cand = att[r.attempt].cand
      /\ r.eng = att[r.attempt].eng /\ r.observed = att[r.attempt].observed /\ r.observed # 0
      /\ r.evidence # "none" /\ att[r.attempt].read = {r.cand}
  BY DEF IInv, LedgerFacts
<1>2. att[r.attempt].worker = "exited"
  BY <1>1 DEF IInv, Settled
<1> QED BY <1>1, <1>2, KeptStep DEF Kept, Folders

(* The receipt files of the folders stay covered by the store. *)
LEMMA FiledKept ==
  ASSUME IInv, [Next]_vars, ledger \subseteq ledger',
         \A a \in Attempts :
           \/ att'[a] = att[a]
           \/ a \in Folders /\ att'[a].receipt = att[a].receipt
           \/ att'[a].receipt = "none"
  PROVE  FiledIsStored'
<1>1. FiledIsStored /\ Kept
  BY KeptStep DEF IInv
<1>2. ASSUME NEW a \in Folders', att'[a].receipt # "none"
      PROVE  \E r \in ledger' : /\ r.attempt = a
                                /\ r.evidence = att'[a].receipt
                                /\ r.case = att'[a].case
                                /\ r.cand = att'[a].cand
                                /\ r.eng = att'[a].eng
  <2>1. a \in Folders /\ att'[a].receipt = att[a].receipt
    BY <1>2 DEF Folders
  <2>2. att'[a].case = att[a].case /\ att'[a].cand = att[a].cand /\ att'[a].eng = att[a].eng
    BY <1>1, <2>1 DEF Kept
  <2>3. PICK r \in ledger : /\ r.attempt = a
                            /\ r.evidence = att[a].receipt
                            /\ r.case = att[a].case
                            /\ r.cand = att[a].cand
                            /\ r.eng = att[a].eng
    BY <1>1, <1>2, <2>1 DEF FiledIsStored
  <2> QED BY <2>1, <2>2, <2>3
<1> QED BY <1>2 DEF FiledIsStored

(* Receipts go into the store first, and only for rows that are cleared. *)
LEMMA LedgerStep ==
  ASSUME IInv, [Next]_vars
  PROVE  LedgerFacts' /\ FiledIsStored'
<1>1. ASSUME NEW k \in Coordinators, Arrive(k)
      PROVE  LedgerFacts' /\ FiledIsStored'
  <2>1. ledger' = ledger
    BY <1>1 DEF Arrive
  <2>2. LedgerFacts'
    BY <2>1, LedgerKept DEF LedgerFacts
  <2>3. \A b \in Attempts :
          \/ att'[b] = att[b]
          \/ b \in Folders /\ att'[b].receipt = att[b].receipt
          \/ att'[b].receipt = "none"
    BY <1>1 DEF Arrive
  <2> QED BY <2>1, <2>2, <2>3, FiledKept
<1>2. ASSUME NEW k \in Coordinators, TakeLease(k)
      PROVE  LedgerFacts' /\ FiledIsStored'
  <2>1. ledger' = ledger
    BY <1>2 DEF TakeLease
  <2>2. LedgerFacts'
    BY <2>1, LedgerKept DEF LedgerFacts
  <2>3. \A b \in Attempts :
          \/ att'[b] = att[b]
          \/ b \in Folders /\ att'[b].receipt = att[b].receipt
          \/ att'[b].receipt = "none"
    BY <1>2 DEF TakeLease
  <2> QED BY <2>1, <2>2, <2>3, FiledKept
<1>3. ASSUME NEW k \in Coordinators, LeaseRefused(k)
      PROVE  LedgerFacts' /\ FiledIsStored'
  <2>1. ledger' = ledger
    BY <1>3 DEF LeaseRefused
  <2>2. LedgerFacts'
    BY <2>1, LedgerKept DEF LedgerFacts
  <2>3. \A b \in Attempts :
          \/ att'[b] = att[b]
          \/ b \in Folders /\ att'[b].receipt = att[b].receipt
          \/ att'[b].receipt = "none"
    BY <1>3 DEF LeaseRefused
  <2> QED BY <2>1, <2>2, <2>3, FiledKept
<1>4. ASSUME NEW k \in Coordinators, Preflight(k)
      PROVE  LedgerFacts' /\ FiledIsStored'
  <2>1. ledger' = ledger
    BY <1>4 DEF Preflight
  <2>2. LedgerFacts'
    BY <2>1, LedgerKept DEF LedgerFacts
  <2>3. \A b \in Attempts :
          \/ att'[b] = att[b]
          \/ b \in Folders /\ att'[b].receipt = att[b].receipt
          \/ att'[b].receipt = "none"
    BY <1>4 DEF Preflight
  <2> QED BY <2>1, <2>2, <2>3, FiledKept
<1>5. ASSUME NEW k \in Coordinators, EndChoose(k)
      PROVE  LedgerFacts' /\ FiledIsStored'
  <2>1. ledger' = ledger
    BY <1>5 DEF EndChoose
  <2>2. LedgerFacts'
    BY <2>1, LedgerKept DEF LedgerFacts
  <2>3. \A b \in Attempts :
          \/ att'[b] = att[b]
          \/ b \in Folders /\ att'[b].receipt = att[b].receipt
          \/ att'[b].receipt = "none"
    BY <1>5 DEF EndChoose
  <2> QED BY <2>1, <2>2, <2>3, FiledKept
<1>6. ASSUME NEW k \in Coordinators, EndScan(k)
      PROVE  LedgerFacts' /\ FiledIsStored'
  <2>1. ledger' = ledger
    BY <1>6 DEF EndScan
  <2>2. LedgerFacts'
    BY <2>1, LedgerKept DEF LedgerFacts
  <2>3. \A b \in Attempts :
          \/ att'[b] = att[b]
          \/ b \in Folders /\ att'[b].receipt = att[b].receipt
          \/ att'[b].receipt = "none"
    BY <1>6 DEF EndScan
  <2> QED BY <2>1, <2>2, <2>3, FiledKept
<1>7. ASSUME NEW k \in Coordinators, Postflight(k)
      PROVE  LedgerFacts' /\ FiledIsStored'
  <2>1. ledger' = ledger
    BY <1>7 DEF Postflight
  <2>2. LedgerFacts'
    BY <2>1, LedgerKept DEF LedgerFacts
  <2>3. \A b \in Attempts :
          \/ att'[b] = att[b]
          \/ b \in Folders /\ att'[b].receipt = att[b].receipt
          \/ att'[b].receipt = "none"
    BY <1>7 DEF Postflight
  <2> QED BY <2>1, <2>2, <2>3, FiledKept
<1>8. ASSUME NEW k \in Coordinators, Report(k)
      PROVE  LedgerFacts' /\ FiledIsStored'
  <2>1. ledger' = ledger
    BY <1>8 DEF Report
  <2>2. LedgerFacts'
    BY <2>1, LedgerKept DEF LedgerFacts
  <2>3. \A b \in Attempts :
          \/ att'[b] = att[b]
          \/ b \in Folders /\ att'[b].receipt = att[b].receipt
          \/ att'[b].receipt = "none"
    BY <1>8 DEF Report
  <2> QED BY <2>1, <2>2, <2>3, FiledKept
<1>9. ASSUME NEW k \in Coordinators, Raise(k)
      PROVE  LedgerFacts' /\ FiledIsStored'
  <2>1. ledger' = ledger
    BY <1>9 DEF Raise
  <2>2. LedgerFacts'
    BY <2>1, LedgerKept DEF LedgerFacts
  <2>3. \A b \in Attempts :
          \/ att'[b] = att[b]
          \/ b \in Folders /\ att'[b].receipt = att[b].receipt
          \/ att'[b].receipt = "none"
    <3>1. \A b \in Folders : att[b] \in AttemptRecords
      BY FolderType DEF IInv, Folders
    <3> QED BY <1>9, <3>1 DEF Raise, IInv, TypeOK, AttemptRecords, Folders, NoFolder, Close, Live
  <2> QED BY <2>1, <2>2, <2>3, FiledKept
<1>10. ASSUME NEW k \in Coordinators, Crash(k)
      PROVE  LedgerFacts' /\ FiledIsStored'
  <2>1. ledger' = ledger
    BY <1>10 DEF Crash
  <2>2. LedgerFacts'
    BY <2>1, LedgerKept DEF LedgerFacts
  <2>3. \A b \in Attempts :
          \/ att'[b] = att[b]
          \/ b \in Folders /\ att'[b].receipt = att[b].receipt
          \/ att'[b].receipt = "none"
    <3>1. \A b \in Folders : att[b] \in AttemptRecords
      BY FolderType DEF IInv, Folders
    <3> QED BY <1>10, <3>1 DEF Crash, IInv, TypeOK, AttemptRecords, Folders, NoFolder, Close, Live
  <2> QED BY <2>1, <2>2, <2>3, FiledKept
<1>11. ASSUME NEW k \in Coordinators, NEW c \in Cases, Choose(k, c)
      PROVE  LedgerFacts' /\ FiledIsStored'
  <2>1. ledger' = ledger
    BY <1>11 DEF Choose
  <2>2. LedgerFacts'
    BY <2>1, LedgerKept DEF LedgerFacts
  <2>3. \A b \in Attempts :
          \/ att'[b] = att[b]
          \/ b \in Folders /\ att'[b].receipt = att[b].receipt
          \/ att'[b].receipt = "none"
    <3>1. \A b \in Folders : att[b] \in AttemptRecords
      BY FolderType DEF IInv, Folders
    <3> QED BY <1>11, <3>1 DEF Choose, IInv, TypeOK, AttemptRecords, Folders, NoFolder, Close, Live
  <2> QED BY <2>1, <2>2, <2>3, FiledKept
<1>12. ASSUME NEW k \in Coordinators, NEW c \in Cases, Launch(k, c)
      PROVE  LedgerFacts' /\ FiledIsStored'
  <2>1. ledger' = ledger
    BY <1>12 DEF Launch
  <2>2. LedgerFacts'
    BY <2>1, LedgerKept DEF LedgerFacts
  <2>3. \A b \in Attempts :
          \/ att'[b] = att[b]
          \/ b \in Folders /\ att'[b].receipt = att[b].receipt
          \/ att'[b].receipt = "none"
    <3>1. PICK a \in Attempts \ Folders :
            att' = [att EXCEPT ![a] =
               [case |-> c, cand |-> run[k].sel[c], eng |-> run[k].eng,
                worker |-> "waiting", gate |-> FALSE, orphan |-> FALSE, stray |-> FALSE,
                ran |-> {engine}, read |-> {}, bytes |-> "none", observed |-> 0,
                invalid |-> FALSE, receipt |-> "none", noticed |-> FALSE]]
      BY <1>12 DEF Launch
    <3> QED BY <3>1 DEF IInv, TypeOK
  <2> QED BY <2>1, <2>2, <2>3, FiledKept
<1>13. ASSUME NEW k \in Coordinators, NEW c \in Cases, OpenGate(k, c)
      PROVE  LedgerFacts' /\ FiledIsStored'
  <2>1. ledger' = ledger
    BY <1>13 DEF OpenGate
  <2>2. LedgerFacts'
    BY <2>1, LedgerKept DEF LedgerFacts
  <2>3. \A b \in Attempts :
          \/ att'[b] = att[b]
          \/ b \in Folders /\ att'[b].receipt = att[b].receipt
          \/ att'[b].receipt = "none"
    <3>1. \A b \in Folders : att[b] \in AttemptRecords
      BY FolderType DEF IInv, Folders
    <3> QED BY <1>13, <3>1 DEF OpenGate, IInv, TypeOK, AttemptRecords, Folders, NoFolder, Close, Live
  <2> QED BY <2>1, <2>2, <2>3, FiledKept
<1>14. ASSUME NEW k \in Coordinators, NEW c \in Cases, PollScanned(k, c)
      PROVE  LedgerFacts' /\ FiledIsStored'
  <2>1. ledger' = ledger
    BY <1>14 DEF PollScanned
  <2>2. LedgerFacts'
    BY <2>1, LedgerKept DEF LedgerFacts
  <2>3. \A b \in Attempts :
          \/ att'[b] = att[b]
          \/ b \in Folders /\ att'[b].receipt = att[b].receipt
          \/ att'[b].receipt = "none"
    <3>1. \A b \in Folders : att[b] \in AttemptRecords
      BY FolderType DEF IInv, Folders
    <3> QED BY <1>14, <3>1 DEF PollScanned, IInv, TypeOK, AttemptRecords, Folders, NoFolder, Close, Live
  <2> QED BY <2>1, <2>2, <2>3, FiledKept
<1>15. ASSUME NEW k \in Coordinators, NEW c \in Cases, PollFailed(k, c)
      PROVE  LedgerFacts' /\ FiledIsStored'
  <2>1. ledger' = ledger
    BY <1>15 DEF PollFailed
  <2>2. LedgerFacts'
    BY <2>1, LedgerKept DEF LedgerFacts
  <2>3. \A b \in Attempts :
          \/ att'[b] = att[b]
          \/ b \in Folders /\ att'[b].receipt = att[b].receipt
          \/ att'[b].receipt = "none"
    BY <1>15 DEF PollFailed
  <2> QED BY <2>1, <2>2, <2>3, FiledKept
<1>16. ASSUME NEW k \in Coordinators, NEW c \in Cases, PollTimeout(k, c)
      PROVE  LedgerFacts' /\ FiledIsStored'
  <2>1. ledger' = ledger
    BY <1>16 DEF PollTimeout
  <2>2. LedgerFacts'
    BY <2>1, LedgerKept DEF LedgerFacts
  <2>3. \A b \in Attempts :
          \/ att'[b] = att[b]
          \/ b \in Folders /\ att'[b].receipt = att[b].receipt
          \/ att'[b].receipt = "none"
    <3>1. \A b \in Folders : att[b] \in AttemptRecords
      BY FolderType DEF IInv, Folders
    <3> QED BY <1>16, <3>1 DEF PollTimeout, IInv, TypeOK, AttemptRecords, Folders, NoFolder, Close, Live
  <2> QED BY <2>1, <2>2, <2>3, FiledKept
<1>17. ASSUME NEW k \in Coordinators, NEW c \in Cases, CheckRow(k, c)
      PROVE  LedgerFacts' /\ FiledIsStored'
  <2>1. ledger' = ledger
    BY <1>17 DEF CheckRow
  <2>2. LedgerFacts'
    BY <2>1, LedgerKept DEF LedgerFacts
  <2>3. \A b \in Attempts :
          \/ att'[b] = att[b]
          \/ b \in Folders /\ att'[b].receipt = att[b].receipt
          \/ att'[b].receipt = "none"
    <3>1. \A b \in Folders : att[b] \in AttemptRecords
      BY FolderType DEF IInv, Folders
    <3> QED BY <1>17, <3>1 DEF CheckRow, IInv, TypeOK, AttemptRecords, Folders, NoFolder, Close, Live
  <2> QED BY <2>1, <2>2, <2>3, FiledKept
<1>18. ASSUME NEW k \in Coordinators, NEW c \in Cases, StoreReceipt(k, c)
      PROVE  LedgerFacts' /\ FiledIsStored'
  <2> DEFINE a == run[k].at[c]
  <2>1. att' = att /\ ledger' = ledger \union {Receipt(a)} /\ c \in run[k].cleared
    BY <1>18 DEF StoreReceipt
  <2>2. RowFacts(k, c)
    BY DEF IInv, RunFacts
  <2>3. /\ a \in Folders /\ att[a].observed # 0 /\ att[a].read = {att[a].cand}
        /\ att[a].bytes # "none"
    <3>1. a \in Folders /\ att[a].observed # 0 /\ att[a].read = {att[a].cand}
      BY <2>1, <2>2 DEF RowFacts, Backed, WithArtifacts
    <3> QED BY <3>1 DEF IInv, Settled, FolderFacts
  <2>4. LedgerFacts'
    BY <2>1, <2>3, LedgerKept DEF LedgerFacts, Receipt, Folders
  <2> QED BY <2>1, <2>4, FiledKept
<1>19. ASSUME NEW k \in Coordinators, NEW r \in run[k].stored, FileReceipt(k, r)
      PROVE  LedgerFacts' /\ FiledIsStored'
  <2>1. /\ ledger' = ledger /\ att' = [att EXCEPT ![r.attempt].receipt = r.evidence]
    BY <1>19 DEF FileReceipt
  <2>2. LedgerFacts'
    BY <2>1, LedgerKept DEF LedgerFacts
  <2>3. r \in ledger
    BY DEF IInv, RunFacts
  <2>4. r.attempt \in Attempts /\ att[r.attempt] \in AttemptRecords
    BY <2>3, FolderType DEF IInv, LedgerFacts, Folders
  <2>5. ASSUME NEW b \in Folders', att'[b].receipt # "none"
        PROVE  \E q \in ledger' : /\ q.attempt = b
                                  /\ q.evidence = att'[b].receipt
                                  /\ q.case = att'[b].case
                                  /\ q.cand = att'[b].cand
                                  /\ q.eng = att'[b].eng
    <3>1. CASE b = r.attempt
      <4>1. att'[b].receipt = r.evidence
        BY <2>1, <2>4, <3>1 DEF IInv, TypeOK, AttemptRecords
      <4> QED BY <2>1, <2>3, <3>1, <4>1, LedgerKept
    <3>2. CASE b # r.attempt
      <4>1. b \in Folders /\ att'[b] = att[b]
        BY <2>1, <3>2 DEF IInv, TypeOK, Folders
      <4>2. att[b].receipt # "none"
        BY <2>5, <4>1
      <4>3. PICK q \in ledger : /\ q.attempt = b
                                /\ q.evidence = att[b].receipt
                                /\ q.case = att[b].case
                                /\ q.cand = att[b].cand
                                /\ q.eng = att[b].eng
        BY <4>1, <4>2 DEF IInv, FiledIsStored
      <4> QED BY <2>1, <4>1, <4>3
    <3> QED BY <3>1, <3>2
  <2> QED BY <2>2, <2>5 DEF FiledIsStored
<1>20. ASSUME NEW k \in Coordinators, NEW reason \in {"CANCELLED", "MEMORY_STOP"}, Stop(k, reason)
      PROVE  LedgerFacts' /\ FiledIsStored'
  <2>1. ledger' = ledger
    BY <1>20 DEF Stop
  <2>2. LedgerFacts'
    BY <2>1, LedgerKept DEF LedgerFacts
  <2>3. \A b \in Attempts :
          \/ att'[b] = att[b]
          \/ b \in Folders /\ att'[b].receipt = att[b].receipt
          \/ att'[b].receipt = "none"
    <3>1. \A b \in Folders : att[b] \in AttemptRecords
      BY FolderType DEF IInv, Folders
    <3> QED BY <1>20, <3>1 DEF Stop, IInv, TypeOK, AttemptRecords, Folders, NoFolder, Close, Live
  <2> QED BY <2>1, <2>2, <2>3, FiledKept
<1>21. ASSUME NEW a \in Attempts, WorkerStart(a)
      PROVE  LedgerFacts' /\ FiledIsStored'
  <2>1. ledger' = ledger
    BY <1>21 DEF WorkerStart
  <2>2. LedgerFacts'
    BY <2>1, LedgerKept DEF LedgerFacts
  <2>3. \A b \in Attempts :
          \/ att'[b] = att[b]
          \/ b \in Folders /\ att'[b].receipt = att[b].receipt
          \/ att'[b].receipt = "none"
    <3>1. \A b \in Folders : att[b] \in AttemptRecords
      BY FolderType DEF IInv, Folders
    <3> QED BY <1>21, <3>1 DEF WorkerStart, IInv, TypeOK, AttemptRecords, Folders, NoFolder, Close, Live
  <2> QED BY <2>1, <2>2, <2>3, FiledKept
<1>22. ASSUME NEW a \in Attempts, WorkerReads(a)
      PROVE  LedgerFacts' /\ FiledIsStored'
  <2>1. ledger' = ledger
    BY <1>22 DEF WorkerReads
  <2>2. LedgerFacts'
    BY <2>1, LedgerKept DEF LedgerFacts
  <2>3. \A b \in Attempts :
          \/ att'[b] = att[b]
          \/ b \in Folders /\ att'[b].receipt = att[b].receipt
          \/ att'[b].receipt = "none"
    <3>1. \A b \in Folders : att[b] \in AttemptRecords
      BY FolderType DEF IInv, Folders
    <3> QED BY <1>22, <3>1 DEF WorkerReads, IInv, TypeOK, AttemptRecords, Folders, NoFolder, Close, Live
  <2> QED BY <2>1, <2>2, <2>3, FiledKept
<1>23. ASSUME NEW a \in Attempts, WorkerWrites(a)
      PROVE  LedgerFacts' /\ FiledIsStored'
  <2>1. ledger' = ledger
    BY <1>23 DEF WorkerWrites
  <2>2. LedgerFacts'
    BY <2>1, LedgerKept DEF LedgerFacts
  <2>3. \A b \in Attempts :
          \/ att'[b] = att[b]
          \/ b \in Folders /\ att'[b].receipt = att[b].receipt
          \/ att'[b].receipt = "none"
    <3>1. \A b \in Folders : att[b] \in AttemptRecords
      BY FolderType DEF IInv, Folders
    <3> QED BY <1>23, <3>1 DEF WorkerWrites, IInv, TypeOK, AttemptRecords, Folders, NoFolder, Close, Live
  <2> QED BY <2>1, <2>2, <2>3, FiledKept
<1>24. ASSUME NEW a \in Attempts, WorkerFails(a)
      PROVE  LedgerFacts' /\ FiledIsStored'
  <2>1. ledger' = ledger
    BY <1>24 DEF WorkerFails
  <2>2. LedgerFacts'
    BY <2>1, LedgerKept DEF LedgerFacts
  <2>3. \A b \in Attempts :
          \/ att'[b] = att[b]
          \/ b \in Folders /\ att'[b].receipt = att[b].receipt
          \/ att'[b].receipt = "none"
    <3>1. \A b \in Folders : att[b] \in AttemptRecords
      BY FolderType DEF IInv, Folders
    <3> QED BY <1>24, <3>1 DEF WorkerFails, IInv, TypeOK, AttemptRecords, Folders, NoFolder, Close, Live
  <2> QED BY <2>1, <2>2, <2>3, FiledKept
<1>25. ASSUME NEW a \in Attempts, Alter(a)
      PROVE  LedgerFacts' /\ FiledIsStored'
  <2>1. ledger' = ledger
    BY <1>25 DEF Alter
  <2>2. LedgerFacts'
    BY <2>1, LedgerKept DEF LedgerFacts
  <2>3. \A b \in Attempts :
          \/ att'[b] = att[b]
          \/ b \in Folders /\ att'[b].receipt = att[b].receipt
          \/ att'[b].receipt = "none"
    <3>1. \A b \in Folders : att[b] \in AttemptRecords
      BY FolderType DEF IInv, Folders
    <3> QED BY <1>25, <3>1 DEF Alter, IInv, TypeOK, AttemptRecords, Folders, NoFolder, Close, Live
  <2> QED BY <2>1, <2>2, <2>3, FiledKept
<1>26. ASSUME NEW c \in Cases, EditInputs(c)
      PROVE  LedgerFacts' /\ FiledIsStored'
  <2>1. ledger' = ledger
    BY <1>26 DEF EditInputs
  <2>2. LedgerFacts'
    BY <2>1, LedgerKept DEF LedgerFacts
  <2>3. \A b \in Attempts :
          \/ att'[b] = att[b]
          \/ b \in Folders /\ att'[b].receipt = att[b].receipt
          \/ att'[b].receipt = "none"
    BY <1>26 DEF EditInputs
  <2> QED BY <2>1, <2>2, <2>3, FiledKept
<1>27. ASSUME EditEngine
      PROVE  LedgerFacts' /\ FiledIsStored'
  <2>1. ledger' = ledger
    BY <1>27 DEF EditEngine
  <2>2. LedgerFacts'
    BY <2>1, LedgerKept DEF LedgerFacts
  <2>3. \A b \in Attempts :
          \/ att'[b] = att[b]
          \/ b \in Folders /\ att'[b].receipt = att[b].receipt
          \/ att'[b].receipt = "none"
    BY <1>27 DEF EditEngine
  <2> QED BY <2>1, <2>2, <2>3, FiledKept
<1>28. CASE UNCHANGED vars
  <2>1. ledger' = ledger
    BY <1>28 DEF vars
  <2>2. LedgerFacts'
    BY <2>1, LedgerKept DEF LedgerFacts
  <2>3. \A b \in Attempts :
          \/ att'[b] = att[b]
          \/ b \in Folders /\ att'[b].receipt = att[b].receipt
          \/ att'[b].receipt = "none"
    BY <1>28 DEF vars
  <2> QED BY <2>1, <2>2, <2>3, FiledKept
<1>29. ASSUME NEW k \in Coordinators, NEW c \in Cases, Register(k, c)
      PROVE  LedgerFacts' /\ FiledIsStored'
  <2>1. ledger' = ledger
    BY <1>29 DEF Register
  <2>2. LedgerFacts'
    BY <2>1, LedgerKept DEF LedgerFacts
  <2>3. \A b \in Attempts :
          \/ att'[b] = att[b]
          \/ b \in Folders /\ att'[b].receipt = att[b].receipt
          \/ att'[b].receipt = "none"
    BY <1>29 DEF Register
  <2> QED BY <2>1, <2>2, <2>3, FiledKept
<1>30. ASSUME NEW k \in Coordinators, CloseRaises(k)
      PROVE  LedgerFacts' /\ FiledIsStored'
  <2>1. ledger' = ledger
    BY <1>30 DEF CloseRaises
  <2>2. LedgerFacts'
    BY <2>1, LedgerKept DEF LedgerFacts
  <2>3. \A b \in Attempts :
          \/ att'[b] = att[b]
          \/ b \in Folders /\ att'[b].receipt = att[b].receipt
          \/ att'[b].receipt = "none"
    <3>1. \A b \in Folders : att[b] \in AttemptRecords
      BY FolderType DEF IInv, Folders
    <3>2. \A b \in Attempts :
            \/ att'[b] = att[b]
            \/ b \in Folders /\ (\/ att'[b] = [att[b] EXCEPT !.worker = "failed"]
                                 \/ att'[b] = [att[b] EXCEPT !.stray = TRUE])
      BY <1>30, CloseRaisesDoes DEF IInv
    <3> QED BY <3>1, <3>2 DEF AttemptRecords
  <2> QED BY <2>1, <2>2, <2>3, FiledKept
<1>31. ASSUME NEW a \in Attempts, WorkerExits(a)
      PROVE  LedgerFacts' /\ FiledIsStored'
  <2>1. ledger' = ledger
    BY <1>31 DEF WorkerExits
  <2>2. LedgerFacts'
    BY <2>1, LedgerKept DEF LedgerFacts
  <2>3. \A b \in Attempts :
          \/ att'[b] = att[b]
          \/ b \in Folders /\ att'[b].receipt = att[b].receipt
          \/ att'[b].receipt = "none"
    <3>1. \A b \in Folders : att[b] \in AttemptRecords
      BY FolderType DEF IInv, Folders
    <3> QED BY <1>31, <3>1 DEF WorkerExits, IInv, TypeOK, AttemptRecords, Folders, NoFolder, Close, Live
  <2> QED BY <2>1, <2>2, <2>3, FiledKept
<1> QED
  BY <1>1, <1>2, <1>3, <1>4, <1>5, <1>6, <1>7, <1>8, <1>9, <1>10, <1>11, <1>12, <1>13, <1>14, <1>15, <1>16, <1>17, <1>18, <1>19, <1>20, <1>21, <1>22, <1>23, <1>24, <1>25, <1>26, <1>27, <1>28, <1>29, <1>30, <1>31
     DEF Next, Step, Interruption, Worker, World

(* A row that is done has a filed, hence a stored receipt. *)
LEMMA CompleteStep ==
  ASSUME IInv, [Next]_vars
  PROVE  CompleteIsAnalysed'
<1>1. ASSUME NEW k \in Coordinators, Arrive(k)
      PROVE  CompleteIsAnalysed'
  <2>1. reports' = reports /\ ledger \subseteq ledger'
    BY <1>1 DEF Arrive
  <2> QED BY <2>1 DEF IInv, CompleteIsAnalysed
<1>2. ASSUME NEW k \in Coordinators, TakeLease(k)
      PROVE  CompleteIsAnalysed'
  <2>1. reports' = reports /\ ledger \subseteq ledger'
    BY <1>2 DEF TakeLease
  <2> QED BY <2>1 DEF IInv, CompleteIsAnalysed
<1>3. ASSUME NEW k \in Coordinators, LeaseRefused(k)
      PROVE  CompleteIsAnalysed'
  <2>1. reports' = reports /\ ledger \subseteq ledger'
    BY <1>3 DEF LeaseRefused
  <2> QED BY <2>1 DEF IInv, CompleteIsAnalysed
<1>4. ASSUME NEW k \in Coordinators, Preflight(k)
      PROVE  CompleteIsAnalysed'
  <2>1. reports' = reports /\ ledger \subseteq ledger'
    BY <1>4 DEF Preflight
  <2> QED BY <2>1 DEF IInv, CompleteIsAnalysed
<1>5. ASSUME NEW k \in Coordinators, EndChoose(k)
      PROVE  CompleteIsAnalysed'
  <2>1. reports' = reports /\ ledger \subseteq ledger'
    BY <1>5 DEF EndChoose
  <2> QED BY <2>1 DEF IInv, CompleteIsAnalysed
<1>6. ASSUME NEW k \in Coordinators, EndScan(k)
      PROVE  CompleteIsAnalysed'
  <2>1. reports' = reports /\ ledger \subseteq ledger'
    BY <1>6 DEF EndScan
  <2> QED BY <2>1 DEF IInv, CompleteIsAnalysed
<1>7. ASSUME NEW k \in Coordinators, Postflight(k)
      PROVE  CompleteIsAnalysed'
  <2>1. reports' = reports /\ ledger \subseteq ledger'
    BY <1>7 DEF Postflight
  <2> QED BY <2>1 DEF IInv, CompleteIsAnalysed
<1>8. ASSUME NEW k \in Coordinators, Report(k)
      PROVE  CompleteIsAnalysed'
  <2>1. /\ ledger' = ledger
        /\ reports' = reports \union
             {[sel |-> run[k].sel, eng |-> run[k].eng, complete |-> Rows(k, Done) = Cases]}
    BY <1>8 DEF Report
  <2>2. ASSUME Rows(k, Done) = Cases, NEW c \in Cases
        PROVE  \E r \in ledger : r.case = c /\ r.cand = run[k].sel[c] /\ r.eng = run[k].eng
    <3> DEFINE a == run[k].at[c]
    <3>1. RowFacts(k, c) /\ run[k].row[c] \in Done
      BY <2>2 DEF IInv, RunFacts, Rows
    <3>2. /\ a \in Folders /\ att[a].case = c /\ att[a].cand = run[k].sel[c]
          /\ att[a].eng = run[k].eng /\ att[a].receipt # "none"
      BY <3>1 DEF RowFacts, Done, Backed, WithArtifacts
    <3> QED BY <3>2 DEF IInv, FiledIsStored
  <2>3. ASSUME NEW p \in reports', p.complete, NEW c \in Cases
        PROVE  \E r \in ledger' : r.case = c /\ r.cand = p.sel[c] /\ r.eng = p.eng
    <3>1. CASE p \in reports
      BY <2>1, <2>3, <3>1 DEF IInv, CompleteIsAnalysed
    <3>2. CASE p = [sel |-> run[k].sel, eng |-> run[k].eng, complete |-> Rows(k, Done) = Cases]
      <4>1. Rows(k, Done) = Cases
        BY <2>3, <3>2
      <4> QED BY <2>1, <2>2, <3>2, <4>1
    <3> QED BY <2>1, <3>1, <3>2
  <2> QED BY <2>3 DEF CompleteIsAnalysed
<1>9. ASSUME NEW k \in Coordinators, Raise(k)
      PROVE  CompleteIsAnalysed'
  <2>1. reports' = reports /\ ledger \subseteq ledger'
    BY <1>9 DEF Raise
  <2> QED BY <2>1 DEF IInv, CompleteIsAnalysed
<1>10. ASSUME NEW k \in Coordinators, Crash(k)
      PROVE  CompleteIsAnalysed'
  <2>1. reports' = reports /\ ledger \subseteq ledger'
    BY <1>10 DEF Crash
  <2> QED BY <2>1 DEF IInv, CompleteIsAnalysed
<1>11. ASSUME NEW k \in Coordinators, NEW c \in Cases, Choose(k, c)
      PROVE  CompleteIsAnalysed'
  <2>1. reports' = reports /\ ledger \subseteq ledger'
    BY <1>11 DEF Choose
  <2> QED BY <2>1 DEF IInv, CompleteIsAnalysed
<1>12. ASSUME NEW k \in Coordinators, NEW c \in Cases, Launch(k, c)
      PROVE  CompleteIsAnalysed'
  <2>1. reports' = reports /\ ledger \subseteq ledger'
    BY <1>12 DEF Launch
  <2> QED BY <2>1 DEF IInv, CompleteIsAnalysed
<1>13. ASSUME NEW k \in Coordinators, NEW c \in Cases, OpenGate(k, c)
      PROVE  CompleteIsAnalysed'
  <2>1. reports' = reports /\ ledger \subseteq ledger'
    BY <1>13 DEF OpenGate
  <2> QED BY <2>1 DEF IInv, CompleteIsAnalysed
<1>14. ASSUME NEW k \in Coordinators, NEW c \in Cases, PollScanned(k, c)
      PROVE  CompleteIsAnalysed'
  <2>1. reports' = reports /\ ledger \subseteq ledger'
    BY <1>14 DEF PollScanned
  <2> QED BY <2>1 DEF IInv, CompleteIsAnalysed
<1>15. ASSUME NEW k \in Coordinators, NEW c \in Cases, PollFailed(k, c)
      PROVE  CompleteIsAnalysed'
  <2>1. reports' = reports /\ ledger \subseteq ledger'
    BY <1>15 DEF PollFailed
  <2> QED BY <2>1 DEF IInv, CompleteIsAnalysed
<1>16. ASSUME NEW k \in Coordinators, NEW c \in Cases, PollTimeout(k, c)
      PROVE  CompleteIsAnalysed'
  <2>1. reports' = reports /\ ledger \subseteq ledger'
    BY <1>16 DEF PollTimeout
  <2> QED BY <2>1 DEF IInv, CompleteIsAnalysed
<1>17. ASSUME NEW k \in Coordinators, NEW c \in Cases, CheckRow(k, c)
      PROVE  CompleteIsAnalysed'
  <2>1. reports' = reports /\ ledger \subseteq ledger'
    BY <1>17 DEF CheckRow
  <2> QED BY <2>1 DEF IInv, CompleteIsAnalysed
<1>18. ASSUME NEW k \in Coordinators, NEW c \in Cases, StoreReceipt(k, c)
      PROVE  CompleteIsAnalysed'
  <2>1. reports' = reports /\ ledger \subseteq ledger'
    BY <1>18 DEF StoreReceipt
  <2> QED BY <2>1 DEF IInv, CompleteIsAnalysed
<1>19. ASSUME NEW k \in Coordinators, NEW r \in run[k].stored, FileReceipt(k, r)
      PROVE  CompleteIsAnalysed'
  <2>1. reports' = reports /\ ledger \subseteq ledger'
    BY <1>19 DEF FileReceipt
  <2> QED BY <2>1 DEF IInv, CompleteIsAnalysed
<1>20. ASSUME NEW k \in Coordinators, NEW reason \in {"CANCELLED", "MEMORY_STOP"}, Stop(k, reason)
      PROVE  CompleteIsAnalysed'
  <2>1. reports' = reports /\ ledger \subseteq ledger'
    BY <1>20 DEF Stop
  <2> QED BY <2>1 DEF IInv, CompleteIsAnalysed
<1>21. ASSUME NEW a \in Attempts, WorkerStart(a)
      PROVE  CompleteIsAnalysed'
  <2>1. reports' = reports /\ ledger \subseteq ledger'
    BY <1>21 DEF WorkerStart
  <2> QED BY <2>1 DEF IInv, CompleteIsAnalysed
<1>22. ASSUME NEW a \in Attempts, WorkerReads(a)
      PROVE  CompleteIsAnalysed'
  <2>1. reports' = reports /\ ledger \subseteq ledger'
    BY <1>22 DEF WorkerReads
  <2> QED BY <2>1 DEF IInv, CompleteIsAnalysed
<1>23. ASSUME NEW a \in Attempts, WorkerWrites(a)
      PROVE  CompleteIsAnalysed'
  <2>1. reports' = reports /\ ledger \subseteq ledger'
    BY <1>23 DEF WorkerWrites
  <2> QED BY <2>1 DEF IInv, CompleteIsAnalysed
<1>24. ASSUME NEW a \in Attempts, WorkerFails(a)
      PROVE  CompleteIsAnalysed'
  <2>1. reports' = reports /\ ledger \subseteq ledger'
    BY <1>24 DEF WorkerFails
  <2> QED BY <2>1 DEF IInv, CompleteIsAnalysed
<1>25. ASSUME NEW a \in Attempts, Alter(a)
      PROVE  CompleteIsAnalysed'
  <2>1. reports' = reports /\ ledger \subseteq ledger'
    BY <1>25 DEF Alter
  <2> QED BY <2>1 DEF IInv, CompleteIsAnalysed
<1>26. ASSUME NEW c \in Cases, EditInputs(c)
      PROVE  CompleteIsAnalysed'
  <2>1. reports' = reports /\ ledger \subseteq ledger'
    BY <1>26 DEF EditInputs
  <2> QED BY <2>1 DEF IInv, CompleteIsAnalysed
<1>27. ASSUME EditEngine
      PROVE  CompleteIsAnalysed'
  <2>1. reports' = reports /\ ledger \subseteq ledger'
    BY <1>27 DEF EditEngine
  <2> QED BY <2>1 DEF IInv, CompleteIsAnalysed
<1>28. CASE UNCHANGED vars
  <2>1. reports' = reports /\ ledger \subseteq ledger'
    BY <1>28 DEF vars
  <2> QED BY <2>1 DEF IInv, CompleteIsAnalysed
<1>29. ASSUME NEW k \in Coordinators, NEW c \in Cases, Register(k, c)
      PROVE  CompleteIsAnalysed'
  <2>1. reports' = reports /\ ledger \subseteq ledger'
    BY <1>29 DEF Register
  <2> QED BY <2>1 DEF IInv, CompleteIsAnalysed
<1>30. ASSUME NEW k \in Coordinators, CloseRaises(k)
      PROVE  CompleteIsAnalysed'
  <2>1. reports' = reports /\ ledger \subseteq ledger'
    BY <1>30 DEF CloseRaises
  <2> QED BY <2>1 DEF IInv, CompleteIsAnalysed
<1>31. ASSUME NEW a \in Attempts, WorkerExits(a)
      PROVE  CompleteIsAnalysed'
  <2>1. reports' = reports /\ ledger \subseteq ledger'
    BY <1>31 DEF WorkerExits
  <2> QED BY <2>1 DEF IInv, CompleteIsAnalysed
<1> QED
  BY <1>1, <1>2, <1>3, <1>4, <1>5, <1>6, <1>7, <1>8, <1>9, <1>10, <1>11, <1>12, <1>13, <1>14, <1>15, <1>16, <1>17, <1>18, <1>19, <1>20, <1>21, <1>22, <1>23, <1>24, <1>25, <1>26, <1>27, <1>28, <1>29, <1>30, <1>31
     DEF Next, Step, Interruption, Worker, World

(* A process that passed its gate and that neither death of the coordinator *)
(* nor a failed close() excuses.                                            *)
Loose(a) == Live(a) /\ att[a].gate /\ ~att[a].orphan /\ ~att[a].stray

(* It keeps its owner if it has one: the row is still active, or the        *)
(* process is not alive any more, or it is excused now.                     *)
LEMMA OwnedKept ==
  ASSUME Owned,
         \A a \in Attempts : a \in Folders' /\ Loose(a)' =>
           \/ /\ a \in Folders /\ Loose(a)
              /\ \A k \in Coordinators : a \in ActiveFolders(k) =>
                   \E j \in Coordinators : a \in ActiveFolders(j)'
           \/ \E j \in Coordinators : a \in ActiveFolders(j)'
  PROVE  Owned'
<1> SUFFICES ASSUME NEW a \in Attempts, a \in Folders', Loose(a)'
             PROVE  \E j \in Coordinators : a \in ActiveFolders(j)'
  BY DEF Owned, Folders, Loose
<1>1. CASE a \in Folders /\ Loose(a)
  <2>1. PICK k \in Coordinators : a \in ActiveFolders(k)
    BY <1>1 DEF Owned, Loose
  <2> QED BY <2>1
<1> QED BY <1>1

(* Who has no active row has no active folder. *)
LEMMA NoActive ==
  ASSUME IInv, NEW k \in Coordinators, phase[k] # "scan"
  PROVE  ActiveFolders(k) = {}
BY DEF IInv, RunFacts, RowFacts, ActiveFolders, Rows

(* Every way out of the scan loop closes what runs. *)
LEMMA OwnedStep ==
  ASSUME IInv, [Next]_vars
  PROVE  Owned'
<1>1. ASSUME NEW k \in Coordinators, Arrive(k)
      PROVE  Owned'
  <2>1. \A j \in Coordinators : ActiveFolders(j) \subseteq ActiveFolders(j)'
    <3>1. ActiveFolders(k) = {}
      BY <1>1, NoActive DEF Arrive
    <3>2. \A j \in Coordinators \ {k} : run'[j] = run[j]
      BY <1>1 DEF Arrive, Leave, IInv, TypeOK
    <3> QED BY <3>1, <3>2 DEF ActiveFolders, Rows
  <2>2. \A b \in Attempts : b \in Folders' /\ Loose(b)' => b \in Folders /\ Loose(b)
    BY <1>1 DEF Arrive, Folders, Live, Loose
  <2> QED BY <2>1, <2>2, OwnedKept DEF IInv
<1>2. ASSUME NEW k \in Coordinators, TakeLease(k)
      PROVE  Owned'
  <2>1. \A j \in Coordinators : ActiveFolders(j) \subseteq ActiveFolders(j)'
    BY <1>2 DEF TakeLease, ActiveFolders, Rows, Goto
  <2>2. \A b \in Attempts : b \in Folders' /\ Loose(b)' => b \in Folders /\ Loose(b)
    BY <1>2 DEF TakeLease, Folders, Live, Loose
  <2> QED BY <2>1, <2>2, OwnedKept DEF IInv
<1>3. ASSUME NEW k \in Coordinators, LeaseRefused(k)
      PROVE  Owned'
  <2>1. \A j \in Coordinators : ActiveFolders(j) \subseteq ActiveFolders(j)'
    <3>1. ActiveFolders(k) = {}
      BY <1>3, NoActive DEF LeaseRefused
    <3>2. \A j \in Coordinators \ {k} : run'[j] = run[j]
      BY <1>3 DEF LeaseRefused, Leave, IInv, TypeOK
    <3> QED BY <3>1, <3>2 DEF ActiveFolders, Rows
  <2>2. \A b \in Attempts : b \in Folders' /\ Loose(b)' => b \in Folders /\ Loose(b)
    BY <1>3 DEF LeaseRefused, Folders, Live, Loose
  <2> QED BY <2>1, <2>2, OwnedKept DEF IInv
<1>4. ASSUME NEW k \in Coordinators, Preflight(k)
      PROVE  Owned'
  <2>1. \A j \in Coordinators : ActiveFolders(j) \subseteq ActiveFolders(j)'
    <3>1. ActiveFolders(k) = {}
      BY <1>4, NoActive DEF Preflight
    <3>2. \A j \in Coordinators \ {k} : run'[j] = run[j]
      BY <1>4 DEF Preflight, Leave, IInv, TypeOK
    <3> QED BY <3>1, <3>2 DEF ActiveFolders, Rows
  <2>2. \A b \in Attempts : b \in Folders' /\ Loose(b)' => b \in Folders /\ Loose(b)
    BY <1>4 DEF Preflight, Folders, Live, Loose
  <2> QED BY <2>1, <2>2, OwnedKept DEF IInv
<1>5. ASSUME NEW k \in Coordinators, EndChoose(k)
      PROVE  Owned'
  <2>1. \A j \in Coordinators : ActiveFolders(j) \subseteq ActiveFolders(j)'
    BY <1>5 DEF EndChoose, ActiveFolders, Rows, Goto
  <2>2. \A b \in Attempts : b \in Folders' /\ Loose(b)' => b \in Folders /\ Loose(b)
    BY <1>5 DEF EndChoose, Folders, Live, Loose
  <2> QED BY <2>1, <2>2, OwnedKept DEF IInv
<1>6. ASSUME NEW k \in Coordinators, EndScan(k)
      PROVE  Owned'
  <2>1. \A j \in Coordinators : ActiveFolders(j) \subseteq ActiveFolders(j)'
    BY <1>6 DEF EndScan, ActiveFolders, Rows, Goto
  <2>2. \A b \in Attempts : b \in Folders' /\ Loose(b)' => b \in Folders /\ Loose(b)
    BY <1>6 DEF EndScan, Folders, Live, Loose
  <2> QED BY <2>1, <2>2, OwnedKept DEF IInv
<1>7. ASSUME NEW k \in Coordinators, Postflight(k)
      PROVE  Owned'
  <2>1. \A j \in Coordinators : ActiveFolders(j) \subseteq ActiveFolders(j)'
    <3>1. run'[k].row = run[k].row /\ run'[k].at = run[k].at
      BY <1>7 DEF Postflight, IInv, TypeOK, RunRecords
    <3>2. \A j \in Coordinators \ {k} : run'[j] = run[j]
      BY <1>7 DEF Postflight, IInv, TypeOK
    <3> QED BY <3>1, <3>2 DEF ActiveFolders, Rows
  <2>2. \A b \in Attempts : b \in Folders' /\ Loose(b)' => b \in Folders /\ Loose(b)
    BY <1>7 DEF Postflight, Folders, Live, Loose
  <2> QED BY <2>1, <2>2, OwnedKept DEF IInv
<1>8. ASSUME NEW k \in Coordinators, Report(k)
      PROVE  Owned'
  <2>1. \A j \in Coordinators : ActiveFolders(j) \subseteq ActiveFolders(j)'
    <3>1. ActiveFolders(k) = {}
      BY <1>8, NoActive DEF Report
    <3>2. \A j \in Coordinators \ {k} : run'[j] = run[j]
      BY <1>8 DEF Report, Leave, IInv, TypeOK
    <3> QED BY <3>1, <3>2 DEF ActiveFolders, Rows
  <2>2. \A b \in Attempts : b \in Folders' /\ Loose(b)' => b \in Folders /\ Loose(b)
    BY <1>8 DEF Report, Folders, Live, Loose
  <2> QED BY <2>1, <2>2, OwnedKept DEF IInv
<1>9. ASSUME NEW k \in Coordinators, Raise(k)
      PROVE  Owned'
  <2>1. \A b \in ActiveFolders(k) \cap Attempts : ~Loose(b)'
    <3>1. \A b \in Folders : att[b] \in AttemptRecords
      BY FolderType DEF IInv, Folders
    <3>2. ActiveFolders(k) \subseteq Folders
      BY ActiveFolder DEF ActiveFolders, Rows
    <3> QED BY <1>9, <3>1, <3>2 DEF Raise, Close, Live, Loose, IInv, TypeOK, AttemptRecords
  <2>2. \A b \in Attempts \ ActiveFolders(k) : att'[b] = att[b]
    BY <1>9 DEF Raise, Close, IInv, TypeOK
  <2>3. \A j \in Coordinators \ {k} : run'[j] = run[j]
    BY <1>9 DEF Raise, Leave, IInv, TypeOK
  <2>4. \A j \in Coordinators \ {k} : ActiveFolders(j) \subseteq ActiveFolders(j)'
    BY <2>3 DEF ActiveFolders, Rows
  <2> QED BY <2>1, <2>2, <2>4, OwnedKept DEF IInv, Folders, Live, Loose
<1>10. ASSUME NEW k \in Coordinators, Crash(k)
      PROVE  Owned'
  <2>1. \A b \in StartedFolders(k) \cap Attempts : ~Loose(b)'
    <3>1. \A b \in Folders : att[b] \in AttemptRecords
      BY FolderType DEF IInv, Folders
    <3>2. StartedFolders(k) \subseteq Folders
      BY ActiveFolder DEF StartedFolders, Rows
    <3> QED BY <1>10, <3>1, <3>2 DEF Crash, Loose, IInv, TypeOK, AttemptRecords
  <2>2. \A b \in Attempts \ StartedFolders(k) : att'[b] = att[b]
    BY <1>10 DEF Crash, IInv, TypeOK
  <2>3. \A j \in Coordinators \ {k} : run'[j] = run[j]
    BY <1>10 DEF Crash, Leave, IInv, TypeOK
  <2>4. \A j \in Coordinators \ {k} : ActiveFolders(j) \subseteq ActiveFolders(j)'
    BY <2>3 DEF ActiveFolders, Rows
  <2>5. ActiveFolders(k) \subseteq StartedFolders(k)
    BY DEF ActiveFolders, StartedFolders, Rows
  <2> QED BY <2>1, <2>2, <2>4, <2>5, OwnedKept DEF IInv, Folders, Live, Loose
<1>11. ASSUME NEW k \in Coordinators, NEW c \in Cases, Choose(k, c)
      PROVE  Owned'
  <2>1. \A j \in Coordinators : ActiveFolders(j) \subseteq ActiveFolders(j)'
    <3>1. ActiveFolders(k) = {}
      BY <1>11, NoActive DEF Choose, IInv, RunFacts
    <3>2. \A j \in Coordinators \ {k} : run'[j] = run[j]
      BY <1>11 DEF Choose, Row, IInv, TypeOK
    <3> QED BY <3>1, <3>2 DEF ActiveFolders, Rows
  <2>2. \A b \in Attempts : b \in Folders' /\ Loose(b)' => b \in Folders /\ Loose(b)
    <3>1. \A b \in Folders : att[b] \in AttemptRecords
      BY FolderType DEF IInv, Folders
    <3> QED BY <1>11, <3>1 DEF Choose, IInv, TypeOK, AttemptRecords, Folders, NoFolder, Live, Loose
  <2> QED BY <2>1, <2>2, OwnedKept DEF IInv
<1>12. ASSUME NEW k \in Coordinators, NEW c \in Cases, Launch(k, c)
      PROVE  Owned'
  <2>1. PICK a \in Attempts \ Folders :
          /\ att' = [att EXCEPT ![a] =
               [case |-> c, cand |-> run[k].sel[c], eng |-> run[k].eng,
                worker |-> "waiting", gate |-> FALSE, orphan |-> FALSE, stray |-> FALSE,
                ran |-> {engine}, read |-> {}, bytes |-> "none", observed |-> 0,
                invalid |-> FALSE, receipt |-> "none", noticed |-> FALSE]]
          /\ run' = [run EXCEPT ![k].row[c] = "STARTING", ![k].at[c] = a]
    BY <1>12 DEF Launch
  <2>2. /\ run[k] \in RunRecords /\ run[k].row[c] = "QUEUED"
    BY <1>12 DEF Launch, IInv, TypeOK
  <2>3. /\ \A d \in Cases \ {c} : run'[k].row[d] = run[k].row[d] /\ run'[k].at[d] = run[k].at[d]
        /\ \A j \in Coordinators \ {k} : run'[j] = run[j]
    BY <2>1, <2>2 DEF IInv, TypeOK, RunRecords
  <2>4. ~Loose(a)'
    BY <2>1 DEF IInv, TypeOK, Loose
  <2>5. \A j \in Coordinators : ActiveFolders(j) \subseteq ActiveFolders(j)'
    BY <2>2, <2>3 DEF ActiveFolders, Rows
  <2>6. \A b \in Attempts \ {a} : att'[b] = att[b]
    BY <2>1 DEF IInv, TypeOK
  <2> QED BY <2>4, <2>5, <2>6, OwnedKept DEF IInv, Folders, Live, Loose
<1>13. ASSUME NEW k \in Coordinators, NEW c \in Cases, OpenGate(k, c)
      PROVE  Owned'
  <2>1. \A j \in Coordinators : ActiveFolders(j) \subseteq ActiveFolders(j)'
    BY <1>13 DEF OpenGate, ActiveFolders, Rows
  <2>2. run[k].at[c] \in ActiveFolders(k) /\ run[k].at[c] \in Attempts
    BY <1>13, ActiveFolder DEF OpenGate, ActiveFolders, Rows
  <2>3. \A b \in Attempts \ {run[k].at[c]} : att'[b] = att[b]
    BY <1>13 DEF OpenGate, IInv, TypeOK
  <2> QED BY <2>1, <2>2, <2>3, OwnedKept DEF IInv, Folders, Live, Loose
<1>14. ASSUME NEW k \in Coordinators, NEW c \in Cases, PollScanned(k, c)
      PROVE  Owned'
  <2>0. PICK a \in Attempts : a = run[k].at[c]
    BY <1>14, ActiveFolder DEF PollScanned
  <2>1. a \in Folders /\ a \in Attempts /\ att[a] \in AttemptRecords
    BY <1>14, <2>0, ActiveFolder, FolderType DEF PollScanned, IInv
  <2>2. run' = [run EXCEPT ![k].row[c] = "SCANNED"] /\ run[k] \in RunRecords
    BY <1>14 DEF PollScanned, IInv, TypeOK
  <2>3. /\ \A d \in Cases \ {c} : run'[k].row[d] = run[k].row[d]
        /\ run'[k].at = run[k].at
        /\ \A j \in Coordinators \ {k} : run'[j] = run[j]
    BY <2>2 DEF IInv, TypeOK, RunRecords
  <2>4. \A j \in Coordinators : ActiveFolders(j) \ {a} \subseteq ActiveFolders(j)'
    BY <2>0, <2>3 DEF ActiveFolders, Rows
  <2>5. ~Live(a)'
    BY <1>14, <2>0, <2>1 DEF PollScanned, Live, Close, IInv, TypeOK, AttemptRecords
  <2>6. \A b \in Attempts \ {a} : att'[b] = att[b]
    BY <1>14, <2>0 DEF PollScanned, Close, IInv, TypeOK
  <2>8. ASSUME NEW b \in Attempts, b \in Folders', Loose(b)'
        PROVE  /\ b \in Folders /\ Loose(b)
               /\ \A j \in Coordinators : b \in ActiveFolders(j) => b \in ActiveFolders(j)'
    <3>1. b # a
      BY <2>5, <2>8 DEF Loose
    <3> QED BY <2>4, <2>6, <2>8, <3>1 DEF Folders, Live, Loose
  <2> QED BY <2>8, OwnedKept DEF IInv
<1>15. ASSUME NEW k \in Coordinators, NEW c \in Cases, PollFailed(k, c)
      PROVE  Owned'
  <2>0. PICK a \in Attempts : a = run[k].at[c]
    BY <1>15, ActiveFolder DEF PollFailed
  <2>1. a \in Folders /\ a \in Attempts /\ att[a] \in AttemptRecords
    BY <1>15, <2>0, ActiveFolder, FolderType DEF PollFailed, IInv
  <2>2. run' = [run EXCEPT ![k].row[c] = "FAILED"] /\ run[k] \in RunRecords
    BY <1>15 DEF PollFailed, IInv, TypeOK
  <2>3. /\ \A d \in Cases \ {c} : run'[k].row[d] = run[k].row[d]
        /\ run'[k].at = run[k].at
        /\ \A j \in Coordinators \ {k} : run'[j] = run[j]
    BY <2>2 DEF IInv, TypeOK, RunRecords
  <2>4. \A j \in Coordinators : ActiveFolders(j) \ {a} \subseteq ActiveFolders(j)'
    BY <2>0, <2>3 DEF ActiveFolders, Rows
  <2>5. ~Live(a)'
    BY <1>15, <2>0, <2>1 DEF PollFailed, Live, Close, IInv, TypeOK, AttemptRecords
  <2>6. \A b \in Attempts \ {a} : att'[b] = att[b]
    BY <1>15, <2>0 DEF PollFailed, Close, IInv, TypeOK
  <2>8. ASSUME NEW b \in Attempts, b \in Folders', Loose(b)'
        PROVE  /\ b \in Folders /\ Loose(b)
               /\ \A j \in Coordinators : b \in ActiveFolders(j) => b \in ActiveFolders(j)'
    <3>1. b # a
      BY <2>5, <2>8 DEF Loose
    <3> QED BY <2>4, <2>6, <2>8, <3>1 DEF Folders, Live, Loose
  <2> QED BY <2>8, OwnedKept DEF IInv
<1>16. ASSUME NEW k \in Coordinators, NEW c \in Cases, PollTimeout(k, c)
      PROVE  Owned'
  <2>0. PICK a \in Attempts : a = run[k].at[c]
    BY <1>16, ActiveFolder DEF PollTimeout
  <2>1. a \in Folders /\ a \in Attempts /\ att[a] \in AttemptRecords
    BY <1>16, <2>0, ActiveFolder, FolderType DEF PollTimeout, IInv
  <2>2. run' = [run EXCEPT ![k].row[c] = "TIMEOUT"] /\ run[k] \in RunRecords
    BY <1>16 DEF PollTimeout, IInv, TypeOK
  <2>3. /\ \A d \in Cases \ {c} : run'[k].row[d] = run[k].row[d]
        /\ run'[k].at = run[k].at
        /\ \A j \in Coordinators \ {k} : run'[j] = run[j]
    BY <2>2 DEF IInv, TypeOK, RunRecords
  <2>4. \A j \in Coordinators : ActiveFolders(j) \ {a} \subseteq ActiveFolders(j)'
    BY <2>0, <2>3 DEF ActiveFolders, Rows
  <2>5. ~Live(a)'
    BY <1>16, <2>0, <2>1 DEF PollTimeout, Live, Close, IInv, TypeOK, AttemptRecords
  <2>6. \A b \in Attempts \ {a} : att'[b] = att[b]
    BY <1>16, <2>0 DEF PollTimeout, Close, IInv, TypeOK
  <2>8. ASSUME NEW b \in Attempts, b \in Folders', Loose(b)'
        PROVE  /\ b \in Folders /\ Loose(b)
               /\ \A j \in Coordinators : b \in ActiveFolders(j) => b \in ActiveFolders(j)'
    <3>1. b # a
      BY <2>5, <2>8 DEF Loose
    <3> QED BY <2>4, <2>6, <2>8, <3>1 DEF Folders, Live, Loose
  <2> QED BY <2>8, OwnedKept DEF IInv
<1>17. ASSUME NEW k \in Coordinators, NEW c \in Cases, CheckRow(k, c)
      PROVE  Owned'
  <2>1. \A j \in Coordinators : ActiveFolders(j) \subseteq ActiveFolders(j)'
    <3>1. ActiveFolders(k) = {}
      BY <1>17, NoActive DEF CheckRow, IInv, RunFacts
    <3>2. \A j \in Coordinators \ {k} : run'[j] = run[j]
      BY <1>17 DEF CheckRow, Row, IInv, TypeOK
    <3> QED BY <3>1, <3>2 DEF ActiveFolders, Rows
  <2>2. \A b \in Attempts : b \in Folders' /\ Loose(b)' => b \in Folders /\ Loose(b)
    <3>1. \A b \in Folders : att[b] \in AttemptRecords
      BY FolderType DEF IInv, Folders
    <3> QED BY <1>17, <3>1 DEF CheckRow, IInv, TypeOK, AttemptRecords, Folders, NoFolder, Live, Loose
  <2> QED BY <2>1, <2>2, OwnedKept DEF IInv
<1>18. ASSUME NEW k \in Coordinators, NEW c \in Cases, StoreReceipt(k, c)
      PROVE  Owned'
  <2>1. \A j \in Coordinators : ActiveFolders(j) \subseteq ActiveFolders(j)'
    <3>1. run'[k].row = run[k].row /\ run'[k].at = run[k].at
      BY <1>18 DEF StoreReceipt, IInv, TypeOK, RunRecords
    <3>2. \A j \in Coordinators \ {k} : run'[j] = run[j]
      BY <1>18 DEF StoreReceipt, IInv, TypeOK
    <3> QED BY <3>1, <3>2 DEF ActiveFolders, Rows
  <2>2. \A b \in Attempts : b \in Folders' /\ Loose(b)' => b \in Folders /\ Loose(b)
    BY <1>18 DEF StoreReceipt, Folders, Live, Loose
  <2> QED BY <2>1, <2>2, OwnedKept DEF IInv
<1>19. ASSUME NEW k \in Coordinators, NEW r \in run[k].stored, FileReceipt(k, r)
      PROVE  Owned'
  <2>1. \A j \in Coordinators : ActiveFolders(j) \subseteq ActiveFolders(j)'
    <3>1. ActiveFolders(k) = {}
      BY <1>19, NoActive DEF FileReceipt, IInv, RunFacts
    <3>2. \A j \in Coordinators \ {k} : run'[j] = run[j]
      BY <1>19 DEF FileReceipt, Row, IInv, TypeOK
    <3> QED BY <3>1, <3>2 DEF ActiveFolders, Rows
  <2>2. \A b \in Attempts : b \in Folders' /\ Loose(b)' => b \in Folders /\ Loose(b)
    <3>1. \A b \in Folders : att[b] \in AttemptRecords
      BY FolderType DEF IInv, Folders
    <3> QED BY <1>19, <3>1 DEF FileReceipt, IInv, TypeOK, AttemptRecords, Folders, NoFolder, Live, Loose
  <2> QED BY <2>1, <2>2, OwnedKept DEF IInv
<1>20. ASSUME NEW k \in Coordinators, NEW reason \in {"CANCELLED", "MEMORY_STOP"}, Stop(k, reason)
      PROVE  Owned'
  <2>1. \A b \in ActiveFolders(k) \cap Attempts : ~Loose(b)'
    <3>1. \A b \in Folders : att[b] \in AttemptRecords
      BY FolderType DEF IInv, Folders
    <3>2. ActiveFolders(k) \subseteq Folders
      BY ActiveFolder DEF ActiveFolders, Rows
    <3> QED BY <1>20, <3>1, <3>2 DEF Stop, Close, Live, Loose, IInv, TypeOK, AttemptRecords
  <2>2. \A b \in Attempts \ ActiveFolders(k) : att'[b] = att[b]
    BY <1>20 DEF Stop, Close, IInv, TypeOK
  <2>3. \A j \in Coordinators \ {k} : run'[j] = run[j]
    BY <1>20 DEF Stop, Leave, IInv, TypeOK
  <2>4. \A j \in Coordinators \ {k} : ActiveFolders(j) \subseteq ActiveFolders(j)'
    BY <2>3 DEF ActiveFolders, Rows
  <2> QED BY <2>1, <2>2, <2>4, OwnedKept DEF IInv, Folders, Live, Loose
<1>21. ASSUME NEW a \in Attempts, WorkerStart(a)
      PROVE  Owned'
  <2>1. \A j \in Coordinators : ActiveFolders(j) \subseteq ActiveFolders(j)'
    BY <1>21 DEF WorkerStart, ActiveFolders, Rows, Goto
  <2>2. \A b \in Attempts : b \in Folders' /\ Loose(b)' => b \in Folders /\ Loose(b)
    <3>1. \A b \in Folders : att[b] \in AttemptRecords
      BY FolderType DEF IInv, Folders
    <3> QED BY <1>21, <3>1 DEF WorkerStart, IInv, TypeOK, AttemptRecords, Folders, NoFolder, Live, Loose
  <2> QED BY <2>1, <2>2, OwnedKept DEF IInv
<1>22. ASSUME NEW a \in Attempts, WorkerReads(a)
      PROVE  Owned'
  <2>1. \A j \in Coordinators : ActiveFolders(j) \subseteq ActiveFolders(j)'
    BY <1>22 DEF WorkerReads, ActiveFolders, Rows, Goto
  <2>2. \A b \in Attempts : b \in Folders' /\ Loose(b)' => b \in Folders /\ Loose(b)
    <3>1. \A b \in Folders : att[b] \in AttemptRecords
      BY FolderType DEF IInv, Folders
    <3> QED BY <1>22, <3>1 DEF WorkerReads, IInv, TypeOK, AttemptRecords, Folders, NoFolder, Live, Loose
  <2> QED BY <2>1, <2>2, OwnedKept DEF IInv
<1>23. ASSUME NEW a \in Attempts, WorkerWrites(a)
      PROVE  Owned'
  <2>1. \A j \in Coordinators : ActiveFolders(j) \subseteq ActiveFolders(j)'
    BY <1>23 DEF WorkerWrites, ActiveFolders, Rows, Goto
  <2>2. \A b \in Attempts : b \in Folders' /\ Loose(b)' => b \in Folders /\ Loose(b)
    <3>1. \A b \in Folders : att[b] \in AttemptRecords
      BY FolderType DEF IInv, Folders
    <3> QED BY <1>23, <3>1 DEF WorkerWrites, IInv, TypeOK, AttemptRecords, Folders, NoFolder, Live, Loose
  <2> QED BY <2>1, <2>2, OwnedKept DEF IInv
<1>24. ASSUME NEW a \in Attempts, WorkerFails(a)
      PROVE  Owned'
  <2>1. \A j \in Coordinators : ActiveFolders(j) \subseteq ActiveFolders(j)'
    BY <1>24 DEF WorkerFails, ActiveFolders, Rows, Goto
  <2>2. \A b \in Attempts : b \in Folders' /\ Loose(b)' => b \in Folders /\ Loose(b)
    <3>1. \A b \in Folders : att[b] \in AttemptRecords
      BY FolderType DEF IInv, Folders
    <3> QED BY <1>24, <3>1 DEF WorkerFails, IInv, TypeOK, AttemptRecords, Folders, NoFolder, Live, Loose
  <2> QED BY <2>1, <2>2, OwnedKept DEF IInv
<1>25. ASSUME NEW a \in Attempts, Alter(a)
      PROVE  Owned'
  <2>1. \A j \in Coordinators : ActiveFolders(j) \subseteq ActiveFolders(j)'
    BY <1>25 DEF Alter, ActiveFolders, Rows, Goto
  <2>2. \A b \in Attempts : b \in Folders' /\ Loose(b)' => b \in Folders /\ Loose(b)
    <3>1. \A b \in Folders : att[b] \in AttemptRecords
      BY FolderType DEF IInv, Folders
    <3> QED BY <1>25, <3>1 DEF Alter, IInv, TypeOK, AttemptRecords, Folders, NoFolder, Live, Loose
  <2> QED BY <2>1, <2>2, OwnedKept DEF IInv
<1>26. ASSUME NEW c \in Cases, EditInputs(c)
      PROVE  Owned'
  <2>1. \A j \in Coordinators : ActiveFolders(j) \subseteq ActiveFolders(j)'
    BY <1>26 DEF EditInputs, ActiveFolders, Rows, Goto
  <2>2. \A b \in Attempts : b \in Folders' /\ Loose(b)' => b \in Folders /\ Loose(b)
    BY <1>26 DEF EditInputs, Folders, Live, Loose
  <2> QED BY <2>1, <2>2, OwnedKept DEF IInv
<1>27. ASSUME EditEngine
      PROVE  Owned'
  <2>1. \A j \in Coordinators : ActiveFolders(j) \subseteq ActiveFolders(j)'
    BY <1>27 DEF EditEngine, ActiveFolders, Rows, Goto
  <2>2. \A b \in Attempts : b \in Folders' /\ Loose(b)' => b \in Folders /\ Loose(b)
    BY <1>27 DEF EditEngine, Folders, Live, Loose
  <2> QED BY <2>1, <2>2, OwnedKept DEF IInv
<1>28. CASE UNCHANGED vars
  <2>1. \A j \in Coordinators : ActiveFolders(j) \subseteq ActiveFolders(j)'
    BY <1>28 DEF vars, ActiveFolders, Rows, Goto
  <2>2. \A b \in Attempts : b \in Folders' /\ Loose(b)' => b \in Folders /\ Loose(b)
    BY <1>28 DEF vars, Folders, Live, Loose
  <2> QED BY <2>1, <2>2, OwnedKept DEF IInv
<1>29. ASSUME NEW k \in Coordinators, NEW c \in Cases, Register(k, c)
      PROVE  Owned'
  <2>1. run' = [run EXCEPT ![k].row[c] = "ACTIVE"] /\ run[k] \in RunRecords /\ att' = att
    BY <1>29 DEF Register, IInv, TypeOK
  <2>2. /\ \A d \in Cases \ {c} : run'[k].row[d] = run[k].row[d]
        /\ run'[k].at = run[k].at /\ run'[k].row[c] = "ACTIVE"
        /\ \A j \in Coordinators \ {k} : run'[j] = run[j]
    BY <2>1 DEF IInv, TypeOK, RunRecords
  <2>3. \A j \in Coordinators : ActiveFolders(j) \subseteq ActiveFolders(j)'
    BY <2>2 DEF ActiveFolders, Rows
  <2> QED BY <2>1, <2>3, OwnedKept DEF IInv, Folders, Live, Loose
<1>30. ASSUME NEW k \in Coordinators, CloseRaises(k)
      PROVE  Owned'
  <2>1. \A b \in ActiveFolders(k) \cap Attempts : ~Loose(b)'
    <3>1. ASSUME NEW b \in ActiveFolders(k) \cap Attempts
          PROVE  ~Loose(b)'
      <4>1. b \in Folders
        BY ActiveFolder DEF ActiveFolders, Rows
      <4>2. att[b] \in AttemptRecords
        BY <4>1, FolderType DEF IInv
      <4>3. CASE att'[b] = att[b]
        <5>1. ~Live(b) \/ att[b].stray
          BY <1>30, <4>3, CloseRaisesDoes DEF IInv
        <5> QED BY <4>3, <5>1 DEF Loose, Live
      <4>4. CASE att'[b] = [att[b] EXCEPT !.worker = "failed"]
        BY <4>2, <4>4 DEF Loose, Live, AttemptRecords
      <4>5. CASE att'[b] = [att[b] EXCEPT !.stray = TRUE]
        BY <4>2, <4>5 DEF Loose, AttemptRecords
      <4> QED BY <1>30, <4>3, <4>4, <4>5, CloseRaisesDoes DEF IInv
    <3> QED BY <3>1
  <2>2. \A b \in Attempts \ ActiveFolders(k) : att'[b] = att[b]
    BY <1>30, CloseRaisesDoes DEF IInv
  <2>3. \A j \in Coordinators \ {k} : run'[j] = run[j]
    BY <1>30 DEF CloseRaises, Leave, IInv, TypeOK
  <2>4. \A j \in Coordinators \ {k} : ActiveFolders(j) \subseteq ActiveFolders(j)'
    BY <2>3 DEF ActiveFolders, Rows
  <2> QED BY <2>1, <2>2, <2>4, OwnedKept DEF IInv, Folders, Live, Loose
<1>31. ASSUME NEW a \in Attempts, WorkerExits(a)
      PROVE  Owned'
  <2>1. \A j \in Coordinators : ActiveFolders(j) \subseteq ActiveFolders(j)'
    BY <1>31 DEF WorkerExits, ActiveFolders, Rows, Goto
  <2>2. \A b \in Attempts : b \in Folders' /\ Loose(b)' => b \in Folders /\ Loose(b)
    <3>1. \A b \in Folders : att[b] \in AttemptRecords
      BY FolderType DEF IInv, Folders
    <3> QED BY <1>31, <3>1 DEF WorkerExits, IInv, TypeOK, AttemptRecords, Folders, NoFolder, Live, Loose
  <2> QED BY <2>1, <2>2, OwnedKept DEF IInv
<1> QED
  BY <1>1, <1>2, <1>3, <1>4, <1>5, <1>6, <1>7, <1>8, <1>9, <1>10, <1>11, <1>12, <1>13, <1>14, <1>15, <1>16, <1>17, <1>18, <1>19, <1>20, <1>21, <1>22, <1>23, <1>24, <1>25, <1>26, <1>27, <1>28, <1>29, <1>30, <1>31
     DEF Next, Step, Interruption, Worker, World

-----------------------------------------------------------------------------
LEMMA InitInv == Init => IInv
<1> SUFFICES ASSUME Init PROVE IInv
  OBVIOUS
<1>1. 0 \in Versions /\ 0 \in Engines /\ 0 \in Stamps
  BY BoundsAssumption DEF Versions, Engines, Stamps
<1>2. TypeOK
  BY <1>1, NoRunType DEF Init, TypeOK, Phases
<1>3. Folders = {}
  BY DEF Init, Folders
<1>4. \A k \in Coordinators : RunFacts(k)
  BY <1>1 DEF Init, RunFacts, RowFacts, NoRun, Fresh, Inside, Backed, WithArtifacts, Done
<1>5. OneCoordinator
  BY NobodyAssumption DEF Init, OneCoordinator, Inside
<1> QED BY <1>2, <1>3, <1>4, <1>5
      DEF Init, IInv, Settled, FolderFacts, LedgerFacts, FiledIsStored, CompleteIsAnalysed, Owned, Started

(* The inductive invariant. *)
THEOREM Invariance == Spec => []IInv
<1>1. IInv /\ [Next]_vars => IInv'
  BY TypeStep, LeaseStep, StartedStep, FolderStep, RunStep, LedgerStep, CompleteStep, OwnedStep DEF IInv
<1> QED BY InitInv, <1>1, PTL DEF Spec

(* The variables have their types (scan_portfolio and its worker). *)
THEOREM TypeCorrect == Spec => []TypeOK
BY Invariance, PTL DEF IInv

(* Only the holder of the kernel lock is past the lease (output_lease). *)
THEOREM OneCoordinatorHolds == Spec => []OneCoordinator
BY Invariance, PTL DEF IInv

(* Every stored receipt is true of its attempt, whatever was edited between *)
(* the worker's reads (_fresh, engine_identity, main).                      *)
THEOREM TruthfulHolds == Spec => []Truthful
<1>1. IInv => Truthful
  BY DEF IInv, LedgerFacts, Settled, FolderFacts, Truthful
<1> QED BY Invariance, <1>1, PTL

(* One receipt per attempt and content (the kept observed_at). *)
THEOREM OneReceiptHolds == Spec => []OneReceipt
<1>1. IInv => OneReceipt
  <2> SUFFICES ASSUME IInv, NEW r \in ledger, NEW q \in ledger,
                      r.attempt = q.attempt, r.evidence = q.evidence
               PROVE  r = q
    BY DEF OneReceipt
  <2>1. r.case = q.case /\ r.cand = q.cand /\ r.eng = q.eng /\ r.observed = q.observed
    BY DEF IInv, LedgerFacts
  <2>2. r \in ReceiptRecords /\ q \in ReceiptRecords
    BY DEF IInv, TypeOK
  <2> QED BY <2>1, <2>2 DEF ReceiptRecords
<1> QED BY Invariance, <1>1, PTL

(* receipt.json never without its stored record (scan_portfolio's order). *)
THEOREM FiledIsStoredHolds == Spec => []FiledIsStored
BY Invariance, PTL DEF IInv

(* COMPLETE means a stored receipt for every selected candidate. *)
THEOREM CompleteHolds == Spec => []CompleteIsAnalysed
BY Invariance, PTL DEF IInv

(* Rows with artifacts and stored receipts are of attempts whose worker had *)
(* left by itself with success (poll, the two loops over the bucket).       *)
THEOREM EvidenceSettledHolds == Spec => []EvidenceSettled
<1>1. ASSUME IInv, NEW r \in ledger
      PROVE  att[r.attempt].worker = "exited"
  BY <1>1 DEF IInv, LedgerFacts, Settled
<1>2. ASSUME IInv, NEW k \in Coordinators, NEW c \in Cases,
             run[k].row[c] \in WithArtifacts \union {"ANALYZED", "RECOVERED"}
      PROVE  att[run[k].at[c]].worker = "exited"
  <2> DEFINE a == run[k].at[c]
  <2>1. RowFacts(k, c)
    BY <1>2 DEF IInv, RunFacts
  <2>2. a \in Folders
    BY <1>2, <2>1 DEF RowFacts, Backed
  <2>3. CASE run[k].row[c] \in {"SCANNED", "RECOVERING"}
    BY <1>2, <2>1, <2>2, <2>3 DEF RowFacts, IInv, Settled
  <2>4. CASE run[k].row[c] \in Done
    <3>1. att[a].receipt # "none"
      BY <2>1, <2>4 DEF RowFacts
    <3>2. PICK r \in ledger : r.attempt = a
      BY <1>2, <2>2, <3>1 DEF IInv, FiledIsStored
    <3> QED BY <1>1, <1>2, <3>2
  <2> QED BY <1>2, <2>3, <2>4 DEF WithArtifacts, Done
<1>3. IInv => EvidenceSettled
  BY <1>1, <1>2 DEF EvidenceSettled, Rows
<1> QED BY Invariance, <1>3, PTL

(* No row is backed by a marked attempt. *)
THEOREM InvalidStaysOutHolds == Spec => []InvalidStaysOut
<1>1. IInv => InvalidStaysOut
  BY DEF IInv, RunFacts, RowFacts, Backed, WithArtifacts, InvalidStaysOut, Rows
<1> QED BY Invariance, <1>1, PTL

(* Past its gate no worker is without a coordinator that polls and closes  *)
(* it, unless that coordinator died or its close() failed.                 *)
THEOREM OwnedHolds == Spec => []Owned
BY Invariance, PTL DEF IInv
-----------------------------------------------------------------------------
(* Every call comes to its end: what fairness turns into RunEnds.  A call  *)
(* goes through its phases in their order; in the loops of choose and      *)
(* publish fewer cases are left, or the receipt of the present one gets    *)
(* further; in the scan loop some row is further than before and none is   *)
(* set back: queued, started, behind its gate, past its gate, over.        *)
Turn == [idle |-> 0, publish |-> 1, postflight |-> 2, scan |-> 3, choose |-> 4,
         preflight |-> 5, lease |-> 6]

RowLeft(k, c) ==
  CASE run[k].row[c] = "QUEUED" -> 4
    [] run[k].row[c] = "STARTING" -> 3
    [] run[k].row[c] = "ACTIVE" -> IF att[run[k].at[c]].gate THEN 1 ELSE 2
    [] OTHER -> 0

ReceiptLeft(k) ==
  IF run[k].cleared # {} THEN 2 ELSE IF run[k].stored # {} THEN 1 ELSE 0

FewerCases(k) == run'[k].todo \subseteq run[k].todo /\ run'[k].todo # run[k].todo

RowsGoOn(k) ==
  /\ \A c \in Cases : RowLeft(k, c)' <= RowLeft(k, c)
  /\ \E c \in Cases : RowLeft(k, c)' < RowLeft(k, c)

Nearer(k) ==
  \/ Turn[phase'[k]] < Turn[phase[k]]
  \/ /\ phase'[k] = phase[k]
     /\ \/ phase[k] = "choose" /\ FewerCases(k)
        \/ phase[k] = "scan" /\ RowsGoOn(k)
        \/ phase[k] = "publish" /\ FewerCases(k)
        \/ /\ phase[k] = "publish" /\ run'[k].todo = run[k].todo
           /\ ReceiptLeft(k)' < ReceiptLeft(k)

(* Another process, a worker or an edit leaves a call where it is.         *)
StaysPut(k) ==
  /\ phase'[k] = phase[k]
  /\ run'[k] = run[k]
  /\ phase[k] = "scan" => \A c \in Cases : RowLeft(k, c)' = RowLeft(k, c)

CallsShorten ==
  [][\A k \in Coordinators : phase[k] # "idle" =>
       /\ Step(k) \/ Interruption(k) => Nearer(k)
       /\ Nearer(k) \/ StaysPut(k)]_vars

(* What a step does to the local variables of a call and to its rows.      *)
LEMMA RunIs ==
  ASSUME IInv, NEW k \in Coordinators
  PROVE  /\ run[k] \in RunRecords /\ phase[k] \in Phases
         /\ run[k].row \in [Cases -> RowStates] /\ run[k].todo \subseteq Cases
         /\ run \in [Coordinators -> RunRecords] /\ phase \in [Coordinators -> Phases]
BY DEF IInv, TypeOK, RunRecords

LEMMA RowLeftIs ==
  ASSUME NEW k \in Coordinators, NEW c \in Cases
  PROVE  /\ RowLeft(k, c) \in 0..4
         /\ run[k].row[c] = "QUEUED" => RowLeft(k, c) = 4
         /\ run[k].row[c] = "STARTING" => RowLeft(k, c) = 3
         /\ run[k].row[c] = "ACTIVE" =>
              RowLeft(k, c) = IF att[run[k].at[c]].gate THEN 1 ELSE 2
         /\ run[k].row[c] \notin {"QUEUED", "STARTING", "ACTIVE"} => RowLeft(k, c) = 0
BY DEF RowLeft

(* A row that keeps its state, its attempt and the gate of that attempt.   *)
LEMMA RowStays ==
  ASSUME IInv, NEW k \in Coordinators, NEW c \in Cases,
         run'[k].row[c] = run[k].row[c], run'[k].at[c] = run[k].at[c],
         run[k].row[c] = "ACTIVE" => att'[run[k].at[c]].gate = att[run[k].at[c]].gate
  PROVE  RowLeft(k, c)' = RowLeft(k, c)
BY DEF RowLeft

(* The gates of the folders that are there stay as they are.               *)
GatesStay == \A a \in Folders : att'[a].gate = att[a].gate

LEMMA RunStays ==
  ASSUME IInv, NEW k \in Coordinators, run'[k] = run[k], phase'[k] = phase[k],
         phase[k] = "scan" => GatesStay
  PROVE  StaysPut(k)
BY RowStays, ActiveFolder DEF StaysPut, GatesStay

(* Closing, completing or altering an attempt opens and shuts no gate.     *)
LEMMA CloseKeepsGates ==
  ASSUME IInv, NEW S, att' = Close(S)
  PROVE  GatesStay
<1>1. \A a \in Folders : att[a] \in AttemptRecords /\ a \in Attempts
  BY FolderType DEF IInv, Folders
<1>. QED
  BY <1>1 DEF Close, GatesStay, AttemptRecords

(* Nobody else's step moves a call.                                        *)
LEMMA MovesItself ==
  ASSUME IInv, NEW j \in Coordinators, NEW k \in Coordinators \ {j}, Step(j) \/ Interruption(j)
  PROVE  run'[k] = run[k] /\ phase'[k] = phase[k]
<1>0. run \in [Coordinators -> RunRecords] /\ phase \in [Coordinators -> Phases]
  BY RunIs
<1>1. ASSUME \/ Arrive(j) \/ TakeLease(j) \/ LeaseRefused(j) \/ Preflight(j) \/ EndChoose(j)
             \/ EndScan(j) \/ Postflight(j) \/ Report(j)
      PROVE  run'[k] = run[k] /\ phase'[k] = phase[k]
  BY <1>0, <1>1 DEF Arrive, TakeLease, LeaseRefused, Preflight, EndChoose, EndScan, Postflight,
     Report, Leave, Goto
<1>2. ASSUME NEW c \in Cases,
             \/ Choose(j, c) \/ Launch(j, c) \/ Register(j, c) \/ OpenGate(j, c)
             \/ PollScanned(j, c) \/ PollFailed(j, c) \/ PollTimeout(j, c)
             \/ CheckRow(j, c) \/ StoreReceipt(j, c)
      PROVE  run'[k] = run[k] /\ phase'[k] = phase[k]
  <2>1. CASE Choose(j, c)
    BY <1>0, <2>1 DEF Choose, Row
  <2>2. CASE Launch(j, c)
    BY <1>0, <2>2 DEF Launch
  <2>3. CASE OpenGate(j, c)
    BY <1>0, <2>3 DEF OpenGate
  <2>4. CASE PollScanned(j, c) \/ PollFailed(j, c) \/ PollTimeout(j, c)
    BY <1>0, <2>4 DEF PollScanned, PollFailed, PollTimeout
  <2>5. CASE CheckRow(j, c)
    BY <1>0, <2>5 DEF CheckRow
  <2>6. CASE StoreReceipt(j, c)
    BY <1>0, <2>6 DEF StoreReceipt
  <2>7. CASE Register(j, c)
    BY <1>0, <2>7 DEF Register
  <2>. QED
    BY <1>2, <2>1, <2>2, <2>3, <2>4, <2>5, <2>6, <2>7
<1>3. ASSUME NEW r \in run[j].stored, FileReceipt(j, r)
      PROVE  run'[k] = run[k] /\ phase'[k] = phase[k]
  BY <1>0, <1>3 DEF FileReceipt
<1>4. ASSUME NEW reason \in {"CANCELLED", "MEMORY_STOP"}, Stop(j, reason)
      PROVE  run'[k] = run[k] /\ phase'[k] = phase[k]
  BY <1>0, <1>4 DEF Stop, Goto
<1>5. ASSUME Raise(j) \/ CloseRaises(j) \/ Crash(j)
      PROVE  run'[k] = run[k] /\ phase'[k] = phase[k]
  BY <1>0, <1>5 DEF Raise, CloseRaises, Crash, Leave, Goto
<1>. QED
  BY <1>1, <1>2, <1>3, <1>4, <1>5 DEF Step, Interruption

(* While a call scans, the other coordinators are before the lease and     *)
(* touch no attempt.                                                       *)
LEMMA OthersKeepGates ==
  ASSUME IInv, NEW j \in Coordinators, NEW k \in Coordinators \ {j}, phase[k] = "scan",
         Step(j) \/ Interruption(j)
  PROVE  GatesStay
<1>1. phase[j] \notin Inside /\ RunFacts(j)
  BY Alone DEF Inside, IInv
<1>2. run[j].stored = {} /\ run[j].cleared = {}
  BY <1>1 DEF RunFacts, Inside
<1>3. ~\E reason \in {"CANCELLED", "MEMORY_STOP"} : Stop(j, reason)
  BY <1>1 DEF Stop, Inside
<1>4. ~Raise(j) /\ ~CloseRaises(j)
  BY <1>1 DEF Raise, CloseRaises, Inside
<1>5. CASE Crash(j)
  <2>1. StartedFolders(j) = {}
    BY <1>1 DEF RunFacts, StartedFolders, Rows
  <2>. QED
    BY <1>5, <2>1 DEF Crash, GatesStay, Folders
<1>6. CASE Step(j)
  <2>1. ASSUME NEW c \in Cases
        PROVE  /\ ~Choose(j, c) /\ ~Launch(j, c) /\ ~Register(j, c) /\ ~OpenGate(j, c)
               /\ ~PollScanned(j, c)
               /\ ~PollFailed(j, c) /\ ~PollTimeout(j, c) /\ ~CheckRow(j, c) /\ ~StoreReceipt(j, c)
    BY <1>1, <1>2 DEF Inside, Choose, Launch, Register, OpenGate, PollScanned, PollFailed, PollTimeout,
       CheckRow, StoreReceipt
  <2>2. att' = att
    BY <1>2, <1>6, <2>1 DEF Step, Arrive, TakeLease, LeaseRefused, Preflight, EndChoose, EndScan,
       Postflight, Report
  <2>. QED
    BY <2>2 DEF GatesStay
<1>. QED
  BY <1>3, <1>4, <1>5, <1>6 DEF Interruption

(* Workers and the world.                                                  *)
LEMMA WorldKeepsGates ==
  ASSUME IInv, World \/ UNCHANGED vars \/ \E a \in Attempts : Worker(a)
  PROVE  GatesStay /\ run' = run /\ phase' = phase
<1>0. /\ \A a \in Folders : att[a] \in AttemptRecords /\ a \in Attempts
      /\ att \in [Attempts -> AttemptRecords \union {NoFolder}]
  BY FolderType DEF IInv, TypeOK, Folders
<1>1. ASSUME NEW a \in Attempts, NEW r,
             att' = [att EXCEPT ![a] = r], a \in Folders => r.gate = att[a].gate
      PROVE  GatesStay
  BY <1>0, <1>1 DEF GatesStay
<1>2. ASSUME NEW a \in Attempts, Worker(a)
      PROVE  GatesStay /\ run' = run /\ phase' = phase
  <2>1. CASE WorkerReads(a)
    <3>1. att' = [att EXCEPT ![a] = [att[a] EXCEPT !.read = @ \union {inputs[att[a].case]},
                                                   !.ran = @ \union {engine}]]
      BY <2>1 DEF WorkerReads
    <3>. QED
      BY <1>0, <1>1, <2>1, <3>1 DEF WorkerReads, AttemptRecords
  <2>2. CASE WorkerStart(a) \/ WorkerExits(a) \/ WorkerFails(a)
    <3>1. PICK w : att' = [att EXCEPT ![a] = [att[a] EXCEPT !.worker = w]]
      BY <2>2 DEF WorkerStart, WorkerExits, WorkerFails
    <3>2. a \in Folders => [att[a] EXCEPT !.worker = w].gate = att[a].gate
      BY <1>0 DEF AttemptRecords
    <3>. QED
      BY <1>1, <2>2, <3>1, <3>2 DEF WorkerStart, WorkerExits, WorkerFails
  <2>3. CASE WorkerWrites(a)
    <3>1. att' = [att EXCEPT ![a] = [att[a] EXCEPT !.worker = "wrote", !.bytes = "scanned"]]
      BY <2>3 DEF WorkerWrites
    <3>2. a \in Folders => [att[a] EXCEPT !.worker = "wrote", !.bytes = "scanned"].gate = att[a].gate
      BY <1>0 DEF AttemptRecords
    <3>. QED
      BY <1>1, <2>3, <3>1, <3>2 DEF WorkerWrites
  <2>. QED
    BY <1>2, <2>1, <2>2, <2>3 DEF Worker
<1>3. ASSUME NEW a \in Attempts, Alter(a)
      PROVE  GatesStay /\ run' = run /\ phase' = phase
  <2>1. PICK b : att' = [att EXCEPT ![a] = [att[a] EXCEPT !.bytes = b]]
    BY <1>3 DEF Alter
  <2>2. a \in Folders => [att[a] EXCEPT !.bytes = b].gate = att[a].gate
    BY <1>0 DEF AttemptRecords
  <2>. QED
    BY <1>1, <1>3, <2>1, <2>2 DEF Alter
<1>4. EditEngine \/ (\E c \in Cases : EditInputs(c)) \/ UNCHANGED vars
        => GatesStay /\ run' = run /\ phase' = phase
  BY DEF EditEngine, EditInputs, vars, GatesStay
<1>. QED
  BY <1>2, <1>3, <1>4 DEF World
-----------------------------------------------------------------------------
(* A call that leaves, or goes to its next phase.                          *)
LEMMA PhaseOn ==
  ASSUME NEW k \in Coordinators, Turn[phase'[k]] < Turn[phase[k]]
  PROVE  Nearer(k)
BY DEF Nearer

LEMMA Leaves ==
  ASSUME IInv, NEW k \in Coordinators, Leave(k), phase[k] # "idle"
  PROVE  Nearer(k)
<1>1. phase'[k] = "idle" /\ phase[k] \in Phases \ {"idle"}
  BY RunIs DEF Leave, Goto
<1>. QED
  BY <1>1, PhaseOn DEF Turn, Phases, Inside

LEMMA GoesTo ==
  ASSUME IInv, NEW k \in Coordinators, NEW label, Goto(k, label)
  PROVE  phase'[k] = label
BY RunIs DEF Goto

LEMMA PhaseSteps ==
  ASSUME IInv, NEW k \in Coordinators, phase[k] # "idle",
         \/ TakeLease(k) \/ LeaseRefused(k) \/ Preflight(k) \/ EndChoose(k)
         \/ EndScan(k) \/ Postflight(k) \/ Report(k) \/ Interruption(k)
  PROVE  Nearer(k)
<1>1. CASE Leave(k)
  BY <1>1, Leaves
<1>2. CASE ~Leave(k)
  <2>1. \/ phase[k] = "lease" /\ phase'[k] = "preflight"
        \/ phase[k] = "preflight" /\ phase'[k] = "choose"
        \/ phase[k] = "choose" /\ phase'[k] = "scan"
        \/ phase[k] \in {"choose", "scan"} /\ phase'[k] = "postflight"
        \/ phase[k] = "postflight" /\ phase'[k] = "publish"
    BY <1>2, GoesTo DEF TakeLease, LeaseRefused, Preflight, EndChoose, EndScan, Postflight,
       Report, Interruption, Stop, Raise, CloseRaises, Crash
  <2>. QED
    BY <2>1, PhaseOn DEF Turn
<1>. QED
  BY <1>1, <1>2

(* In the loops of choose and publish.                                     *)
LEMMA ChooseOn ==
  ASSUME IInv, NEW k \in Coordinators, NEW c \in Cases, Choose(k, c)
  PROVE  Nearer(k)
<1>1. PICK state, a : Row(k, c, state, a)
  BY DEF Choose
<1>2. run'[k].todo = run[k].todo \ {c}
  BY <1>1, RunIs DEF Row, RunRecords
<1>3. c \in run[k].todo /\ phase[k] = "choose" /\ phase' = phase
  BY DEF Choose
<1>. QED
  BY <1>2, <1>3 DEF Nearer, FewerCases

LEMMA PublishOn ==
  ASSUME IInv, NEW k \in Coordinators, NEW c \in Cases, CheckRow(k, c) \/ StoreReceipt(k, c)
  PROVE  Nearer(k)
<1>0. run[k] \in RunRecords /\ run \in [Coordinators -> RunRecords]
  BY RunIs
<1>1. CASE CheckRow(k, c)
  <2>1. run'[k].todo = run[k].todo \ {c}
    BY <1>0, <1>1 DEF CheckRow, RunRecords
  <2>2. c \in run[k].todo /\ phase[k] = "publish" /\ phase' = phase
    BY <1>1 DEF CheckRow
  <2>. QED
    BY <2>1, <2>2 DEF Nearer, FewerCases
<1>2. CASE StoreReceipt(k, c)
  <2>1. /\ run[k].cleared # {} /\ phase[k] = "publish" /\ phase' = phase
    BY <1>2 DEF StoreReceipt, IInv, RunFacts
  <2>2. run'[k].cleared = {} /\ run'[k].todo = run[k].todo
    BY <1>0, <1>2 DEF StoreReceipt, RunRecords
  <2>3. ReceiptLeft(k) = 2 /\ ReceiptLeft(k)' \in {0, 1}
    BY <2>1, <2>2 DEF ReceiptLeft
  <2>. QED
    BY <2>1, <2>2, <2>3 DEF Nearer
<1>. QED
  BY <1>1, <1>2

LEMMA FileOn ==
  ASSUME IInv, NEW k \in Coordinators, NEW r \in run[k].stored, FileReceipt(k, r)
  PROVE  Nearer(k)
<1>1. run[k].cleared = {} /\ phase[k] = "publish" /\ phase' = phase
  BY DEF FileReceipt, IInv, RunFacts
<1>2. run'[k].stored = {} /\ run'[k].cleared = {} /\ run'[k].todo = run[k].todo
  BY <1>1, RunIs DEF FileReceipt, RunRecords
<1>3. ReceiptLeft(k) = 1 /\ ReceiptLeft(k)' = 0
  BY <1>1, <1>2 DEF ReceiptLeft
<1>. QED
  BY <1>1, <1>2, <1>3 DEF Nearer

(* In the scan loop: one row is further, the others stay.                  *)
LEMMA ScanOn ==
  ASSUME IInv, NEW k \in Coordinators, NEW c \in Cases,
         phase[k] = "scan", phase' = phase,
         RowLeft(k, c)' < RowLeft(k, c),
         \A d \in Cases \ {c} : RowLeft(k, d)' = RowLeft(k, d)
  PROVE  Nearer(k)
<1>1. ASSUME NEW d \in Cases PROVE RowLeft(k, d)' <= RowLeft(k, d)
  <2>1. CASE d = c
    <3>1. RowLeft(k, c) \in Int /\ RowLeft(k, c)' \in Int
      BY RowLeftIs DEF RowLeft
    <3>. QED
      BY <2>1, <3>1
  <2>2. CASE d # c
    <3>1. RowLeft(k, d) \in Int
      BY RowLeftIs
    <3>. QED
      BY <2>2, <3>1
  <2>. QED
    BY <2>1, <2>2
<1>. QED
  BY <1>1 DEF Nearer, RowsGoOn

(* A worker is launched into a folder that is new.                         *)
LEMMA LaunchOn ==
  ASSUME IInv, NEW k \in Coordinators, NEW c \in Cases, Launch(k, c)
  PROVE  Nearer(k)
<1>1. PICK a \in Attempts \ Folders :
        /\ att' = [att EXCEPT ![a] =
             [case |-> c, cand |-> run[k].sel[c], eng |-> run[k].eng,
              worker |-> "waiting", gate |-> FALSE, orphan |-> FALSE, stray |-> FALSE,
              ran |-> {engine}, read |-> {}, bytes |-> "none", observed |-> 0,
              invalid |-> FALSE, receipt |-> "none", noticed |-> FALSE]]
        /\ run' = [run EXCEPT ![k].row[c] = "STARTING", ![k].at[c] = a]
  BY DEF Launch
<1>2. /\ run'[k].row = [run[k].row EXCEPT ![c] = "STARTING"]
      /\ run'[k].at = [run[k].at EXCEPT ![c] = a]
  BY <1>1, RunIs DEF RunRecords
<1>3. run'[k].row[c] = "STARTING"
  BY <1>2, RunIs
<1>4. run[k].row[c] = "QUEUED" /\ phase[k] = "scan" /\ phase' = phase
  BY DEF Launch
<1>5. RowLeft(k, c) = 4 /\ RowLeft(k, c)' = 3
  BY <1>3, <1>4 DEF RowLeft
<1>6. ASSUME NEW d \in Cases \ {c} PROVE RowLeft(k, d)' = RowLeft(k, d)
  <2>1. run'[k].row[d] = run[k].row[d] /\ run'[k].at[d] = run[k].at[d]
    BY <1>2, RunIs DEF RunRecords
  <2>2. run[k].row[d] = "ACTIVE" => run[k].at[d] # a /\ run[k].at[d] \in Attempts
    BY ActiveFolder
  <2>3. run[k].row[d] = "ACTIVE" => att'[run[k].at[d]].gate = att[run[k].at[d]].gate
    BY <1>1, <2>2 DEF IInv, TypeOK
  <2>. QED
    BY <2>1, <2>3, RowStays
<1>. QED
  BY <1>4, <1>5, <1>6, ScanOn

(* A process gets its place on the list.                                   *)
LEMMA RegisterOn ==
  ASSUME IInv, NEW k \in Coordinators, NEW c \in Cases, Register(k, c)
  PROVE  Nearer(k)
<1>1. /\ run[k].row[c] = "STARTING" /\ phase[k] = "scan" /\ phase' = phase /\ att' = att
      /\ run' = [run EXCEPT ![k].row[c] = "ACTIVE"]
  BY DEF Register
<1>2. run'[k].row = [run[k].row EXCEPT ![c] = "ACTIVE"] /\ run'[k].at = run[k].at
  BY <1>1, RunIs DEF RunRecords
<1>3. RowLeft(k, c) = 3 /\ RowLeft(k, c)' \in {1, 2}
  <2>1. run'[k].row[c] = "ACTIVE"
    BY <1>2, RunIs
  <2>. QED
    BY <1>1, <2>1 DEF RowLeft
<1>4. ASSUME NEW d \in Cases \ {c} PROVE RowLeft(k, d)' = RowLeft(k, d)
  <2>1. run'[k].row[d] = run[k].row[d] /\ run'[k].at[d] = run[k].at[d]
    BY <1>2, RunIs
  <2>. QED
    BY <1>1, <2>1, RowStays
<1>. QED
  BY <1>1, <1>3, <1>4, ScanOn

(* A gate is opened.                                                       *)
LEMMA OpenOn ==
  ASSUME IInv, NEW k \in Coordinators, NEW c \in Cases, OpenGate(k, c)
  PROVE  Nearer(k)
<1> DEFINE a == run[k].at[c]
<1>1. /\ run[k].row[c] = "ACTIVE" /\ phase[k] = "scan" /\ UNCHANGED <<run, phase>>
      /\ ~att[a].gate
      /\ att' = [att EXCEPT ![a].gate = TRUE]
  BY DEF OpenGate
<1>2. a \in Folders /\ a \in Attempts /\ att[a].case = c
  BY <1>1, ActiveFolder DEF IInv, RunFacts, RowFacts, Backed
<1>3. att'[a].gate
  BY <1>1, <1>2, FolderType DEF IInv, TypeOK, AttemptRecords
<1>4. RowLeft(k, c) = 2 /\ RowLeft(k, c)' = 1
  BY <1>1, <1>3 DEF RowLeft
<1>5. ASSUME NEW d \in Cases \ {c} PROVE RowLeft(k, d)' = RowLeft(k, d)
  <2>1. run[k].row[d] = "ACTIVE" => run[k].at[d] \in Attempts /\ att[run[k].at[d]].case = d
    BY ActiveFolder DEF IInv, RunFacts, RowFacts, Backed
  <2>2. run[k].row[d] = "ACTIVE" => att'[run[k].at[d]].gate = att[run[k].at[d]].gate
    BY <1>1, <1>2, <2>1 DEF IInv, TypeOK
  <2>. QED
    BY <1>1, <2>2, RowStays
<1>. QED
  BY <1>1, <1>4, <1>5, ScanOn

(* A worker is found to be done, or out of time.                           *)
LEMMA PollOn ==
  ASSUME IInv, NEW k \in Coordinators, NEW c \in Cases,
         PollScanned(k, c) \/ PollFailed(k, c) \/ PollTimeout(k, c)
  PROVE  Nearer(k)
<1>1. /\ run[k].row[c] = "ACTIVE" /\ phase[k] = "scan" /\ phase' = phase
      /\ att[run[k].at[c]].gate
  BY DEF PollScanned, PollFailed, PollTimeout
<1>2. PICK state \in {"SCANNED", "FAILED", "TIMEOUT"} : run' = [run EXCEPT ![k].row[c] = state]
  BY DEF PollScanned, PollFailed, PollTimeout
<1>3. run'[k].row = [run[k].row EXCEPT ![c] = state] /\ run'[k].at = run[k].at
  BY <1>2, RunIs DEF RunRecords
<1>4. GatesStay
  <2>1. CASE PollScanned(k, c)
    <3>1. \A a \in Folders : att[a] \in AttemptRecords /\ a \in Attempts
      BY FolderType DEF IInv, Folders
    <3>2. att' = [att EXCEPT ![run[k].at[c]].observed = clock]
      BY <2>1 DEF PollScanned
    <3>. QED
      BY <3>1, <3>2 DEF GatesStay, IInv, TypeOK, AttemptRecords
  <2>2. CASE PollFailed(k, c)
    BY <2>2 DEF PollFailed, GatesStay
  <2>3. CASE PollTimeout(k, c)
    BY <2>3, CloseKeepsGates DEF PollTimeout
  <2>. QED
    BY <2>1, <2>2, <2>3
<1>5. RowLeft(k, c) = 1 /\ RowLeft(k, c)' = 0
  <2>1. run'[k].row[c] = state
    BY <1>3, RunIs
  <2>. QED
    BY <1>1, <2>1 DEF RowLeft
<1>6. ASSUME NEW d \in Cases \ {c} PROVE RowLeft(k, d)' = RowLeft(k, d)
  <2>1. run'[k].row[d] = run[k].row[d] /\ run'[k].at[d] = run[k].at[d]
    BY <1>3, RunIs
  <2>2. run[k].row[d] = "ACTIVE" => att'[run[k].at[d]].gate = att[run[k].at[d]].gate
    BY <1>4, ActiveFolder DEF GatesStay
  <2>. QED
    BY <2>1, <2>2, RowStays
<1>. QED
  BY <1>1, <1>5, <1>6, ScanOn

(* Whatever a call does, and whatever is done to it, it is nearer.         *)
LEMMA OwnStepOn ==
  ASSUME IInv, NEW k \in Coordinators, phase[k] # "idle", Step(k) \/ Interruption(k)
  PROVE  Nearer(k)
<1>1. ~Arrive(k)
  BY DEF Arrive
<1>2. ASSUME NEW c \in Cases,
             \/ Choose(k, c) \/ Launch(k, c) \/ Register(k, c) \/ OpenGate(k, c)
             \/ PollScanned(k, c) \/ PollFailed(k, c) \/ PollTimeout(k, c)
             \/ CheckRow(k, c) \/ StoreReceipt(k, c)
      PROVE  Nearer(k)
  BY <1>2, ChooseOn, LaunchOn, RegisterOn, OpenOn, PollOn, PublishOn
<1>3. ASSUME NEW r \in run[k].stored, FileReceipt(k, r) PROVE Nearer(k)
  BY <1>3, FileOn
<1>. QED
  BY <1>1, <1>2, <1>3, PhaseSteps DEF Step

(* Every call goes on towards its end, and nobody sets it back: with the   *)
(* scan loop's poll and time out it cannot run for ever.                   *)
THEOREM CallsShortenHolds == Spec => CallsShorten
<1> DEFINE P(k) == phase[k] # "idle" =>
                     /\ Step(k) \/ Interruption(k) => Nearer(k)
                     /\ Nearer(k) \/ StaysPut(k)
<1>1. IInv /\ [Next]_vars => [\A k \in Coordinators : P(k)]_vars
  <2> SUFFICES ASSUME IInv, [Next]_vars, NEW k \in Coordinators, phase[k] # "idle"
               PROVE  /\ Step(k) \/ Interruption(k) => Nearer(k)
                      /\ Nearer(k) \/ StaysPut(k)
    OBVIOUS
  <2>1. Step(k) \/ Interruption(k) => Nearer(k)
    BY OwnStepOn
  <2>2. ASSUME NEW j \in Coordinators \ {k}, Step(j) \/ Interruption(j) PROVE StaysPut(k)
    BY <2>2, MovesItself, OthersKeepGates, RunStays
  <2>3. World \/ UNCHANGED vars \/ (\E a \in Attempts : Worker(a)) => StaysPut(k)
    BY WorldKeepsGates, RunStays
  <2>. QED
    BY <2>1, <2>2, <2>3 DEF Next
<1>. QED
  BY <1>1, Invariance, PTL DEF Spec, CallsShorten
=============================================================================
