----------------------------- MODULE CaseStore -----------------------------
(***************************************************************************)
(* The append-only case store (case_store.py) with the capture of a        *)
(* candidate (case_identity.py).  Several processes run create_case,       *)
(* add_candidate and add_receipt against one store directory while the     *)
(* workspaces and the evidence files they describe are being edited.       *)
(* Every write holds the lock file, which is created exclusively, carries  *)
(* the holder's token and is never taken over: a writer that dies inside,  *)
(* or whose cleanup fails, leaves it, and everyone is refused until        *)
(* somebody removes it.                                                    *)
(*                                                                         *)
(* A workspace is NFiles files, each a version number; an edit gives a     *)
(* file bytes it never had before.  A digest is the bytes themselves.      *)
(***************************************************************************)
EXTENDS Integers, Sequences

CONSTANTS
  Writers,    \* processes using the store
  Cases,      \* case identities callers may supply
  Cores,      \* workspace / target profile / declared scope bindings
  NFiles,     \* files of a workspace
  MaxVersion, \* BOUND: how often one file is edited
  MaxCalls,   \* BOUND: how many operations are started in all
  NoRecord,   \* an absent case record or predecessor
  Nobody      \* the lock file does not exist

ASSUME NFilesAssumption == NFiles \in Nat \ {0}
ASSUME MaxVersionAssumption == MaxVersion \in Nat
ASSUME MaxCallsAssumption == MaxCalls \in Nat
ASSUME NobodyAssumption == Nobody \notin Writers

VARIABLES
  lock,       \* the process that created the lock file, or Nobody
  token,      \* whether that process has written its token into the file
  abandoned,  \* history: the call that created the lock file is over, and
              \* the file is still there
  cases,      \* cases/<id>.json: the record, or NoRecord
  candidates, \* <case>/candidates/<digest>.json: named by their content
  receipts,   \* <case>/receipts/<digest>.json: named by their content
  working,    \* the bytes of every file of every case's workspace
  evidence,   \* the bytes of the evidence file of every case
  pc,         \* where each process is
  op,         \* the operation each process is running
  calls,      \* how many operations have been started (for MaxCalls)
  seen        \* history: every state each workspace has been in

store == <<cases, candidates, receipts>>
disk == <<working, evidence, seen>>
vars == <<lock, token, abandoned, cases, candidates, receipts, working, evidence,
          pc, op, calls, seen>>

Versions == 0..MaxVersion
Payloads == [1..NFiles -> Versions]
CaseRecords == [core : Cores, created : Writers]

(* A candidate is named by the digest of its content, so it is its name.   *)
(* BOUND: a predecessor has no predecessor of its own.                     *)
FirstCandidates == [case : Cases, payload : Payloads, predecessor : {NoRecord}]
Candidates ==
  FirstCandidates
    \union [case : Cases, payload : Payloads, predecessor : FirstCandidates]
Receipts == [case : Cases, candidate : Candidates, evidence : Versions]

ASSUME NoRecordAssumption ==
  /\ NoRecord \notin CaseRecords
  /\ NoRecord \notin FirstCandidates

NoOp == [kind |-> "none"]
CreateOps == [kind : {"case"}, case : Cases, core : Cores]
CandidateOps ==
  [kind : {"candidate"}, case : Cases,
   predecessor : FirstCandidates \union {NoRecord}, read : Seq(Versions)]
ReceiptOps == [kind : {"receipt"}, receipt : Receipts]
Ops == {NoOp} \union CreateOps \union CandidateOps \union ReceiptOps

Init ==
  /\ lock = Nobody
  /\ token = FALSE
  /\ abandoned = FALSE
  /\ cases = [c \in Cases |-> NoRecord]
  /\ candidates = {}
  /\ receipts = {}
  /\ working = [c \in Cases |-> [i \in 1..NFiles |-> 0]]
  /\ evidence = [c \in Cases |-> 0]
  /\ seen = [c \in Cases |-> {[i \in 1..NFiles |-> 0]}]
  /\ pc = [w \in Writers |-> "idle"]
  /\ op = [w \in Writers |-> NoOp]
  /\ calls = 0

Goto(w, label) == pc' = [pc EXCEPT ![w] = label]

-----------------------------------------------------------------------------
(* The calls, up to the point where they ask for the lock.                 *)

Begin(w, call) ==
  /\ pc[w] = "idle"
  /\ calls < MaxCalls
  /\ calls' = calls + 1
  /\ Goto(w, "opening")
  /\ op' = [op EXCEPT ![w] = call]
  /\ UNCHANGED <<lock, token, abandoned, store, disk>>

CreateCase(w) ==
  \E c \in Cases, k \in Cores :
    Begin(w, [kind |-> "case", case |-> c, core |-> k])

(* self.workspace(identity) refuses a case that has no record.  The caller *)
(* names any digest as the predecessor: of a stored candidate, of one that *)
(* was never stored, of another case's.                                    *)
AddCandidate(w) ==
  \E c \in Cases, p \in {NoRecord} \union FirstCandidates :
    /\ cases[c] # NoRecord
    /\ Begin(w, [kind |-> "candidate", case |-> c, predecessor |-> p, read |-> << >>])

(* The caller made the receipt before: from a stored candidate or from one *)
(* it only captured, and from the evidence bytes of that moment.           *)
AddReceipt(w) ==
  \E c \in Cases :
    \E x \in {y \in candidates : y.case = c}
               \union {[case |-> c, payload |-> working[c], predecessor |-> NoRecord]} :
      /\ cases[c] # NoRecord
      /\ Begin(w, [kind |-> "receipt",
                   receipt |-> [case |-> c, candidate |-> x, evidence |-> evidence[c]]])

-----------------------------------------------------------------------------
(* The lock: an exclusive create, then the token; the finally clause       *)
(* removes the file only while it still carries this call's token.         *)

Locked(w) == lock = w /\ pc[w] \in {"claimed", "locked", "capture", "publish", "release"}

(* Mutant: the lock file is opened without O_EXCL. *)
AcquireShared(w) ==
  /\ pc[w] = "opening"
  /\ lock' = w
  /\ token' = FALSE
  /\ Goto(w, "claimed")
  /\ UNCHANGED <<abandoned, store, disk, op, calls>>

Acquire(w) ==
  /\ pc[w] = "opening"
  /\ lock = Nobody
  /\ lock' = w
  /\ token' = FALSE
  /\ Goto(w, "claimed")
  /\ UNCHANGED <<abandoned, store, disk, op, calls>>

(* FileExistsError: no waiting, no takeover. *)
Refused(w) ==
  /\ pc[w] = "opening"
  /\ lock # Nobody
  /\ Goto(w, "idle")
  /\ op' = [op EXCEPT ![w] = NoOp]
  /\ UNCHANGED <<lock, token, abandoned, store, disk, calls>>

WriteToken(w) ==
  /\ pc[w] = "claimed"
  /\ token' = TRUE
  /\ Goto(w, "locked")
  /\ UNCHANGED <<lock, abandoned, store, disk, op, calls>>

(* Writing, flushing or syncing the token raises, with the text in the     *)
(* file or not, and the call goes to its finally clause.                   *)
TokenFails(w) ==
  /\ pc[w] = "claimed"
  /\ \E written \in BOOLEAN : token' = written
  /\ Goto(w, "release")
  /\ UNCHANGED <<lock, abandoned, store, disk, op, calls>>

(* The finally clause: a file that carries another text than this call's   *)
(* token is left where it is.                                              *)
Release(w) ==
  /\ pc[w] = "release"
  /\ IF lock = w /\ token
       THEN lock' = Nobody /\ token' = FALSE /\ UNCHANGED abandoned
       ELSE abandoned' = TRUE /\ UNCHANGED <<lock, token>>
  /\ Goto(w, "idle")
  /\ op' = [op EXCEPT ![w] = NoOp]
  /\ UNCHANGED <<store, disk, calls>>

(* The finally clause itself raises (_physical, read_text, safe_unlink):   *)
(* the call ends, its process lives on, and the lock file stays.           *)
ReleaseFails(w) ==
  /\ pc[w] = "release"
  /\ abandoned' = TRUE
  /\ Goto(w, "idle")
  /\ op' = [op EXCEPT ![w] = NoOp]
  /\ UNCHANGED <<lock, token, store, disk, calls>>

-----------------------------------------------------------------------------
(* Inside the lock.                                                        *)

(* Mutant: an existing case record is written again. *)
CheckCaseNothing(w) ==
  /\ pc[w] = "locked"
  /\ op[w].kind = "case"
  /\ Goto(w, "publish")
  /\ UNCHANGED <<lock, token, abandoned, store, disk, op, calls>>

(* An existing case record is either returned or refuses the call, never   *)
(* written again.                                                          *)
CheckCase(w) ==
  /\ pc[w] = "locked"
  /\ op[w].kind = "case"
  /\ Goto(w, IF cases[op[w].case] = NoRecord THEN "publish" ELSE "release")
  /\ UNCHANGED <<lock, token, abandoned, store, disk, op, calls>>

(* load_candidate of the predecessor reads <case>/candidates/. *)
PredecessorKnown(c, p) ==
  p = NoRecord \/ (p \in candidates /\ p.case = c)

(* Mutant: the predecessor is taken as named. *)
LoadPredecessorUnseen(w) ==
  /\ pc[w] = "locked"
  /\ op[w].kind = "candidate"
  /\ Goto(w, "capture")
  /\ UNCHANGED <<lock, token, abandoned, store, disk, op, calls>>

LoadPredecessor(w) ==
  /\ pc[w] = "locked"
  /\ op[w].kind = "candidate"
  /\ Goto(w, IF PredecessorKnown(op[w].case, op[w].predecessor) THEN "capture" ELSE "release")
  /\ UNCHANGED <<lock, token, abandoned, store, disk, op, calls>>

(* capture_candidate reads the whole workspace file by file, twice. *)
Observe(w) ==
  /\ pc[w] = "capture"
  /\ Len(op[w].read) < 2 * NFiles
  /\ op' = [op EXCEPT ![w].read =
              Append(@, working[op[w].case][1 + (Len(@) % NFiles)])]
  /\ UNCHANGED <<lock, token, abandoned, store, disk, pc, calls>>

Agrees(read) == \A i \in 1..NFiles : read[i] = read[NFiles + i]

Captured(call) ==
  [case |-> call.case,
   payload |-> [i \in 1..NFiles |-> call.read[i]],
   predecessor |-> call.predecessor]

(* Mutant: the second observation is made but not compared. *)
CheckFirstObservation(w) ==
  /\ pc[w] = "capture"
  /\ Len(op[w].read) = 2 * NFiles
  /\ Goto(w, IF Captured(op[w]) \notin candidates THEN "publish" ELSE "release")
  /\ UNCHANGED <<lock, token, abandoned, store, disk, op, calls>>

CheckCandidate(w) ==
  /\ pc[w] = "capture"
  /\ Len(op[w].read) = 2 * NFiles
  /\ Goto(w, IF Agrees(op[w].read) /\ Captured(op[w]) \notin candidates
               THEN "publish" ELSE "release")
  /\ UNCHANGED <<lock, token, abandoned, store, disk, op, calls>>

(* receipt_state = CURRENT: the stored candidate, and unchanged evidence. *)
Current(r) == r.candidate \in candidates /\ evidence[r.case] = r.evidence

(* Mutant: only the evidence is checked, not the stored candidate. *)
CheckEvidenceOnly(w) ==
  /\ pc[w] = "locked"
  /\ op[w].kind = "receipt"
  /\ Goto(w, IF evidence[op[w].receipt.case] = op[w].receipt.evidence
               THEN "publish" ELSE "release")
  /\ UNCHANGED <<lock, token, abandoned, store, disk, op, calls>>

(* Mutant: a stale receipt is refused outside the try, past the finally. *)
CheckReceiptUnguarded(w) ==
  /\ pc[w] = "locked"
  /\ op[w].kind = "receipt"
  /\ Goto(w, IF Current(op[w].receipt) /\ op[w].receipt \notin receipts
               THEN "publish" ELSE "idle")
  /\ UNCHANGED <<lock, token, abandoned, store, disk, op, calls>>

CheckReceipt(w) ==
  /\ pc[w] = "locked"
  /\ op[w].kind = "receipt"
  /\ Goto(w, IF Current(op[w].receipt) /\ op[w].receipt \notin receipts
               THEN "publish" ELSE "release")
  /\ UNCHANGED <<lock, token, abandoned, store, disk, op, calls>>

(* Mutant: the created_at stamp is left out of a new case record. *)
PublishUnstamped(w) ==
  /\ pc[w] = "publish"
  /\ op[w].kind = "case"
  /\ Goto(w, "release")
  /\ cases' = [cases EXCEPT ![op[w].case] = [core |-> op[w].core]]
  /\ UNCHANGED <<candidates, receipts, lock, token, abandoned, disk, op, calls>>

(* atomic_write_json: the record is there whole, or not at all. *)
Publish(w) ==
  /\ pc[w] = "publish"
  /\ Goto(w, "release")
  /\ CASE op[w].kind = "case" ->
            /\ cases' = [cases EXCEPT ![op[w].case] = [core |-> op[w].core, created |-> w]]
            /\ UNCHANGED <<candidates, receipts>>
       [] op[w].kind = "candidate" ->
            /\ candidates' = candidates \union {Captured(op[w])}
            /\ UNCHANGED <<cases, receipts>>
       [] op[w].kind = "receipt" ->
            /\ receipts' = receipts \union {op[w].receipt}
            /\ UNCHANGED <<cases, candidates>>
  /\ UNCHANGED <<lock, token, abandoned, disk, op, calls>>

(* An error while reading or writing leaves through the finally clause. *)
OperationFails(w) ==
  /\ pc[w] \in {"locked", "capture", "publish"}
  /\ Goto(w, "release")
  /\ UNCHANGED <<lock, token, abandoned, store, disk, op, calls>>

-----------------------------------------------------------------------------
(* The world around the store.                                             *)

Crash(w) ==
  /\ pc[w] # "idle"
  /\ Goto(w, "idle")
  /\ op' = [op EXCEPT ![w] = NoOp]
  /\ abandoned' = (abandoned \/ Locked(w))
  /\ UNCHANGED <<lock, token, store, disk, calls>>

(* Somebody deletes a lock that the call which made it left behind. *)
RecoverLock ==
  /\ abandoned
  /\ lock' = Nobody
  /\ token' = FALSE
  /\ abandoned' = FALSE
  /\ UNCHANGED <<store, disk, pc, op, calls>>

EditWorking(c, i) ==
  /\ working[c][i] < MaxVersion
  /\ working' = [working EXCEPT ![c][i] = @ + 1]
  /\ seen' = [seen EXCEPT ![c] = @ \union {working'[c]}]
  /\ UNCHANGED <<lock, token, abandoned, store, evidence, pc, op, calls>>

EditEvidence(c) ==
  /\ evidence[c] < MaxVersion
  /\ evidence' = [evidence EXCEPT ![c] = @ + 1]
  /\ UNCHANGED <<lock, token, abandoned, store, working, seen, pc, op, calls>>

Call(w) == CreateCase(w) \/ AddCandidate(w) \/ AddReceipt(w)

Step(w) ==
  \/ Acquire(w) \/ Refused(w) \/ WriteToken(w) \/ Release(w)
  \/ CheckCase(w) \/ LoadPredecessor(w) \/ Observe(w) \/ CheckCandidate(w)
  \/ CheckReceipt(w) \/ Publish(w)

Fail(w) == TokenFails(w) \/ OperationFails(w) \/ ReleaseFails(w)

Next ==
  \/ \E w \in Writers : Call(w) \/ Step(w) \/ Fail(w) \/ Crash(w)
  \/ \E c \in Cases, i \in 1..NFiles : EditWorking(c, i)
  \/ \E c \in Cases : EditEvidence(c)
  \/ RecoverLock

Spec == Init /\ [][Next]_vars

(* A running process keeps running; callers, editors, failures and the     *)
(* person who recovers a lock owe nothing.                                 *)
FairSpec == Spec /\ \A w \in Writers : WF_vars(Step(w))

-----------------------------------------------------------------------------
TypeOK ==
  /\ lock \in Writers \union {Nobody}
  /\ token \in BOOLEAN
  /\ abandoned \in BOOLEAN
  /\ cases \in [Cases -> CaseRecords \union {NoRecord}]
  /\ candidates \subseteq Candidates
  /\ receipts \subseteq Receipts
  /\ working \in [Cases -> Payloads]
  /\ evidence \in [Cases -> Versions]
  /\ seen \in [Cases -> SUBSET Payloads]
  /\ calls \in 0..MaxCalls
  /\ pc \in [Writers -> {"idle", "opening", "claimed", "locked", "capture", "publish", "release"}]
  /\ op \in [Writers -> Ops]
  /\ \A w \in Writers : pc[w] = "capture" => op[w].kind = "candidate"

(* Writes are serialized (class docstring of CaseStore): a process past    *)
(* the exclusive create is the one the lock file names, and an abandoned   *)
(* lock has no process behind it, so nobody can be inside while somebody   *)
(* removes it.                                                             *)
Serialized ==
  \A w \in Writers :
    pc[w] \in {"claimed", "locked", "capture", "publish", "release"} =>
      lock = w /\ ~abandoned

(* A candidate was a real state of the workspace, not a mixture of two:    *)
(* the double observation of capture_candidate refuses every tree that     *)
(* changed while it was read file by file.                                 *)
CapturedWhole == \A x \in candidates : x.payload \in seen[x.case]

(* Every name a record mentions resolves: load_candidate and load_case     *)
(* never fail on a predecessor, a receipt's candidate or a case that a     *)
(* stored record refers to.                                                *)
Resolvable ==
  /\ \A x \in candidates :
       /\ cases[x.case] # NoRecord
       /\ PredecessorKnown(x.case, x.predecessor)
  /\ \A r \in receipts : r.candidate \in candidates /\ r.candidate.case = r.case

(* "Records are atomic, content-addressed and never replaced with          *)
(* different bytes": a stored record survives every later step as it is.   *)
Immutable ==
  [][/\ \A c \in Cases : cases[c] # NoRecord => cases'[c] = cases[c]
     /\ candidates \subseteq candidates'
     /\ receipts \subseteq receipts']_store

(* The store with its locks and crashes is the plain append-only record    *)
(* set: readers need no lock.                                              *)
Abstract == INSTANCE AppendOnlyRecords WITH
  Cases <- Cases,
  NoRecord <- NoRecord,
  cases <- cases,
  candidates <- candidates,
  receipts <- receipts
Implements == Abstract!Spec

(* Every lock file goes away again, unless its creator died with it, could *)
(* not write its token or failed in the cleanup itself: no refusal and no  *)
(* failure of the work done inside the lock leaks it.                      *)
LockIsReturned == lock # Nobody ~> (lock = Nobody \/ abandoned)
=============================================================================
