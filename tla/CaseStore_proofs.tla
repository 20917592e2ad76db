-------------------------- MODULE CaseStore_proofs --------------------------
(***************************************************************************)
(* Proofs about CaseStore, for every set of processes, cases and bindings, *)
(* every number of files and every bound: writes are serialized, stored    *)
(* records resolve and never change, and the store with its lock file and  *)
(* its crashes implements AppendOnlyRecords.                               *)
(***************************************************************************)
EXTENDS CaseStore, SequenceTheorems, TLAPS

(* A lock left behind is still there: nobody can create it a second time.  *)
LeftBehind == abandoned => lock # Nobody

(* What a process knows of the store between its check and its write, and  *)
(* may rely on only because nobody else can be inside the lock.            *)
Pending(w) ==
  /\ pc[w] # "idle" => op[w].kind # "none"
  /\ op[w].kind = "case" /\ pc[w] = "publish" => cases[op[w].case] = NoRecord
  /\ op[w].kind = "candidate" =>
       /\ cases[op[w].case] # NoRecord
       /\ pc[w] = "capture" => PredecessorKnown(op[w].case, op[w].predecessor)
       /\ pc[w] = "publish" =>
            /\ PredecessorKnown(op[w].case, op[w].predecessor)
            /\ Len(op[w].read) = 2 * NFiles
  /\ op[w].kind = "receipt" =>
       /\ op[w].receipt.candidate.case = op[w].receipt.case
       /\ pc[w] = "publish" => op[w].receipt.candidate \in candidates

IInv ==
  /\ TypeOK
  /\ Serialized
  /\ LeftBehind
  /\ \A w \in Writers : Pending(w)
  /\ Resolvable
-----------------------------------------------------------------------------
(* The file an observation reads next is one of the workspace. *)
LEMMA ModRange ==
  ASSUME NEW a \in Nat, NEW b \in Nat \ {0}
  PROVE  1 + (a % b) \in 1..b
OBVIOUS

(* A candidate without a predecessor is a first candidate. *)
LEMMA FirstIsFirst ==
  ASSUME NEW x \in Candidates, x.predecessor = NoRecord
  PROVE  x \in FirstCandidates
BY NoRecordAssumption DEF Candidates, FirstCandidates

(* The record a capture publishes is a candidate. *)
LEMMA CapturedIsCandidate ==
  ASSUME NEW call \in CandidateOps, Len(call.read) = 2 * NFiles
  PROVE  Captured(call) \in Candidates
<1>1. \A i \in 1..NFiles : call.read[i] \in Versions
  BY NFilesAssumption DEF CandidateOps
<1> QED BY <1>1 DEF Captured, Candidates, CandidateOps, FirstCandidates, Payloads

(* The processes' operations keep their kinds: a record of one kind is not *)
(* one of another.                                                         *)
LEMMA OpKinds ==
  ASSUME NEW x \in Ops
  PROVE  /\ x.kind \in {"none", "case", "candidate", "receipt"}
         /\ x.kind = "case" => x \in CreateOps
         /\ x.kind = "candidate" => x \in CandidateOps
         /\ x.kind = "receipt" => x \in ReceiptOps
BY DEF Ops, NoOp, CreateOps, CandidateOps, ReceiptOps

LEMMA InitInv == Init => IInv
<1> SUFFICES ASSUME Init PROVE IInv
  OBVIOUS
<1>1. TypeOK
  <2>1. [i \in 1..NFiles |-> 0] \in Payloads
    BY MaxVersionAssumption DEF Payloads, Versions
  <2>2. 0 \in Versions /\ 0 \in 0..MaxCalls
    BY MaxVersionAssumption, MaxCallsAssumption DEF Versions
  <2>3. working \in [Cases -> Payloads] /\ seen \in [Cases -> SUBSET Payloads]
    BY <2>1 DEF Init
  <2> QED BY <2>2, <2>3 DEF Init, TypeOK, Ops
<1>2. \A w \in Writers : Pending(w)
  BY DEF Init, Pending, NoOp
<1> QED BY <1>1, <1>2 DEF Init, IInv, Serialized, LeftBehind, Resolvable

(* The exclusive create is what keeps everybody else out, and the token    *)
(* check never leaves a lock behind that nobody owns.                      *)
LEMMA LockStep ==
  ASSUME IInv, [Next]_vars
  PROVE  Serialized' /\ LeftBehind'
<1> USE NobodyAssumption
<1>1. ASSUME NEW w \in Writers, CreateCase(w) PROVE Serialized' /\ LeftBehind'
  BY <1>1 DEF CreateCase, IInv, TypeOK, Serialized, LeftBehind, Begin, Goto, Locked
<1>2. ASSUME NEW w \in Writers, AddCandidate(w) PROVE Serialized' /\ LeftBehind'
  BY <1>2 DEF AddCandidate, IInv, TypeOK, Serialized, LeftBehind, Begin, Goto, Locked
<1>3. ASSUME NEW w \in Writers, AddReceipt(w) PROVE Serialized' /\ LeftBehind'
  BY <1>3 DEF AddReceipt, IInv, TypeOK, Serialized, LeftBehind, Begin, Goto, Locked
<1>4. ASSUME NEW w \in Writers, Acquire(w) PROVE Serialized' /\ LeftBehind'
  BY <1>4 DEF Acquire, IInv, TypeOK, Serialized, LeftBehind, Begin, Goto, Locked
<1>5. ASSUME NEW w \in Writers, Refused(w) PROVE Serialized' /\ LeftBehind'
  BY <1>5 DEF Refused, IInv, TypeOK, Serialized, LeftBehind, Begin, Goto, Locked
<1>6. ASSUME NEW w \in Writers, WriteToken(w) PROVE Serialized' /\ LeftBehind'
  BY <1>6 DEF WriteToken, IInv, TypeOK, Serialized, LeftBehind, Begin, Goto, Locked
<1>7. ASSUME NEW w \in Writers, TokenFails(w) PROVE Serialized' /\ LeftBehind'
  BY <1>7 DEF TokenFails, IInv, TypeOK, Serialized, LeftBehind, Begin, Goto, Locked
<1>8. ASSUME NEW w \in Writers, Release(w) PROVE Serialized' /\ LeftBehind'
  BY <1>8 DEF Release, IInv, TypeOK, Serialized, LeftBehind, Begin, Goto, Locked
<1>21. ASSUME NEW w \in Writers, ReleaseFails(w) PROVE Serialized' /\ LeftBehind'
  BY <1>21 DEF ReleaseFails, IInv, TypeOK, Serialized, LeftBehind, Begin, Goto, Locked
<1>9. ASSUME NEW w \in Writers, CheckCase(w) PROVE Serialized' /\ LeftBehind'
  BY <1>9 DEF CheckCase, IInv, TypeOK, Serialized, LeftBehind, Begin, Goto, Locked
<1>10. ASSUME NEW w \in Writers, LoadPredecessor(w) PROVE Serialized' /\ LeftBehind'
  BY <1>10 DEF LoadPredecessor, IInv, TypeOK, Serialized, LeftBehind, Begin, Goto, Locked
<1>11. ASSUME NEW w \in Writers, Observe(w) PROVE Serialized' /\ LeftBehind'
  BY <1>11 DEF Observe, IInv, TypeOK, Serialized, LeftBehind, Begin, Goto, Locked
<1>12. ASSUME NEW w \in Writers, CheckCandidate(w) PROVE Serialized' /\ LeftBehind'
  BY <1>12 DEF CheckCandidate, IInv, TypeOK, Serialized, LeftBehind, Begin, Goto, Locked
<1>13. ASSUME NEW w \in Writers, CheckReceipt(w) PROVE Serialized' /\ LeftBehind'
  BY <1>13 DEF CheckReceipt, IInv, TypeOK, Serialized, LeftBehind, Begin, Goto, Locked
<1>14. ASSUME NEW w \in Writers, Publish(w) PROVE Serialized' /\ LeftBehind'
  BY <1>14 DEF Publish, IInv, TypeOK, Serialized, LeftBehind, Begin, Goto, Locked
<1>15. ASSUME NEW w \in Writers, OperationFails(w) PROVE Serialized' /\ LeftBehind'
  BY <1>15 DEF OperationFails, IInv, TypeOK, Serialized, LeftBehind, Begin, Goto, Locked
<1>16. ASSUME NEW w \in Writers, Crash(w) PROVE Serialized' /\ LeftBehind'
  BY <1>16 DEF Crash, IInv, TypeOK, Serialized, LeftBehind, Begin, Goto, Locked
<1>17. ASSUME NEW c \in Cases, NEW i \in 1..NFiles, EditWorking(c, i) PROVE Serialized' /\ LeftBehind'
  BY <1>17 DEF EditWorking, IInv, TypeOK, Serialized, LeftBehind, Begin, Goto, Locked
<1>18. ASSUME NEW c \in Cases, EditEvidence(c) PROVE Serialized' /\ LeftBehind'
  BY <1>18 DEF EditEvidence, IInv, TypeOK, Serialized, LeftBehind, Begin, Goto, Locked
<1>19. ASSUME RecoverLock PROVE Serialized' /\ LeftBehind'
  BY <1>19 DEF RecoverLock, IInv, TypeOK, Serialized, LeftBehind, Begin, Goto, Locked
<1>20. CASE UNCHANGED vars
  BY <1>20 DEF vars, store, disk, IInv, TypeOK, Serialized, LeftBehind, Begin, Goto, Locked
<1> QED
  BY <1>1, <1>2, <1>3, <1>4, <1>5, <1>6, <1>7, <1>8, <1>9, <1>10, <1>11,
     <1>12, <1>13, <1>14, <1>15, <1>16, <1>17, <1>18, <1>19, <1>20, <1>21 DEF
     Next, Call, Step, Fail

(* Every step keeps the types. *)
LEMMA TypeStep ==
  ASSUME IInv, [Next]_vars
  PROVE  TypeOK'
<1>1. ASSUME NEW w \in Writers, CreateCase(w) PROVE TypeOK'
  <2>1. PICK c \in Cases, k \in Cores : Begin(w, [kind |-> "case", case |-> c, core |-> k])
    BY <1>1 DEF CreateCase
  <2>2. [kind |-> "case", case |-> c, core |-> k] \in Ops
    BY DEF Ops, CreateOps
  <2> QED BY <2>1, <2>2, MaxCallsAssumption DEF Begin, IInv, TypeOK, Goto, store, disk
<1>2. ASSUME NEW w \in Writers, AddCandidate(w) PROVE TypeOK'
  <2>1. PICK c \in Cases, p \in {NoRecord} \union FirstCandidates :
          Begin(w, [kind |-> "candidate", case |-> c, predecessor |-> p, read |-> << >>])
    BY <1>2 DEF AddCandidate
  <2>2. p \in FirstCandidates \union {NoRecord}
    OBVIOUS
  <2>3. << >> \in Seq(Versions)
    OBVIOUS
  <2>4. [kind |-> "candidate", case |-> c, predecessor |-> p, read |-> << >>] \in Ops
    BY <2>2, <2>3 DEF Ops, CandidateOps
  <2> QED BY <2>1, <2>4, MaxCallsAssumption DEF Begin, IInv, TypeOK, Goto, store, disk
<1>3. ASSUME NEW w \in Writers, AddReceipt(w) PROVE TypeOK'
  <2>0. PICK c \in Cases :
          \E x \in {y \in candidates : y.case = c}
                  \union {[case |-> c, payload |-> working[c], predecessor |-> NoRecord]} :
            Begin(w, [kind |-> "receipt",
                      receipt |-> [case |-> c, candidate |-> x, evidence |-> evidence[c]]])
    BY <1>3 DEF AddReceipt
  <2>1. PICK x \in {y \in candidates : y.case = c}
                  \union {[case |-> c, payload |-> working[c], predecessor |-> NoRecord]} :
          Begin(w, [kind |-> "receipt",
                    receipt |-> [case |-> c, candidate |-> x, evidence |-> evidence[c]]])
    BY <2>0
  <2>2. x \in Candidates
    BY DEF IInv, TypeOK, Candidates, FirstCandidates
  <2>3. [kind |-> "receipt",
         receipt |-> [case |-> c, candidate |-> x, evidence |-> evidence[c]]] \in Ops
    BY <2>2 DEF Ops, ReceiptOps, Receipts, IInv, TypeOK
  <2> QED BY <2>1, <2>3, MaxCallsAssumption DEF Begin, IInv, TypeOK, Goto, store, disk
<1>4. ASSUME NEW w \in Writers, Acquire(w) PROVE TypeOK'
  BY <1>4 DEF Acquire, IInv, TypeOK, Goto, store, disk
<1>5. ASSUME NEW w \in Writers, Refused(w) PROVE TypeOK'
  BY <1>5 DEF Refused, IInv, TypeOK, Ops, Goto, Locked, store, disk
<1>6. ASSUME NEW w \in Writers, WriteToken(w) PROVE TypeOK'
  BY <1>6 DEF WriteToken, IInv, TypeOK, Goto, store, disk
<1>7. ASSUME NEW w \in Writers, TokenFails(w) PROVE TypeOK'
  BY <1>7 DEF TokenFails, IInv, TypeOK, Ops, Goto, Locked, store, disk
<1>8. ASSUME NEW w \in Writers, Release(w) PROVE TypeOK'
  BY <1>8 DEF Release, IInv, TypeOK, Ops, Goto, store, disk
<1>21. ASSUME NEW w \in Writers, ReleaseFails(w) PROVE TypeOK'
  BY <1>21 DEF ReleaseFails, IInv, TypeOK, Ops, Goto, Locked, store, disk
<1>9. ASSUME NEW w \in Writers, CheckCase(w) PROVE TypeOK'
  BY <1>9 DEF CheckCase, IInv, TypeOK, Goto, store, disk
<1>10. ASSUME NEW w \in Writers, LoadPredecessor(w) PROVE TypeOK'
  BY <1>10 DEF LoadPredecessor, IInv, TypeOK, Goto, store, disk
<1>11. ASSUME NEW w \in Writers, Observe(w) PROVE TypeOK'
  <2>1. op[w] \in CandidateOps
    BY <1>11, OpKinds DEF Observe, IInv, TypeOK
  <2>2. working[op[w].case] \in Payloads /\ op[w].read \in Seq(Versions)
    BY <2>1 DEF IInv, TypeOK, CandidateOps
  <2>3. 1 + (Len(op[w].read) % NFiles) \in 1..NFiles
    <3>1. Len(op[w].read) \in Nat
      BY <2>2, LenProperties
    <3> QED BY <3>1, NFilesAssumption, ModRange
  <2>4. working[op[w].case][1 + (Len(op[w].read) % NFiles)] \in Versions
    BY <2>2, <2>3 DEF Payloads
  <2>5. Append(op[w].read, working[op[w].case][1 + (Len(op[w].read) % NFiles)]) \in Seq(Versions)
    BY <2>2, <2>4
  <2>6. op'[w] \in CandidateOps /\ op'[w].kind = "candidate" /\ op' = [op EXCEPT ![w] = op'[w]]
    BY <1>11, <2>1, <2>5 DEF Observe, CandidateOps, IInv, TypeOK
  <2> QED BY <1>11, <2>6 DEF Observe, IInv, TypeOK, Ops, store, disk
<1>12. ASSUME NEW w \in Writers, CheckCandidate(w) PROVE TypeOK'
  BY <1>12 DEF CheckCandidate, IInv, TypeOK, Goto, store, disk
<1>13. ASSUME NEW w \in Writers, CheckReceipt(w) PROVE TypeOK'
  BY <1>13 DEF CheckReceipt, IInv, TypeOK, Goto, store, disk
<1>14. ASSUME NEW w \in Writers, Publish(w) PROVE TypeOK'
  <2>1. CASE op[w].kind = "case"
    <3>1. [core |-> op[w].core, created |-> w] \in CaseRecords
      BY <2>1, OpKinds DEF IInv, TypeOK, CreateOps, CaseRecords
    <3> QED BY <1>14, <2>1, <3>1 DEF Publish, Goto, IInv, TypeOK, disk
  <2>2. CASE op[w].kind = "candidate"
    <3>1. Captured(op[w]) \in Candidates
      BY <1>14, <2>2, OpKinds, CapturedIsCandidate DEF Publish, IInv, TypeOK, Pending
    <3> QED BY <1>14, <2>2, <3>1 DEF Publish, Goto, IInv, TypeOK, disk
  <2>3. CASE op[w].kind = "receipt"
    <3>1. op[w].receipt \in Receipts
      BY <2>3, OpKinds DEF IInv, TypeOK, ReceiptOps
    <3> QED BY <1>14, <2>3, <3>1 DEF Publish, Goto, IInv, TypeOK, disk
  <2>4. op[w].kind \in {"case", "candidate", "receipt"}
    BY <1>14, OpKinds DEF Publish, Pending, IInv, TypeOK
  <2> QED BY <2>1, <2>2, <2>3, <2>4
<1>15. ASSUME NEW w \in Writers, OperationFails(w) PROVE TypeOK'
  BY <1>15 DEF OperationFails, IInv, TypeOK, Goto, store, disk
<1>16. ASSUME NEW w \in Writers, Crash(w) PROVE TypeOK'
  BY <1>16 DEF Crash, IInv, TypeOK, Ops, Goto, Locked, store, disk
<1>17. ASSUME NEW c \in Cases, NEW i \in 1..NFiles, EditWorking(c, i) PROVE TypeOK'
  <2>1. working[c][i] + 1 \in Versions
    <3>1. working[c] \in [1..NFiles -> 0..MaxVersion]
      BY DEF IInv, TypeOK, Payloads, Versions
    <3>2. working[c][i] \in 0..MaxVersion
      BY <3>1
    <3> QED BY <1>17, <3>2, MaxVersionAssumption DEF EditWorking, Versions
  <2>2. working' \in [Cases -> Payloads]
    BY <1>17, <2>1 DEF EditWorking, IInv, TypeOK, Payloads
  <2> QED BY <1>17, <2>2 DEF EditWorking, IInv, TypeOK, store
<1>18. ASSUME NEW c \in Cases, EditEvidence(c) PROVE TypeOK'
  BY <1>18, MaxVersionAssumption DEF EditEvidence, IInv, TypeOK, Versions, store
<1>19. ASSUME RecoverLock PROVE TypeOK'
  BY <1>19 DEF RecoverLock, IInv, TypeOK, Goto, store, disk
<1>20. CASE UNCHANGED vars
  BY <1>20 DEF vars, store, disk, IInv, TypeOK, Goto, store, disk
<1> QED
  BY <1>1, <1>2, <1>3, <1>4, <1>5, <1>6, <1>7, <1>8, <1>9, <1>10, <1>11,
     <1>12, <1>13, <1>14, <1>15, <1>16, <1>17, <1>18, <1>19, <1>20, <1>21 DEF
     Next, Call, Step, Fail

(* What a process checked inside the lock is still so when it writes.      *)
LEMMA PendingStep ==
  ASSUME IInv, [Next]_vars
  PROVE  \A v \in Writers : Pending(v)'
<1>1. ASSUME NEW w \in Writers, CreateCase(w) PROVE \A v \in Writers : Pending(v)'
  <2>1. PICK c \in Cases, k \in Cores : Begin(w, [kind |-> "case", case |-> c, core |-> k])
    BY <1>1 DEF CreateCase
  <2> QED BY <2>1 DEF Begin, IInv, TypeOK, Pending, PredecessorKnown, Goto, store, disk
<1>2. ASSUME NEW w \in Writers, AddCandidate(w) PROVE \A v \in Writers : Pending(v)'
  <2>1. PICK c \in Cases, p \in {NoRecord} \union FirstCandidates :
          /\ cases[c] # NoRecord
          /\ Begin(w, [kind |-> "candidate", case |-> c, predecessor |-> p, read |-> << >>])
    BY <1>2 DEF AddCandidate
  <2> QED BY <2>1 DEF Begin, IInv, TypeOK, Pending, PredecessorKnown, Goto, store, disk
<1>3. ASSUME NEW w \in Writers, AddReceipt(w) PROVE \A v \in Writers : Pending(v)'
  <2>0. PICK c \in Cases :
          \E x \in {y \in candidates : y.case = c}
                  \union {[case |-> c, payload |-> working[c], predecessor |-> NoRecord]} :
            Begin(w, [kind |-> "receipt",
                      receipt |-> [case |-> c, candidate |-> x, evidence |-> evidence[c]]])
    BY <1>3 DEF AddReceipt
  <2>1. PICK x \in {y \in candidates : y.case = c}
                  \union {[case |-> c, payload |-> working[c], predecessor |-> NoRecord]} :
          Begin(w, [kind |-> "receipt",
                    receipt |-> [case |-> c, candidate |-> x, evidence |-> evidence[c]]])
    BY <2>0
  <2>2. x.case = c
    OBVIOUS
  <2> QED BY <2>1, <2>2 DEF Begin, IInv, TypeOK, Pending, PredecessorKnown, Goto, store, disk
<1>4. ASSUME NEW w \in Writers, Acquire(w) PROVE \A v \in Writers : Pending(v)'
  BY <1>4 DEF Acquire, IInv, TypeOK, Pending, PredecessorKnown, Serialized, Goto, store, disk
<1>5. ASSUME NEW w \in Writers, Refused(w) PROVE \A v \in Writers : Pending(v)'
  BY <1>5 DEF Refused, NoOp, IInv, TypeOK, Pending, PredecessorKnown, Serialized, Goto, store, disk
<1>6. ASSUME NEW w \in Writers, WriteToken(w) PROVE \A v \in Writers : Pending(v)'
  BY <1>6 DEF WriteToken, IInv, TypeOK, Pending, PredecessorKnown, Serialized, Goto, store, disk
<1>7. ASSUME NEW w \in Writers, TokenFails(w) PROVE \A v \in Writers : Pending(v)'
  BY <1>7 DEF TokenFails, NoOp, IInv, TypeOK, Pending, PredecessorKnown, Serialized, Goto, store, disk
<1>8. ASSUME NEW w \in Writers, Release(w) PROVE \A v \in Writers : Pending(v)'
  BY <1>8 DEF Release, NoOp, IInv, TypeOK, Pending, PredecessorKnown, Serialized, Goto, store, disk
<1>21. ASSUME NEW w \in Writers, ReleaseFails(w) PROVE \A v \in Writers : Pending(v)'
  BY <1>21 DEF ReleaseFails, NoOp, IInv, TypeOK, Pending, PredecessorKnown, Serialized, Goto, store, disk
<1>9. ASSUME NEW w \in Writers, CheckCase(w) PROVE \A v \in Writers : Pending(v)'
  BY <1>9 DEF CheckCase, IInv, TypeOK, Pending, PredecessorKnown, Serialized, Goto, store, disk
<1>10. ASSUME NEW w \in Writers, LoadPredecessor(w) PROVE \A v \in Writers : Pending(v)'
  BY <1>10 DEF LoadPredecessor, IInv, TypeOK, Pending, PredecessorKnown, Serialized, Goto, store, disk
<1>11. ASSUME NEW w \in Writers, Observe(w) PROVE \A v \in Writers : Pending(v)'
  <2>1. op[w] \in CandidateOps
    BY <1>11, OpKinds DEF Observe, IInv, TypeOK
  <2>2. /\ op'[w].kind = "candidate" /\ op'[w].case = op[w].case
        /\ op'[w].predecessor = op[w].predecessor
    BY <1>11, <2>1 DEF Observe, CandidateOps, IInv, TypeOK
  <2>3. \A v \in Writers \ {w} : op'[v] = op[v]
    BY <1>11 DEF Observe, IInv, TypeOK
  <2>4. UNCHANGED <<pc, cases, candidates>> /\ pc[w] = "capture" /\ op[w].kind = "candidate"
    BY <1>11, <2>1 DEF Observe, store, CandidateOps
  <2> QED BY <2>2, <2>3, <2>4 DEF IInv, Pending, PredecessorKnown
<1>12. ASSUME NEW w \in Writers, CheckCandidate(w) PROVE \A v \in Writers : Pending(v)'
  BY <1>12 DEF CheckCandidate, IInv, TypeOK, Pending, PredecessorKnown, Serialized, Goto, store, disk
<1>13. ASSUME NEW w \in Writers, CheckReceipt(w) PROVE \A v \in Writers : Pending(v)'
  BY <1>13 DEF CheckReceipt, Current, IInv, TypeOK, Pending, PredecessorKnown, Serialized, Goto, store, disk
<1>14. ASSUME NEW w \in Writers, Publish(w) PROVE \A v \in Writers : Pending(v)'
  <2> SUFFICES ASSUME NEW v \in Writers PROVE Pending(v)'
    OBVIOUS
  <2>1. CASE v = w
    <3>1. pc[v] = "publish" /\ pc'[v] = "release" /\ UNCHANGED op
      BY <1>14, <2>1 DEF Publish, Goto, IInv, TypeOK
    <3>2. op[v].kind = "candidate" => cases'[op[v].case] # NoRecord
      BY <1>14, <2>1, OpKinds, NoRecordAssumption
      DEF Publish, IInv, TypeOK, Pending, CandidateOps, CaseRecords
    <3> QED BY <3>1, <3>2 DEF Pending, IInv
  <2>2. CASE v # w
    <3>1. pc'[v] = pc[v] /\ UNCHANGED op
      BY <1>14, <2>2 DEF Publish, Goto, IInv, TypeOK
    <3>2. pc[v] \notin {"capture", "publish"}
      BY <1>14, <2>2 DEF Publish, IInv, Serialized
    <3>3. op[v].kind = "candidate" => cases'[op[v].case] # NoRecord
      <4>1. CASE op[w].kind = "case"
        <5>1. op[w].core \in Cores /\ op[w].case \in Cases
          BY <4>1, OpKinds DEF IInv, TypeOK, CreateOps
        <5>2. [core |-> op[w].core, created |-> w] # NoRecord
          BY <5>1, NoRecordAssumption DEF CaseRecords
        <5>3. op[v].kind = "candidate" => op[v].case \in Cases
          BY OpKinds DEF IInv, TypeOK, CandidateOps
        <5> QED BY <1>14, <4>1, <5>1, <5>2, <5>3 DEF Publish, IInv, TypeOK, Pending
      <4>2. CASE op[w].kind # "case"
        <5>1. op[w].kind \in {"candidate", "receipt"}
          BY <1>14, <4>2, OpKinds DEF Publish, Pending, IInv, TypeOK
        <5> QED BY <1>14, <5>1 DEF Publish, IInv, TypeOK, Pending
      <4> QED BY <4>1, <4>2
    <3> QED BY <3>1, <3>2, <3>3 DEF Pending, IInv
  <2> QED BY <2>1, <2>2
<1>15. ASSUME NEW w \in Writers, OperationFails(w) PROVE \A v \in Writers : Pending(v)'
  BY <1>15 DEF OperationFails, IInv, TypeOK, Pending, PredecessorKnown, Serialized, Goto, store, disk
<1>16. ASSUME NEW w \in Writers, Crash(w) PROVE \A v \in Writers : Pending(v)'
  BY <1>16 DEF Crash, NoOp, IInv, TypeOK, Pending, PredecessorKnown, Serialized, Goto, store, disk
<1>17. ASSUME NEW c \in Cases, NEW i \in 1..NFiles, EditWorking(c, i) PROVE \A v \in Writers : Pending(v)'
  BY <1>17 DEF EditWorking, IInv, TypeOK, Pending, PredecessorKnown, Serialized, Goto, store, disk
<1>18. ASSUME NEW c \in Cases, EditEvidence(c) PROVE \A v \in Writers : Pending(v)'
  BY <1>18 DEF EditEvidence, IInv, TypeOK, Pending, PredecessorKnown, Serialized, Goto, store, disk
<1>19. ASSUME RecoverLock PROVE \A v \in Writers : Pending(v)'
  BY <1>19 DEF RecoverLock, IInv, TypeOK, Pending, PredecessorKnown, Serialized, Goto, store, disk
<1>20. CASE UNCHANGED vars
  BY <1>20 DEF vars, store, disk, IInv, TypeOK, Pending, PredecessorKnown, Serialized, Goto, store, disk
<1> QED
  BY <1>1, <1>2, <1>3, <1>4, <1>5, <1>6, <1>7, <1>8, <1>9, <1>10, <1>11,
     <1>12, <1>13, <1>14, <1>15, <1>16, <1>17, <1>18, <1>19, <1>20, <1>21 DEF
     Next, Call, Step, Fail

(* Publication adds only records whose references are already stored.      *)
LEMMA ResolvableStep ==
  ASSUME IInv, [Next]_vars
  PROVE  Resolvable'
<1>1. ASSUME NEW w \in Writers, CreateCase(w) PROVE Resolvable'
  BY <1>1 DEF CreateCase, Begin, IInv, Resolvable, PredecessorKnown, store
<1>2. ASSUME NEW w \in Writers, AddCandidate(w) PROVE Resolvable'
  BY <1>2 DEF AddCandidate, Begin, IInv, Resolvable, PredecessorKnown, store
<1>3. ASSUME NEW w \in Writers, AddReceipt(w) PROVE Resolvable'
  BY <1>3 DEF AddReceipt, Begin, IInv, Resolvable, PredecessorKnown, store
<1>4. ASSUME NEW w \in Writers, Acquire(w) PROVE Resolvable'
  BY <1>4 DEF Acquire, IInv, Resolvable, PredecessorKnown, store
<1>5. ASSUME NEW w \in Writers, Refused(w) PROVE Resolvable'
  BY <1>5 DEF Refused, IInv, Resolvable, PredecessorKnown, store
<1>6. ASSUME NEW w \in Writers, WriteToken(w) PROVE Resolvable'
  BY <1>6 DEF WriteToken, IInv, Resolvable, PredecessorKnown, store
<1>7. ASSUME NEW w \in Writers, TokenFails(w) PROVE Resolvable'
  BY <1>7 DEF TokenFails, IInv, Resolvable, PredecessorKnown, store
<1>8. ASSUME NEW w \in Writers, Release(w) PROVE Resolvable'
  BY <1>8 DEF Release, IInv, Resolvable, PredecessorKnown, store
<1>21. ASSUME NEW w \in Writers, ReleaseFails(w) PROVE Resolvable'
  BY <1>21 DEF ReleaseFails, IInv, Resolvable, PredecessorKnown, store
<1>9. ASSUME NEW w \in Writers, CheckCase(w) PROVE Resolvable'
  BY <1>9 DEF CheckCase, IInv, Resolvable, PredecessorKnown, store
<1>10. ASSUME NEW w \in Writers, LoadPredecessor(w) PROVE Resolvable'
  BY <1>10 DEF LoadPredecessor, IInv, Resolvable, PredecessorKnown, store
<1>11. ASSUME NEW w \in Writers, Observe(w) PROVE Resolvable'
  BY <1>11 DEF Observe, IInv, Resolvable, PredecessorKnown, store
<1>12. ASSUME NEW w \in Writers, CheckCandidate(w) PROVE Resolvable'
  BY <1>12 DEF CheckCandidate, IInv, Resolvable, PredecessorKnown, store
<1>13. ASSUME NEW w \in Writers, CheckReceipt(w) PROVE Resolvable'
  BY <1>13 DEF CheckReceipt, IInv, Resolvable, PredecessorKnown, store
<1>14. ASSUME NEW w \in Writers, Publish(w) PROVE Resolvable'
  <2>1. CASE op[w].kind = "case"
    <3>1. \A c \in Cases : cases[c] # NoRecord => cases'[c] # NoRecord
      BY <1>14, <2>1 DEF Publish, IInv, TypeOK, Pending
    <3>2. \A x \in candidates : x.case \in Cases
      BY DEF IInv, TypeOK, Candidates, FirstCandidates
    <3> QED BY <1>14, <2>1, <3>1, <3>2 DEF Publish, IInv, Resolvable, PredecessorKnown
  <2>2. CASE op[w].kind = "candidate"
    <3>1. /\ Captured(op[w]).case = op[w].case
          /\ Captured(op[w]).predecessor = op[w].predecessor
      BY DEF Captured
    <3> QED BY <1>14, <2>2, <3>1 DEF Publish, IInv, Resolvable, PredecessorKnown, Pending
  <2>3. CASE op[w].kind = "receipt"
    BY <1>14, <2>3 DEF Publish, IInv, Resolvable, PredecessorKnown, Pending
  <2>4. op[w].kind \in {"case", "candidate", "receipt"}
    BY <1>14, OpKinds DEF Publish, Pending, IInv, TypeOK
  <2> QED BY <2>1, <2>2, <2>3, <2>4
<1>15. ASSUME NEW w \in Writers, OperationFails(w) PROVE Resolvable'
  BY <1>15 DEF OperationFails, IInv, Resolvable, PredecessorKnown, store
<1>16. ASSUME NEW w \in Writers, Crash(w) PROVE Resolvable'
  BY <1>16 DEF Crash, IInv, Resolvable, PredecessorKnown, store
<1>17. ASSUME NEW c \in Cases, NEW i \in 1..NFiles, EditWorking(c, i) PROVE Resolvable'
  BY <1>17 DEF EditWorking, IInv, Resolvable, PredecessorKnown, store
<1>18. ASSUME NEW c \in Cases, EditEvidence(c) PROVE Resolvable'
  BY <1>18 DEF EditEvidence, IInv, Resolvable, PredecessorKnown, store
<1>19. ASSUME RecoverLock PROVE Resolvable'
  BY <1>19 DEF RecoverLock, IInv, Resolvable, PredecessorKnown, store
<1>20. CASE UNCHANGED vars
  BY <1>20 DEF vars, store, disk, IInv, Resolvable, PredecessorKnown, store
<1> QED
  BY <1>1, <1>2, <1>3, <1>4, <1>5, <1>6, <1>7, <1>8, <1>9, <1>10, <1>11,
     <1>12, <1>13, <1>14, <1>15, <1>16, <1>17, <1>18, <1>19, <1>20, <1>21 DEF
     Next, Call, Step, Fail

THEOREM Invariance == Spec => []IInv
<1>1. IInv /\ [Next]_vars => IInv'
  BY TypeStep, LockStep, PendingStep, ResolvableStep DEF IInv
<1> QED BY InitInv, <1>1, PTL DEF Spec

(* The types of the store, for every instance. *)
THEOREM TypeCorrect == Spec => []TypeOK
BY Invariance, PTL DEF IInv

(* Writes to one store are serialized by the exclusively created lock.     *)
THEOREM SerializedHolds == Spec => []Serialized
BY Invariance, PTL DEF IInv

(* Every reference of a stored record resolves, whatever crashes, refusals *)
(* and lock recoveries happened on the way.                                *)
THEOREM ResolvableHolds == Spec => []Resolvable
BY Invariance, PTL DEF IInv

(* What Publish does to the three kinds of records, when the process that  *)
(* publishes has been alone since its check.                               *)
LEMMA PublishAdds ==
  ASSUME IInv, NEW w \in Writers, Publish(w)
  PROVE  \/ /\ cases[op[w].case] = NoRecord
            /\ op[w].case \in Cases
            /\ cases' = [cases EXCEPT ![op[w].case] = [core |-> op[w].core, created |-> w]]
            /\ UNCHANGED <<candidates, receipts>>
         \/ /\ cases[op[w].case] # NoRecord
            /\ PredecessorKnown(op[w].case, op[w].predecessor)
            /\ candidates' = candidates \union {Captured(op[w])}
            /\ UNCHANGED <<cases, receipts>>
         \/ /\ op[w].receipt.candidate \in candidates
            /\ op[w].receipt.candidate.case = op[w].receipt.case
            /\ receipts' = receipts \union {op[w].receipt}
            /\ UNCHANGED <<cases, candidates>>
<1>1. op[w].kind \in {"case", "candidate", "receipt"}
  BY OpKinds DEF Publish, Pending, IInv, TypeOK
<1>2. CASE op[w].kind = "case"
  BY <1>2, OpKinds DEF Publish, Pending, IInv, TypeOK, CreateOps
<1>3. CASE op[w].kind = "candidate"
  BY <1>3 DEF Publish, Pending, IInv
<1>4. CASE op[w].kind = "receipt"
  BY <1>4 DEF Publish, Pending, IInv
<1> QED BY <1>1, <1>2, <1>3, <1>4

(* Only Publish touches the store. *)
LEMMA OnlyPublishWrites ==
  ASSUME [Next]_vars
  PROVE  UNCHANGED store \/ \E w \in Writers : Publish(w)
BY DEF Next, Call, Step, CreateCase, AddCandidate, AddReceipt, Begin, Acquire,
       Refused, WriteToken, Fail, TokenFails, Release, ReleaseFails, CheckCase,
       LoadPredecessor, Observe, CheckCandidate, CheckReceipt, OperationFails, Crash,
       EditWorking, EditEvidence, RecoverLock, vars, store

(* A stored record is never replaced and never disappears. *)
THEOREM RecordsImmutable == Spec => Immutable
<1> DEFINE Keeps == /\ \A c \in Cases : cases[c] # NoRecord => cases'[c] = cases[c]
                    /\ candidates \subseteq candidates'
                    /\ receipts \subseteq receipts'
<1>1. IInv /\ [Next]_vars => [Keeps]_store
  <2> SUFFICES ASSUME IInv, [Next]_vars PROVE [Keeps]_store
    OBVIOUS
  <2>1. CASE UNCHANGED store
    BY <2>1
  <2>2. ASSUME NEW w \in Writers, Publish(w) PROVE Keeps
    BY <2>2, PublishAdds DEF IInv, TypeOK
  <2> QED BY <2>1, <2>2, OnlyPublishWrites
<1> QED BY <1>1, Invariance, PTL DEF Spec, Immutable

(* CaseStore implements AppendOnlyRecords: behind the lock, the captures   *)
(* and the crashes, readers see records appear one at a time.              *)
THEOREM Refinement == Spec => Implements
<1>1. Init => Abstract!Init
  BY DEF Init, Abstract!Init
<1>2. IInv /\ [Next]_vars => [Abstract!Next]_store
  <2> SUFFICES ASSUME IInv, [Next]_vars PROVE [Abstract!Next]_store
    OBVIOUS
  <2>1. ASSUME NEW w \in Writers, Publish(w) PROVE Abstract!Next
    <3>1. CASE /\ cases[op[w].case] = NoRecord
               /\ op[w].case \in Cases
               /\ cases' = [cases EXCEPT ![op[w].case] = [core |-> op[w].core, created |-> w]]
               /\ UNCHANGED <<candidates, receipts>>
      <4>1. cases' = [cases EXCEPT ![op[w].case] = cases'[op[w].case]]
        BY <3>1 DEF IInv, TypeOK
      <4> QED BY <3>1, <4>1 DEF Abstract!Next, Abstract!BindCase
    <3>2. CASE /\ cases[op[w].case] # NoRecord
               /\ PredecessorKnown(op[w].case, op[w].predecessor)
               /\ candidates' = candidates \union {Captured(op[w])}
               /\ UNCHANGED <<cases, receipts>>
      <4> DEFINE x == Captured(op[w])
      <4>1. x.case = op[w].case /\ x.predecessor = op[w].predecessor
        BY DEF Captured
      <4> HIDE DEF x
      <4>2. x \in candidates'
        BY <3>2 DEF x
      <4>3. Abstract!AddCandidate(x)
        BY <3>2, <4>1 DEF Abstract!AddCandidate, PredecessorKnown, x
      <4> QED BY <4>2, <4>3 DEF Abstract!Next
    <3>3. CASE /\ op[w].receipt.candidate \in candidates
               /\ op[w].receipt.candidate.case = op[w].receipt.case
               /\ receipts' = receipts \union {op[w].receipt}
               /\ UNCHANGED <<cases, candidates>>
      BY <3>3 DEF Abstract!Next, Abstract!AddReceipt
    <3> QED BY <2>1, <3>1, <3>2, <3>3, PublishAdds
  <2> QED BY <2>1, OnlyPublishWrites
<1> QED BY <1>1, <1>2, Invariance, PTL DEF Spec, Implements, Abstract!Spec, Abstract!records, store
-----------------------------------------------------------------------------
(* A capture reads every file twice.  Versions only grow, so a state of    *)
(* the workspace, the one at the end of the first pass, lies between the   *)
(* two: two passes that agree both are that state.                         *)

(* What was read so far of a workspace that is W and has been in S.        *)
Passed(read, W, S) ==
  /\ \A i \in 1..NFiles : i <= Len(read) => read[i] <= W[i]
  /\ Len(read) >= NFiles =>
       \E s \in S : \A i \in 1..NFiles :
         /\ read[i] <= s[i] /\ s[i] <= W[i]
         /\ NFiles + i <= Len(read) => s[i] <= read[NFiles + i]

Reads ==
  /\ \A c \in Cases : working[c] \in seen[c]
  /\ \A w \in Writers : op[w].kind = "candidate" =>
       /\ Passed(op[w].read, working[op[w].case], seen[op[w].case])
       /\ pc[w] = "publish" => Captured(op[w]).payload \in seen[op[w].case]
  /\ CapturedWhole

(* The files are read in their order, twice.                               *)
LEMMA NextFile ==
  ASSUME NEW n \in Nat, NEW b \in Nat \ {0}, n < 2 * b
  PROVE  n % b = IF n < b THEN n ELSE n - b
<1>1. CASE n < b
  BY <1>1
<1>2. CASE n >= b
  BY <1>2
<1>. QED
  BY <1>1, <1>2

(* The states of a workspace are numbers at every file.                    *)
LEMMA PayloadVersions ==
  \A s \in Payloads : \A i \in 1..NFiles : s[i] \in Nat
BY MaxVersionAssumption DEF Payloads, Versions

(* One more file is read.                                                  *)
LEMMA PassedObserve ==
  ASSUME NEW read \in Seq(Versions), NEW S \in SUBSET Payloads, NEW W \in S,
         Len(read) < 2 * NFiles, Passed(read, W, S)
  PROVE  Passed(Append(read, W[1 + (Len(read) % NFiles)]), W, S)
<1> DEFINE n == Len(read)
           f == 1 + (n % NFiles)
           more == Append(read, W[f])
<1>1. n \in Nat /\ NFiles \in Nat \ {0} /\ n < 2 * NFiles
  BY NFilesAssumption
<1>2. f = IF n < NFiles THEN n + 1 ELSE n + 1 - NFiles
  <2> HIDE DEF n
  <2>1. n % NFiles = IF n < NFiles THEN n ELSE n - NFiles
    BY <1>1, NextFile
  <2>. QED
    BY <1>1, <2>1
<1>3. f \in 1..NFiles
  BY <1>1, <1>2
<1>4. \A i \in 1..NFiles : W[i] \in Nat
  BY PayloadVersions
<1>5. W[f] \in Versions
  BY <1>3 DEF Payloads
<1>6. Len(more) = n + 1 /\ more[n + 1] = W[f] /\ \A i \in 1..n : more[i] = read[i]
  BY <1>5
<1>7. n = Len(read)
  OBVIOUS
<1> HIDE DEF n, f, more
<1>8. \A i \in 1..NFiles : i <= n + 1 => more[i] <= W[i]
  <2> SUFFICES ASSUME NEW i \in 1..NFiles, i <= n + 1 PROVE more[i] <= W[i]
    OBVIOUS
  <2>1. CASE i = n + 1
    <3>1. f = i /\ W[i] <= W[i]
      BY <1>1, <1>2, <1>4, <2>1
    <3>. QED
      BY <1>6, <2>1, <3>1
  <2>2. CASE i <= n
    <3>1. i \in 1..n /\ read[i] <= W[i]
      BY <1>1, <1>7, <2>2 DEF Passed
    <3>. QED
      BY <1>6, <3>1
  <2>. QED
    BY <1>1, <2>1, <2>2
<1>9. ASSUME n + 1 >= NFiles
      PROVE  \E s \in S : \A i \in 1..NFiles :
               /\ more[i] <= s[i] /\ s[i] <= W[i]
               /\ NFiles + i <= n + 1 => s[i] <= more[NFiles + i]
  <2>1. CASE n < NFiles
    <3>1. \A i \in 1..NFiles : i <= n + 1 /\ ~(NFiles + i <= n + 1)
      BY <1>1, <1>9, <2>1
    <3>2. \A i \in 1..NFiles : W[i] <= W[i]
      BY <1>4
    <3>3. W \in S /\ \A i \in 1..NFiles :
            /\ more[i] <= W[i] /\ W[i] <= W[i]
            /\ NFiles + i <= n + 1 => W[i] <= more[NFiles + i]
      BY <1>8, <3>1, <3>2
    <3>. QED
      BY <3>3
  <2>2. CASE n >= NFiles
    <3>1. PICK s \in S : \A i \in 1..NFiles :
            /\ read[i] <= s[i] /\ s[i] <= W[i]
            /\ NFiles + i <= n => s[i] <= read[NFiles + i]
      BY <1>7, <2>2 DEF Passed
    <3>2. SUFFICES ASSUME NEW i \in 1..NFiles
                   PROVE  /\ more[i] <= s[i] /\ s[i] <= W[i]
                          /\ NFiles + i <= n + 1 => s[i] <= more[NFiles + i]
      OBVIOUS
    <3>3. more[i] = read[i]
      BY <1>1, <1>6, <2>2
    <3>4. CASE NFiles + i <= n
      <4>1. NFiles + i \in 1..n
        BY <1>1, <3>4
      <4>. QED
        BY <1>6, <3>1, <3>3, <3>4, <4>1
    <3>5. CASE NFiles + i = n + 1
      <4>1. f = i
        BY <1>1, <1>2, <2>2, <3>5
      <4>. QED
        BY <1>6, <3>1, <3>3, <3>5, <4>1
    <3>6. CASE NFiles + i > n + 1
      <4>1. ~(NFiles + i <= n + 1)
        BY <1>1, <3>6
      <4>. QED
        BY <3>1, <3>3, <4>1
    <3>. QED
      BY <1>1, <3>4, <3>5, <3>6
  <2>. QED
    BY <1>1, <2>1, <2>2
<1>10. Passed(more, W, S)
  BY <1>6, <1>8, <1>9 DEF Passed
<1>. QED
  BY <1>10 DEF more, f, n

(* The workspace is edited: its files grow, and so does what was seen.     *)
LEMMA PassedEdit ==
  ASSUME NEW read \in Seq(Versions), NEW S \in SUBSET Payloads, NEW S2, S \subseteq S2,
         NEW W \in Payloads, NEW W2 \in Payloads, \A i \in 1..NFiles : W[i] <= W2[i],
         Passed(read, W, S)
  PROVE  Passed(read, W2, S2)
<1>1. \A i \in 1..NFiles : W[i] \in Nat /\ W2[i] \in Nat
  BY PayloadVersions
<1>2. \A i \in 1..NFiles : i <= Len(read) => read[i] \in Nat
  <2>1. NFiles \in Nat
    BY NFilesAssumption
  <2>. QED
    BY <2>1, MaxVersionAssumption DEF Versions
<1>3. \A i \in 1..NFiles : i <= Len(read) => read[i] <= W2[i]
  BY <1>1, <1>2 DEF Passed
<1>4. ASSUME Len(read) >= NFiles
      PROVE  \E s \in S2 : \A i \in 1..NFiles :
               /\ read[i] <= s[i] /\ s[i] <= W2[i]
               /\ NFiles + i <= Len(read) => s[i] <= read[NFiles + i]
  <2>1. PICK s \in S : \A i \in 1..NFiles :
          /\ read[i] <= s[i] /\ s[i] <= W[i]
          /\ NFiles + i <= Len(read) => s[i] <= read[NFiles + i]
    BY <1>4 DEF Passed
  <2>2. s \in S2 /\ \A i \in 1..NFiles : s[i] \in Nat
    BY PayloadVersions
  <2>3. \A i \in 1..NFiles : s[i] <= W2[i]
    BY <1>1, <2>1, <2>2
  <2>. QED
    BY <2>1, <2>2, <2>3
<1>. QED
  BY <1>3, <1>4 DEF Passed

(* Two passes that agree are a state the workspace was in.                 *)
LEMMA PassedWhole ==
  ASSUME NEW read \in Seq(Versions), NEW S \in SUBSET Payloads, NEW W \in Payloads,
         Len(read) = 2 * NFiles, Agrees(read), Passed(read, W, S)
  PROVE  [i \in 1..NFiles |-> read[i]] \in S
<1>0. NFiles \in Nat \ {0}
  BY NFilesAssumption
<1>1. PICK s \in S : \A i \in 1..NFiles :
        /\ read[i] <= s[i] /\ s[i] <= W[i]
        /\ NFiles + i <= Len(read) => s[i] <= read[NFiles + i]
  BY <1>0 DEF Passed
<1>2. ASSUME NEW i \in 1..NFiles PROVE read[i] = s[i]
  <2>1. i \in 1..Len(read) /\ NFiles + i <= Len(read)
    BY <1>0
  <2>2. read[i] \in Nat /\ s[i] \in Nat
    BY <2>1, PayloadVersions, MaxVersionAssumption DEF Versions
  <2>3. read[i] <= s[i] /\ s[i] <= read[NFiles + i] /\ read[i] = read[NFiles + i]
    BY <1>1, <2>1 DEF Agrees
  <2>. QED
    BY <2>2, <2>3
<1>3. s = [i \in 1..NFiles |-> s[i]]
  BY DEF Payloads
<1>. QED
  BY <1>2, <1>3

(* A step that begins no capture, reads nothing and publishes nothing      *)
(* keeps what is known of the reads.                                       *)
LEMMA OtherStep ==
  ASSUME IInv, Reads, UNCHANGED <<working, seen, candidates>>,
         \A w \in Writers : \/ op'[w].kind # "candidate"
                            \/ op'[w] = op[w] /\ (pc'[w] = "publish" => pc[w] = "publish")
  PROVE  Reads'
<1>1. \A w \in Writers : op'[w].kind = "candidate" =>
        /\ Passed(op'[w].read, working'[op'[w].case], seen'[op'[w].case])
        /\ pc'[w] = "publish" => Captured(op'[w]).payload \in seen'[op'[w].case]
  BY DEF Reads
<1>. QED
  BY <1>1 DEF Reads, CapturedWhole, Passed, Captured

(* A process that captures runs the capture of a candidate.                *)
LEMMA CandidateOp ==
  ASSUME IInv, NEW w \in Writers, op[w].kind = "candidate"
  PROVE  /\ op[w] \in CandidateOps
         /\ op[w].case \in Cases
         /\ op[w].read \in Seq(Versions)
         /\ op[w] = [kind |-> "candidate", case |-> op[w].case,
                     predecessor |-> op[w].predecessor, read |-> op[w].read]
<1>1. op[w] \in CandidateOps
  BY OpKinds DEF IInv, TypeOK
<1>. QED
  BY <1>1 DEF CandidateOps

(* A file is read.                                                         *)
LEMMA ReadsObserve ==
  ASSUME IInv, Reads, NEW w \in Writers, Observe(w)
  PROVE  Reads'
<1> DEFINE c == op[w].case
           more == Append(op[w].read, working[c][1 + (Len(op[w].read) % NFiles)])
<1>1. op[w].kind = "candidate" /\ op \in [Writers -> Ops]
  BY DEF IInv, TypeOK, Observe
<1>2. c \in Cases /\ op[w].read \in Seq(Versions)
  BY <1>1, CandidateOp
<1>3. working[c] \in seen[c] /\ seen[c] \in SUBSET Payloads
  BY <1>2 DEF Reads, IInv, TypeOK
<1>4. Passed(op[w].read, working[c], seen[c])
  BY <1>1 DEF Reads
<1>5. Passed(more, working[c], seen[c])
  BY <1>2, <1>3, <1>4, PassedObserve DEF Observe
<1>6. op'[w] = [op[w] EXCEPT !.read = more] /\ \A v \in Writers : v # w => op'[v] = op[v]
  BY <1>1 DEF Observe
<1>7. op'[w].read = more /\ op'[w].case = c
  <2> HIDE DEF more
  <2>1. op[w] = [kind |-> "candidate", case |-> op[w].case,
                 predecessor |-> op[w].predecessor, read |-> op[w].read]
    BY <1>1, CandidateOp
  <2>. QED
    BY <1>6, <2>1
<1> HIDE DEF c, more
<1>8. pc[w] = "capture" /\ UNCHANGED <<working, seen, candidates, pc>>
  BY DEF Observe, disk, store
<1>9. ASSUME NEW v \in Writers, op'[v].kind = "candidate"
      PROVE  /\ Passed(op'[v].read, working'[op'[v].case], seen'[op'[v].case])
             /\ pc'[v] = "publish" => Captured(op'[v]).payload \in seen'[op'[v].case]
  <2>1. CASE v = w
    BY <1>5, <1>7, <1>8, <2>1
  <2>2. CASE v # w
    BY <1>6, <1>8, <1>9, <2>2 DEF Reads
  <2>. QED
    BY <2>1, <2>2
<1>. QED
  BY <1>8, <1>9 DEF Reads, CapturedWhole, Passed, Captured

(* The two passes are compared.                                            *)
LEMMA ReadsCheck ==
  ASSUME IInv, Reads, NEW w \in Writers, CheckCandidate(w)
  PROVE  Reads'
<1> DEFINE c == op[w].case
<1>1. op[w].kind = "candidate" /\ pc = [v \in Writers |-> pc[v]]
  BY DEF IInv, TypeOK, CheckCandidate
<1>2. c \in Cases /\ op[w].read \in Seq(Versions)
  BY <1>1, CandidateOp
<1>3. working[c] \in Payloads /\ seen[c] \in SUBSET Payloads
  BY <1>2 DEF IInv, TypeOK
<1>4. Passed(op[w].read, working[c], seen[c])
  BY <1>1 DEF Reads
<1>5. Agrees(op[w].read) => [i \in 1..NFiles |-> op[w].read[i]] \in seen[c]
  BY <1>2, <1>3, <1>4, PassedWhole DEF CheckCandidate
<1>6. Captured(op[w]).payload = [i \in 1..NFiles |-> op[w].read[i]]
  BY DEF Captured
<1>7. UNCHANGED <<working, seen, candidates, op>>
  BY DEF CheckCandidate, disk, store
<1>8. pc'[w] = "publish" => Agrees(op[w].read)
  BY <1>1 DEF CheckCandidate, Goto
<1>9. \A v \in Writers : v # w => pc'[v] = pc[v]
  BY <1>1 DEF CheckCandidate, Goto
<1>10. ASSUME NEW v \in Writers, op'[v].kind = "candidate"
       PROVE  /\ Passed(op'[v].read, working'[op'[v].case], seen'[op'[v].case])
              /\ pc'[v] = "publish" => Captured(op'[v]).payload \in seen'[op'[v].case]
  <2>1. CASE v = w
    BY <1>4, <1>5, <1>6, <1>7, <1>8, <2>1
  <2>2. CASE v # w
    BY <1>7, <1>9, <1>10, <2>2 DEF Reads
  <2>. QED
    BY <2>1, <2>2
<1>. QED
  BY <1>7, <1>10 DEF Reads, CapturedWhole, Passed, Captured

(* A file of a workspace is edited while captures read it.                 *)
LEMMA ReadsEdit ==
  ASSUME IInv, Reads, NEW c \in Cases, NEW i \in 1..NFiles, EditWorking(c, i)
  PROVE  Reads'
<1>1. UNCHANGED <<candidates, op, pc>>
  BY DEF EditWorking, store
<1>2. working \in [Cases -> Payloads] /\ seen \in [Cases -> SUBSET Payloads]
  BY DEF IInv, TypeOK
<1>3. /\ working'[c] = [working[c] EXCEPT ![i] = @ + 1]
      /\ \A d \in Cases : d # c => working'[d] = working[d]
  BY <1>2 DEF EditWorking
<1>4. /\ seen'[c] = seen[c] \union {working'[c]}
      /\ \A d \in Cases : d # c => seen'[d] = seen[d]
  BY <1>2 DEF EditWorking
<1>5. working'[c] \in Payloads /\ \A j \in 1..NFiles : working[c][j] <= working'[c][j]
  <2>1. \A j \in 1..NFiles : working[c][j] \in 0..MaxVersion
    BY <1>2 DEF Payloads, Versions
  <2>2. working[c][i] + 1 \in 0..MaxVersion
    BY <2>1, MaxVersionAssumption DEF EditWorking
  <2>. QED
    BY <1>2, <1>3, <2>1, <2>2, MaxVersionAssumption DEF Payloads, Versions
<1>6. \A d \in Cases : seen[d] \subseteq seen'[d] /\ working'[d] \in seen'[d]
  BY <1>3, <1>4 DEF Reads
<1>7. ASSUME NEW w \in Writers, op[w].kind = "candidate"
      PROVE  /\ Passed(op[w].read, working'[op[w].case], seen'[op[w].case])
             /\ pc[w] = "publish" => Captured(op[w]).payload \in seen'[op[w].case]
  <2>1. op[w].case \in Cases /\ op[w].read \in Seq(Versions)
    BY <1>7, CandidateOp
  <2>2. /\ Passed(op[w].read, working[op[w].case], seen[op[w].case])
        /\ pc[w] = "publish" => Captured(op[w]).payload \in seen[op[w].case]
    BY <1>7 DEF Reads
  <2>3. CASE op[w].case = c
    <3>1. Passed(op[w].read, working[c], seen[c]) /\ working[c] \in Payloads
          /\ seen[c] \in SUBSET Payloads /\ seen[c] \subseteq seen'[c]
      BY <1>2, <1>6, <2>2, <2>3
    <3>2. Passed(op[w].read, working'[c], seen'[c])
      BY <1>5, <2>1, <3>1, PassedEdit
    <3>. QED
      BY <1>6, <2>2, <2>3, <3>2
  <2>4. CASE op[w].case # c
    BY <1>3, <1>4, <2>1, <2>2, <2>4
  <2>. QED
    BY <2>3, <2>4
<1>8. \A x \in candidates : x.payload \in seen'[x.case]
  <2>1. \A x \in candidates : x.case \in Cases
    BY DEF IInv, TypeOK, Candidates, FirstCandidates
  <2>. QED
    BY <1>6, <2>1 DEF Reads, CapturedWhole
<1>9. Reads' = (/\ \A d \in Cases : working'[d] \in seen'[d]
                /\ \A w \in Writers : op'[w].kind = "candidate" =>
                     /\ Passed(op'[w].read, working'[op'[w].case], seen'[op'[w].case])
                     /\ pc'[w] = "publish" => Captured(op'[w]).payload \in seen'[op'[w].case]
                /\ \A x \in candidates' : x.payload \in seen'[x.case])
  BY DEF Reads, CapturedWhole, Passed, Captured
<1>. QED
  BY <1>1, <1>6, <1>7, <1>8, <1>9

(* A capture begins with nothing read.                                     *)
LEMMA ReadsBegin ==
  ASSUME IInv, Reads, NEW w \in Writers, AddCandidate(w)
  PROVE  Reads'
<1>1. PICK d \in Cases, p \in {NoRecord} \union FirstCandidates :
        Begin(w, [kind |-> "candidate", case |-> d, predecessor |-> p, read |-> << >>])
  BY DEF AddCandidate
<1>2. op \in [Writers -> Ops] /\ pc = [v \in Writers |-> pc[v]]
  BY DEF IInv, TypeOK
<1>3. /\ op'[w].read = << >> /\ pc'[w] # "publish"
      /\ \A v \in Writers : v # w => op'[v] = op[v] /\ pc'[v] = pc[v]
  BY <1>1, <1>2 DEF Begin, Goto
<1>4. UNCHANGED <<working, seen, candidates>>
  BY <1>1 DEF Begin, store, disk
<1>5. \A W, S : Passed(<< >>, W, S)
  BY NFilesAssumption DEF Passed
<1>6. ASSUME NEW v \in Writers, op'[v].kind = "candidate"
      PROVE  /\ Passed(op'[v].read, working'[op'[v].case], seen'[op'[v].case])
             /\ pc'[v] = "publish" => Captured(op'[v]).payload \in seen'[op'[v].case]
  <2>1. CASE v = w
    BY <1>3, <1>5, <2>1
  <2>2. CASE v # w
    BY <1>3, <1>4, <1>6, <2>2 DEF Reads
  <2>. QED
    BY <2>1, <2>2
<1>. QED
  BY <1>4, <1>6 DEF Reads, CapturedWhole, Passed, Captured

(* A candidate is published.                                               *)
LEMMA ReadsPublish ==
  ASSUME IInv, Reads, NEW w \in Writers, Publish(w)
  PROVE  Reads'
<1>1. UNCHANGED <<working, seen, op>> /\ pc[w] = "publish"
  BY DEF Publish, disk
<1>2. \A v \in Writers : pc'[v] = "publish" => pc[v] = "publish"
  BY DEF Publish, Goto, IInv, TypeOK
<1>3. \/ candidates' = candidates
      \/ op[w].kind = "candidate" /\ candidates' = candidates \union {Captured(op[w])}
  <2>1. op[w].kind \in {"case", "candidate", "receipt"}
    BY <1>1, OpKinds DEF Pending, IInv, TypeOK
  <2>. QED
    BY <2>1 DEF Publish
<1>4. \A x \in candidates' : x.payload \in seen[x.case]
  <2>1. op[w].kind = "candidate" =>
          Captured(op[w]).payload \in seen[Captured(op[w]).case]
    <3>1. Captured(op[w]).case = op[w].case
      BY DEF Captured
    <3>. QED
      BY <1>1, <3>1 DEF Reads
  <2>. QED
    BY <1>3, <2>1 DEF Reads, CapturedWhole
<1>5. \A v \in Writers : op'[v].kind = "candidate" =>
        /\ Passed(op'[v].read, working'[op'[v].case], seen'[op'[v].case])
        /\ pc'[v] = "publish" => Captured(op'[v]).payload \in seen'[op'[v].case]
  BY <1>1, <1>2 DEF Reads
<1>6. \A c \in Cases : working'[c] \in seen'[c]
  BY <1>1 DEF Reads
<1>7. CapturedWhole'
  BY <1>1, <1>4 DEF CapturedWhole
<1>. QED
  BY <1>5, <1>6, <1>7 DEF Reads, Passed, Captured

(* Whatever is read, edited and published.                                 *)
LEMMA StepReads ==
  ASSUME IInv, Reads, [Next]_vars
  PROVE  Reads'
<1>0. op \in [Writers -> Ops] /\ pc = [v \in Writers |-> pc[v]]
  BY DEF IInv, TypeOK
<1>1. ASSUME NEW w \in Writers, CreateCase(w) \/ AddReceipt(w) PROVE Reads'
  <2>1. CASE CreateCase(w)
    <3>1. PICK c \in Cases, k \in Cores : Begin(w, [kind |-> "case", case |-> c, core |-> k])
      BY <2>1 DEF CreateCase
    <3>. QED
      BY <1>0, <3>1, OtherStep DEF Begin, Goto, store, disk
  <2>2. CASE AddReceipt(w)
    <3>1. PICK r : Begin(w, [kind |-> "receipt", receipt |-> r])
      BY <2>2 DEF AddReceipt
    <3>. QED
      BY <1>0, <3>1, OtherStep DEF Begin, Goto, store, disk
  <2>. QED
    BY <1>1, <2>1, <2>2
<1>2. ASSUME NEW w \in Writers,
             Acquire(w) \/ Refused(w) \/ WriteToken(w) \/ TokenFails(w) \/ Release(w)
               \/ ReleaseFails(w)
      PROVE  Reads'
  BY <1>0, <1>2, OtherStep
     DEF Acquire, Refused, WriteToken, TokenFails, Release, ReleaseFails, Goto, store, disk, NoOp
<1>3. ASSUME NEW w \in Writers,
             CheckCase(w) \/ LoadPredecessor(w) \/ CheckReceipt(w) \/ OperationFails(w) \/ Crash(w)
      PROVE  Reads'
  BY <1>0, <1>3, OtherStep
     DEF CheckCase, LoadPredecessor, CheckReceipt, OperationFails, Crash, Goto, store, disk, NoOp
<1>4. ASSUME NEW w \in Writers,
             AddCandidate(w) \/ Observe(w) \/ CheckCandidate(w) \/ Publish(w)
      PROVE  Reads'
  BY <1>4, ReadsBegin, ReadsObserve, ReadsCheck, ReadsPublish
<1>5. ASSUME NEW c \in Cases, NEW i \in 1..NFiles, EditWorking(c, i) PROVE Reads'
  BY <1>5, ReadsEdit
<1>6. ASSUME NEW c \in Cases, EditEvidence(c) PROVE Reads'
  BY <1>6, OtherStep DEF EditEvidence, store
<1>7. CASE RecoverLock \/ UNCHANGED vars
  BY <1>7, OtherStep DEF RecoverLock, vars, store, disk
<1>. QED
  BY <1>1, <1>2, <1>3, <1>4, <1>5, <1>6, <1>7 DEF Next, Call, Step, Fail

(* A stored candidate is one state of its workspace, however the workspace *)
(* was edited while it was read, and whatever crashed meanwhile.           *)
THEOREM CapturedWholeHolds == Spec => []CapturedWhole
<1>1. Init => Reads
  BY NFilesAssumption DEF Init, Reads, CapturedWhole, NoOp
<1>2. IInv /\ Reads /\ [Next]_vars => Reads'
  BY StepReads
<1>3. Reads => CapturedWhole
  BY DEF Reads
<1>. QED
  BY <1>1, <1>2, <1>3, Invariance, PTL DEF Spec
-----------------------------------------------------------------------------
(* The lock file comes back.  What fairness makes of the following is      *)
(* LockIsReturned; this part of it is about the code alone: while a lock   *)
(* is not abandoned its creator is inside, has its token in the file while *)
(* it works, and stands before a step that it can take; each of its steps  *)
(* goes down a measure; nobody else's step moves it; and it is abandoned   *)
(* nowhere but in the finally clause, or by a death.                       *)
Inside == {"claimed", "locked", "capture", "publish", "release"}

(* One of the steps of w has its guard true.                               *)
Ready(w) ==
  \/ pc[w] \in {"claimed", "release"}
  \/ pc[w] \in {"locked", "publish"} /\ op[w].kind \in {"case", "candidate", "receipt"}
  \/ pc[w] = "capture" /\ op[w].kind = "candidate" /\ Len(op[w].read) <= 2 * NFiles

LockBacked ==
  lock # Nobody /\ ~abandoned =>
    /\ pc[lock] \in Inside
    /\ pc[lock] \in {"locked", "capture", "publish"} => token
    /\ Ready(lock)

Depth == [claimed |-> 5, locked |-> 4, capture |-> 3, publish |-> 2, release |-> 1]

(* The code inside the lock goes one way, but for the loop over the files, *)
(* and that one ends after two passes.                                     *)
Nearer(w) ==
  /\ pc'[w] \in Inside
  /\ \/ Depth[pc'[w]] < Depth[pc[w]]
     \/ /\ pc[w] = "capture" /\ pc'[w] = "capture"
        /\ Len(op[w].read) < Len(op'[w].read)
        /\ Len(op'[w].read) <= 2 * NFiles

Returned == lock' = Nobody \/ abandoned'

HolderFinishes ==
  [][lock # Nobody /\ ~abandoned =>
       /\ Step(lock) => Returned \/ Nearer(lock)
       /\ Step(lock) /\ pc[lock] = "release" /\ token => lock' = Nobody
       /\ abandoned' => pc[lock] = "release" \/ Crash(lock)
       /\ lock' = Nobody => pc[lock] = "release" /\ token
       /\ ~Returned =>
            /\ lock' = lock
            /\ Nearer(lock) \/ (pc'[lock] = pc[lock] /\ op'[lock] = op[lock])]_vars

(* A reader's list of bytes is never longer than two passes.               *)
Bounded == \A w \in Writers : op[w].kind = "candidate" => Len(op[w].read) <= 2 * NFiles

(* What one step of a process does to its place, its operation and the     *)
(* lock; the others keep theirs.                                           *)
LEMMA MovesOnlyItself ==
  ASSUME TypeOK, NEW w \in Writers, NEW label, Goto(w, label)
  PROVE  pc' = [pc EXCEPT ![w] = label] /\ \A v \in Writers : v # w => pc'[v] = pc[v]
BY DEF Goto, TypeOK

LEMMA GoesTo ==
  ASSUME TypeOK, NEW w \in Writers, NEW label, Goto(w, label)
  PROVE  pc'[w] = label
BY DEF Goto, TypeOK

(* One file more is read.                                                  *)
LEMMA ObserveReads ==
  ASSUME IInv, NEW w \in Writers, Observe(w)
  PROVE  /\ op'[w].kind = "candidate"
         /\ Len(op'[w].read) = Len(op[w].read) + 1
         /\ Len(op[w].read) \in Nat
         /\ \A v \in Writers : v # w => op'[v] = op[v]
<1> DEFINE more == Append(op[w].read, working[op[w].case][1 + (Len(op[w].read) % NFiles)])
<1>1. op[w].kind = "candidate" /\ op \in [Writers -> Ops]
  BY DEF IInv, TypeOK, Observe
<1>2. op'[w] = [op[w] EXCEPT !.read = more] /\ \A v \in Writers : v # w => op'[v] = op[v]
  BY <1>1 DEF Observe
<1>3. op[w].read \in Seq(Versions) /\ op[w].case \in Cases
  BY <1>1, CandidateOp
<1>4. Len(more) = Len(op[w].read) + 1 /\ Len(op[w].read) \in Nat
  <2>1. Len(op[w].read) \in Nat /\ NFiles \in Nat \ {0}
    BY <1>3, NFilesAssumption
  <2>2. 1 + (Len(op[w].read) % NFiles) \in 1..NFiles
    BY <2>1, ModRange
  <2>3. working[op[w].case][1 + (Len(op[w].read) % NFiles)] \in Versions
    BY <1>3, <2>2 DEF IInv, TypeOK, Payloads
  <2>. QED
    BY <1>3, <2>1, <2>3
<1> HIDE DEF more
<1>5. op'[w].read = more /\ op'[w].kind = "candidate"
  <2>1. op[w] = [kind |-> "candidate", case |-> op[w].case,
                 predecessor |-> op[w].predecessor, read |-> op[w].read]
    BY <1>1, CandidateOp
  <2>. QED
    BY <1>2, <2>1
<1>. QED
  BY <1>2, <1>4, <1>5

(* A capture begins with nothing read, and stops at two passes.            *)
LEMMA StepBounded ==
  ASSUME IInv, Bounded, [Next]_vars
  PROVE  Bounded'
<1>0. op \in [Writers -> Ops] /\ NFiles \in Nat
  BY NFilesAssumption DEF IInv, TypeOK
<1>1. ASSUME NEW w \in Writers, CreateCase(w) PROVE Bounded'
  BY <1>0, <1>1 DEF CreateCase, Begin, Bounded
<1>2. ASSUME NEW w \in Writers, AddCandidate(w) PROVE Bounded'
  BY <1>0, <1>2 DEF AddCandidate, Begin, Bounded
<1>3. ASSUME NEW w \in Writers, AddReceipt(w) PROVE Bounded'
  <2>1. PICK r : Begin(w, [kind |-> "receipt", receipt |-> r])
    BY <1>3 DEF AddReceipt
  <2>. QED
    BY <1>0, <2>1 DEF Begin, Bounded
<1>4. ASSUME NEW w \in Writers,
             Refused(w) \/ Release(w) \/ ReleaseFails(w) \/ Crash(w)
      PROVE  Bounded'
  BY <1>0, <1>4 DEF Refused, Release, ReleaseFails, Crash, NoOp, Bounded
<1>5. ASSUME NEW w \in Writers, Observe(w) PROVE Bounded'
  <2>1. Len(op'[w].read) <= 2 * NFiles
    BY <1>0, <1>5, ObserveReads DEF Observe
  <2>. QED
    BY <1>5, <2>1, ObserveReads DEF Bounded
<1>6. ASSUME UNCHANGED op PROVE Bounded'
  BY <1>6 DEF Bounded
<1>7. ASSUME NEW w \in Writers,
             Acquire(w) \/ WriteToken(w) \/ CheckCase(w) \/ LoadPredecessor(w)
               \/ CheckCandidate(w) \/ CheckReceipt(w) \/ Publish(w) \/ OperationFails(w)
               \/ TokenFails(w)
      PROVE  UNCHANGED op
  BY <1>7 DEF Acquire, WriteToken, CheckCase, LoadPredecessor, CheckCandidate, CheckReceipt,
     Publish, OperationFails, TokenFails
<1>8. ASSUME NEW c \in Cases, NEW i \in 1..NFiles, EditWorking(c, i) PROVE UNCHANGED op
  BY <1>8 DEF EditWorking
<1>9. ASSUME NEW c \in Cases, EditEvidence(c) PROVE UNCHANGED op
  BY <1>9 DEF EditEvidence
<1>10. RecoverLock \/ UNCHANGED vars => UNCHANGED op
  BY DEF RecoverLock, vars
<1>. QED
  BY <1>1, <1>2, <1>3, <1>4, <1>5, <1>6, <1>7, <1>8, <1>9, <1>10 DEF Next, Call, Step, Fail

(* The process that the lock file names is the one inside; only its own    *)
(* steps, and the removal of a lock left behind, move it.                  *)
Unmoved(w) == lock' = lock /\ token' = token /\ abandoned' = abandoned
                /\ pc'[w] = pc[w] /\ op'[w] = op[w]

Holder == lock \in Writers /\ ~abandoned /\ pc[lock] \in Inside

(* Somebody else's step.                                                   *)
LEMMA OthersLeaveIt ==
  ASSUME IInv, Holder, NEW w \in Writers, w # lock,
         Call(w) \/ Step(w) \/ Fail(w) \/ Crash(w)
  PROVE  Unmoved(lock)
<1>0. /\ pc[w] \notin Inside /\ lock # Nobody
      /\ pc \in [Writers -> {"idle"} \union {"opening"} \union Inside] /\ op \in [Writers -> Ops]
  BY NobodyAssumption DEF IInv, TypeOK, Serialized, Inside, Holder
<1>1. CASE Call(w)
  <2>1. PICK x : Begin(w, x)
    BY <1>1 DEF Call, CreateCase, AddCandidate, AddReceipt
  <2>. QED
    BY <1>0, <2>1 DEF Begin, Goto, Unmoved, Holder
<1>2. CASE Refused(w)
  BY <1>0, <1>2 DEF Refused, Goto, Unmoved, Holder
<1>3. CASE Crash(w)
  <2>1. ~Locked(w) /\ abandoned \in BOOLEAN
    BY <1>0 DEF Locked, Inside, IInv, TypeOK
  <2>2. abandoned' = abandoned
    BY <1>3, <2>1 DEF Crash
  <2>. QED
    BY <1>0, <1>3, <2>2 DEF Crash, Goto, Unmoved, Holder
<1>4. ~Acquire(w)
  BY <1>0 DEF Acquire
<1>5. /\ ~WriteToken(w) /\ ~Release(w) /\ ~CheckCase(w) /\ ~LoadPredecessor(w) /\ ~Observe(w)
      /\ ~CheckCandidate(w) /\ ~CheckReceipt(w) /\ ~Publish(w) /\ ~TokenFails(w)
      /\ ~OperationFails(w) /\ ~ReleaseFails(w)
  BY <1>0 DEF Inside, WriteToken, Release, CheckCase, LoadPredecessor, Observe, CheckCandidate,
     CheckReceipt, Publish, TokenFails, OperationFails, ReleaseFails
<1>. QED
  BY <1>1, <1>2, <1>3, <1>4, <1>5 DEF Step, Fail

(* The editors.                                                            *)
LEMMA EditorsLeaveIt ==
  ASSUME IInv, Holder,
         \/ \E c \in Cases, i \in 1..NFiles : EditWorking(c, i)
         \/ \E c \in Cases : EditEvidence(c)
         \/ RecoverLock
         \/ UNCHANGED vars
  PROVE  Unmoved(lock)
BY DEF EditWorking, EditEvidence, RecoverLock, vars, Unmoved, Holder

(* The holder's own steps: the lock is returned or left behind, or it is   *)
(* nearer to that, still ready and with its token in place.                *)
Onward(w) ==
  \/ /\ abandoned' /\ (pc[w] = "release" \/ Crash(w)) /\ lock' = lock
     /\ ~(Step(w) /\ pc[w] = "release" /\ token)
  \/ lock' = Nobody /\ ~abandoned' /\ pc[w] = "release" /\ token
  \/ /\ lock' = w /\ ~abandoned'
     /\ Nearer(w)
     /\ pc[w] # "release"
     /\ pc'[w] \in {"locked", "capture", "publish"} => token'
     /\ Ready(w)'

(* At the release, with the token in the file, the only step is the one    *)
(* that removes the lock.                                                  *)
LEMMA OnlyLeaves ==
  ASSUME NEW w \in Writers, lock = w, lock # Nobody, Step(w), pc[w] = "release", token
  PROVE  lock' = Nobody /\ abandoned' = abandoned
BY DEF Step, Acquire, Refused, WriteToken, Release, CheckCase, LoadPredecessor, Observe,
   CheckCandidate, CheckReceipt, Publish

LEMMA HolderMoves ==
  ASSUME IInv, Bounded, LockBacked, NEW w \in Writers, w = lock, ~abandoned,
         Call(w) \/ Step(w) \/ Fail(w) \/ Crash(w)
  PROVE  Onward(w)
<1>0. /\ pc \in [Writers -> {"idle"} \union {"opening"} \union Inside] /\ op \in [Writers -> Ops]
      /\ pc[w] \in Inside /\ lock # Nobody /\ TypeOK
      /\ pc[w] \in {"locked", "capture", "publish"} => token
      /\ Ready(w)
  BY NobodyAssumption DEF IInv, TypeOK, LockBacked, Inside
<1>1. ~Call(w) /\ ~Acquire(w) /\ ~Refused(w)
  BY <1>0 DEF Inside, Call, CreateCase, AddCandidate, AddReceipt, Begin, Acquire, Refused
<1>2. CASE Crash(w) \/ ReleaseFails(w)
  <2>1. CASE Crash(w)
    <3>1. abandoned' /\ lock' = lock /\ Locked(w)
      BY <1>0, <2>1 DEF Crash, Locked, Inside
    <3>2. ~(Step(w) /\ pc[w] = "release" /\ token)
      BY <1>0, <2>1, <3>1, OnlyLeaves
    <3>. QED
      BY <2>1, <3>1, <3>2 DEF Onward
  <2>2. CASE ReleaseFails(w)
    <3>1. abandoned' /\ lock' = lock /\ pc[w] = "release"
      BY <2>2 DEF ReleaseFails
    <3>2. ~(Step(w) /\ pc[w] = "release" /\ token)
      BY <1>0, <3>1, OnlyLeaves
    <3>. QED
      BY <3>1, <3>2 DEF Onward
  <2>. QED
    BY <1>2, <2>1, <2>2
<1>3. CASE Release(w)
  <2>1. CASE token
    BY <1>0, <1>3, <2>1 DEF Release, Onward
  <2>2. CASE ~token
    BY <1>0, <1>3, <2>2 DEF Release, Onward
  <2>. QED
    BY <2>1, <2>2
<1>10. CASE TokenFails(w)
  <2>1. pc[w] = "claimed" /\ pc'[w] = "release" /\ op' = op /\ lock' = lock /\ abandoned' = abandoned
    BY <1>0, <1>10, GoesTo DEF TokenFails
  <2>. QED
    BY <1>0, <2>1 DEF Onward, Nearer, Depth, Inside, Ready
<1>4. CASE WriteToken(w)
  <2>1. pc[w] = "claimed" /\ pc'[w] = "locked" /\ op' = op /\ lock' = lock /\ token' /\ ~abandoned'
    BY <1>0, <1>4, GoesTo DEF WriteToken
  <2>2. op[w].kind \in {"case", "candidate", "receipt"}
    BY <1>0, <2>1, OpKinds DEF IInv, Pending
  <2>. QED
    BY <2>1, <2>2 DEF Onward, Nearer, Depth, Inside, Ready
<1>5. CASE CheckCase(w) \/ CheckReceipt(w)
  <2>1. /\ pc[w] = "locked" /\ pc'[w] \in {"publish", "release"} /\ op' = op
        /\ lock' = lock /\ token' = token /\ abandoned' = abandoned
    BY <1>0, <1>5, GoesTo DEF CheckCase, CheckReceipt
  <2>2. op[w].kind \in {"case", "candidate", "receipt"}
    BY <1>5 DEF CheckCase, CheckReceipt
  <2>. QED
    BY <1>0, <2>1, <2>2 DEF Onward, Nearer, Depth, Inside, Ready
<1>6. CASE LoadPredecessor(w)
  <2>1. /\ pc[w] = "locked" /\ pc'[w] \in {"capture", "release"} /\ op' = op
        /\ lock' = lock /\ token' = token /\ abandoned' = abandoned
        /\ op[w].kind = "candidate"
    BY <1>0, <1>6, GoesTo DEF LoadPredecessor
  <2>2. Len(op[w].read) <= 2 * NFiles
    BY <2>1 DEF Bounded
  <2>. QED
    BY <1>0, <2>1, <2>2 DEF Onward, Nearer, Depth, Inside, Ready
<1>7. CASE Observe(w)
  <2>1. /\ pc[w] = "capture" /\ pc'[w] = "capture"
        /\ lock' = lock /\ token' = token /\ abandoned' = abandoned
    BY <1>7 DEF Observe
  <2>2. /\ op'[w].kind = "candidate" /\ Len(op[w].read) < Len(op'[w].read)
        /\ Len(op'[w].read) <= 2 * NFiles
    <3>1. Len(op[w].read) < 2 * NFiles
      BY <1>7 DEF Observe
    <3>2. Len(op'[w].read) = Len(op[w].read) + 1 /\ Len(op[w].read) \in Nat /\ op'[w].kind = "candidate"
      BY <1>7, ObserveReads
    <3>. QED
      BY <3>1, <3>2, NFilesAssumption
  <2>. QED
    BY <1>0, <2>1, <2>2 DEF Onward, Nearer, Inside, Ready
<1>8. CASE CheckCandidate(w)
  <2>1. /\ pc[w] = "capture" /\ pc'[w] \in {"publish", "release"} /\ op' = op
        /\ lock' = lock /\ token' = token /\ abandoned' = abandoned
    BY <1>0, <1>8, GoesTo DEF CheckCandidate
  <2>2. op[w].kind = "candidate"
    BY <1>0, <2>1 DEF Ready
  <2>. QED
    BY <1>0, <2>1, <2>2 DEF Onward, Nearer, Depth, Inside, Ready
<1>9. CASE Publish(w) \/ OperationFails(w)
  <2>1. /\ pc[w] \in {"locked", "capture", "publish"} /\ pc'[w] = "release"
        /\ lock' = lock /\ token' = token /\ abandoned' = abandoned
    BY <1>0, <1>9, GoesTo DEF Publish, OperationFails
  <2>. QED
    BY <1>0, <2>1 DEF Onward, Nearer, Depth, Inside, Ready
<1>. QED
  BY <1>1, <1>2, <1>3, <1>4, <1>5, <1>6, <1>7, <1>8, <1>9, <1>10 DEF Step, Fail

(* A new lock: nobody is inside but its creator.                           *)
LEMMA NewLock ==
  ASSUME IInv, ~(lock \in Writers /\ ~abandoned), [Next]_vars, lock' # Nobody, ~abandoned'
  PROVE  \E w \in Writers : lock' = w /\ pc'[w] = "claimed"
<1>0. TypeOK /\ (abandoned \/ lock = Nobody)
  BY DEF IInv, TypeOK
<1>1. ASSUME NEW w \in Writers, Acquire(w) PROVE lock' = w /\ pc'[w] = "claimed"
  BY <1>0, <1>1, GoesTo DEF Acquire
<1>2. ASSUME NEW w \in Writers, Call(w) PROVE UNCHANGED <<lock, abandoned>>
  BY <1>2 DEF Call, CreateCase, AddCandidate, AddReceipt, Begin
<1>3. ASSUME NEW w \in Writers, Step(w), ~Acquire(w), ~Release(w)
      PROVE  UNCHANGED <<lock, abandoned>>
  BY <1>3 DEF Step, Refused, WriteToken, CheckCase, LoadPredecessor, Observe, CheckCandidate,
     CheckReceipt, Publish
<1>4. ASSUME NEW w \in Writers, Release(w)
      PROVE  (abandoned => abandoned') /\ lock' \in {lock, Nobody}
  BY <1>4 DEF Release
<1>5. ASSUME NEW w \in Writers, Fail(w) \/ Crash(w)
      PROVE  lock' = lock /\ (abandoned => abandoned')
  BY <1>5 DEF Fail, TokenFails, ReleaseFails, Crash, OperationFails
<1>6. ASSUME NEW c \in Cases, NEW i \in 1..NFiles, EditWorking(c, i)
      PROVE  UNCHANGED <<lock, abandoned>>
  BY <1>6 DEF EditWorking
<1>7. ASSUME NEW c \in Cases, EditEvidence(c) PROVE UNCHANGED <<lock, abandoned>>
  BY <1>7 DEF EditEvidence
<1>8. ~RecoverLock
  BY DEF RecoverLock
<1>9. UNCHANGED vars => UNCHANGED <<lock, abandoned>>
  BY DEF vars
<1>. QED
  BY <1>0, <1>1, <1>2, <1>3, <1>4, <1>5, <1>6, <1>7, <1>8, <1>9 DEF Next

(* A step while the lock is held and not left behind.                      *)
LEMMA HeldStep ==
  ASSUME IInv, Bounded, LockBacked, lock \in Writers, ~abandoned, [Next]_vars
  PROVE  Onward(lock) \/ (Unmoved(lock) /\ ~Step(lock))
<1>0. Holder /\ lock # Nobody
  BY NobodyAssumption DEF Holder, LockBacked
<1>1. CASE Step(lock)
  BY <1>1, HolderMoves
<1>2. CASE ~Step(lock)
  <2>1. ASSUME NEW w \in Writers,
               Call(w) \/ Step(w) \/ Fail(w) \/ Crash(w)
        PROVE  Onward(lock) \/ Unmoved(lock)
    BY <1>0, <2>1, HolderMoves, OthersLeaveIt
  <2>2. CASE \/ \E c \in Cases, i \in 1..NFiles : EditWorking(c, i)
             \/ \E c \in Cases : EditEvidence(c)
             \/ RecoverLock
             \/ UNCHANGED vars
    BY <1>0, <1>2, <2>2, EditorsLeaveIt
  <2>. QED
    BY <1>2, <2>1, <2>2 DEF Next
<1>. QED
  BY <1>1, <1>2

LEMMA StepBacked ==
  ASSUME IInv, Bounded, LockBacked, [Next]_vars
  PROVE  LockBacked'
<1> SUFFICES ASSUME lock' # Nobody, ~abandoned'
             PROVE  /\ pc'[lock'] \in Inside
                    /\ pc'[lock'] \in {"locked", "capture", "publish"} => token'
                    /\ Ready(lock)'
  BY DEF LockBacked
<1>1. CASE lock \in Writers /\ ~abandoned
  <2>1. CASE Onward(lock)
    <3>1. /\ lock' = lock /\ Nearer(lock) /\ Ready(lock)'
          /\ pc'[lock] \in {"locked", "capture", "publish"} => token'
      BY <2>1 DEF Onward, Ready
    <3>. QED
      BY <3>1 DEF Nearer
  <2>2. CASE Unmoved(lock)
    BY <1>1, <2>2, NobodyAssumption DEF Unmoved, LockBacked, Ready
  <2>. QED
    BY <1>1, <2>1, <2>2, HeldStep
<1>2. CASE ~(lock \in Writers /\ ~abandoned)
  BY <1>2, NewLock DEF Ready, Inside
<1>. QED
  BY <1>1, <1>2

(* A lock whose creator did not die and did not fail in its own cleanup    *)
(* has that creator behind it, inside and ready to go on: no refusal,      *)
(* failure or return of the work done inside leaves the file without one.  *)
THEOREM LockBackedHolds == Spec => []LockBacked
<1>1. Init => Bounded /\ LockBacked
  BY DEF Init, Bounded, LockBacked, NoOp
<1>. QED
  BY <1>1, StepBounded, StepBacked, Invariance, PTL DEF Spec

(* The holder goes down to its finally clause, whoever else runs, edits    *)
(* and dies: that clause removes the file when the token is in it, and the *)
(* file is left behind by nothing but that clause or the holder's death.   *)
THEOREM HolderFinishesHolds == Spec => HolderFinishes
<1> DEFINE P ==
  lock # Nobody /\ ~abandoned =>
       /\ Step(lock) => Returned \/ Nearer(lock)
       /\ Step(lock) /\ pc[lock] = "release" /\ token => lock' = Nobody
       /\ abandoned' => pc[lock] = "release" \/ Crash(lock)
       /\ lock' = Nobody => pc[lock] = "release" /\ token
       /\ ~Returned =>
            /\ lock' = lock
            /\ Nearer(lock) \/ (pc'[lock] = pc[lock] /\ op'[lock] = op[lock])
<1>1. Init => Bounded
  BY DEF Init, Bounded, NoOp
<1>2. IInv /\ Bounded /\ LockBacked /\ [Next]_vars => [P]_vars
  BY HeldStep DEF IInv, TypeOK, Onward, Unmoved, Returned
<1>. QED
  BY <1>1, <1>2, StepBounded, LockBackedHolds, Invariance, PTL DEF Spec, HolderFinishes
=============================================================================
