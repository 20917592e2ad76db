----------------------- MODULE CaseOperations_proofs -----------------------
(***************************************************************************)
(* Proofs about CaseOperations, for all sets of candidates, evaluators and *)
(* run artifacts and all bounds: what is journaled and published is the    *)
(* tested candidate, the journal only goes forward, nothing is replaced,   *)
(* and no archive is published under a report that was made stale.         *)
(*                                                                         *)
(* The invariant says, for every point of a call, what the checks before   *)
(* it have established and nothing after them can have changed: facts of   *)
(* the call's own memory and of the journal, which only this call writes.  *)
(* What it says of directories holds as long as nobody else touched them.  *)
(***************************************************************************)
EXTENDS CaseOperations, TLAPS

Copying == {"copy", "recheck", "evaluator", "verify", "journal"}
Preparing == Copying \union {"inventory", "mkdir"}
Filling == {"build", "inspect", "inputs", "packaged", "attach", "seal", "package"}
Packaging == Filling \union {"destination", "attempt"}
Publishing ==
  {"reconcile", "publish", "publisher", "artifacts", "move", "confirm", "settle", "complete"}
Qualified == {"requalify"} \union Packaging \union Publishing
Finalizing == {"read", "reader", "qualify", "evidence"} \union Qualified

(* Where a call is, and what is journaled for its operation.               *)
Phase ==
  /\ pc \in Preparing => checkpoint[call.op] = NoCheckpoint
  /\ pc \in Finalizing => checkpoint[call.op] # NoCheckpoint
  /\ pc \in Packaging => checkpoint[call.op].state = "PREPARED"
  /\ pc \in Publishing => Packaged(call.op)
  /\ pc \in Copying \union Filling => call.attempt \in Attempts
  /\ pc \in {"evidence"} \union Qualified => call.report \in Reports
  /\ \A o \in Operations :
       Packaged(o) => checkpoint[o].archive \in Attempts /\ checkpoint[o].report \in Reports

TypeInv == TypeOK /\ Phase

(* What the call and the journal say is the candidate, and passed.         *)
Tested ==
  /\ TestedBytes
  /\ pc = "journal" => call.input = call.op.candidate
  /\ pc \in {"evidence"} \union Qualified => call.report.candidate = call.op.candidate
  /\ pc \in Qualified => call.report.run \in Passing
  /\ pc = "package" => HoldsCandidate(call.op, call.files)

(* What the call's report names was there while the call was running.      *)
Watched ==
  /\ pc # "idle" => source \in during.source /\ engine \in during.engine /\ run \in during.run
  /\ pc \in {"evidence"} \union Qualified =>
       call.report.candidate \in during.source /\ call.report.engine \in during.engine
  /\ pc \in Qualified => call.report.run \in during.run
  /\ pc \in Publishing => checkpoint[call.op].report = call.report

(* Where the archive is, as far as nobody else touched it.                 *)
PlaceFacts(o) ==
  /\ meddled[o] # "since" =>
       /\ ~Packaged(o) => final[o] = NoDir
       /\ Packaged(o) /\ final[o] # NoDir => final[o] = checkpoint[o].files
       /\ Packaged(o) /\ checkpoint[o].state = "COMPLETE" => final[o] # NoDir
  /\ meddled[o] = "before" => Packaged(o) /\ final[o] = checkpoint[o].files
  /\ meddled[o] = "never" /\ Packaged(o) =>
       /\ (final[o] = NoDir) <=> (Source(o) # NoDir)
       /\ Source(o) \in {NoDir, checkpoint[o].files}
       /\ checkpoint[o].files.report = checkpoint[o].report
CallPlace ==
  /\ pc \in {"settle", "complete"} /\ meddled[call.op] # "since" =>
       final[call.op] = checkpoint[call.op].files
  /\ pc = "seal" /\ meddled[call.op] = "never" =>
       (private[call.op][call.attempt] \in Archives =>
          private[call.op][call.attempt].report = call.report)
  /\ pc = "package" /\ meddled[call.op] = "never" =>
       /\ private[call.op][call.attempt] = call.files
       /\ call.files.report = call.report
Placed == CallPlace /\ \A o \in Operations : PlaceFacts(o)

IInv == TypeInv /\ Tested /\ Watched /\ Placed

LEMMA Points ==
  /\ DOMAIN CurrentThen = {"current", "recheck", "packaged", "publish", "settle"}
  /\ CurrentThen["current"] = "plan" /\ CurrentThen["recheck"] = "evaluator"
  /\ CurrentThen["packaged"] = "attach" /\ CurrentThen["publish"] = "publisher"
  /\ CurrentThen["settle"] = "complete"
  /\ DOMAIN EngineThen = {"evaluator", "reader", "publisher"}
  /\ EngineThen["evaluator"] = "verify" /\ EngineThen["reader"] = "qualify"
  /\ EngineThen["publisher"] = "artifacts"
BY DEF CurrentThen, EngineThen

(* A running call has an operation, and its record fields their types.     *)
LEMMA Running ==
  ASSUME TypeInv, pc # "idle"
  PROVE  /\ call \in Calls /\ call # NoCall
         /\ call.op \in Operations /\ call.op.candidate \in Candidates
         /\ checkpoint[call.op] \in Checkpoints \union {NoCheckpoint}
         /\ pc \in Copying \union Filling => call.attempt \in Attempts
BY DEF TypeInv, TypeOK, Phase, Calls, Operations

(* Every step keeps the types and the phases. *)
LEMMA TypeStep ==
  ASSUME TypeInv, [Next]_vars
  PROVE  TypeInv'
<1>1. CASE CheckCurrent
  BY <1>1, Points, DistinctAssumption
     DEF TypeInv, TypeOK, Phase, Packaged, Calls, Checkpoints, Operations, Labels, Copying,
         Preparing, Filling, Packaging, Publishing, Qualified, Finalizing, CheckCurrent, Check,
         Leave, world, journal, dirs, history
<1>2. CASE CheckEngine
  BY <1>2, Points, DistinctAssumption
     DEF TypeInv, TypeOK, Phase, Packaged, Calls, Checkpoints, Operations, Labels, Copying,
         Preparing, Filling, Packaging, Publishing, Qualified, Finalizing, CheckEngine, Check,
         Leave, world, journal, dirs, history
<1>3. CASE WritePlan
  BY <1>3, Points, DistinctAssumption
     DEF TypeInv, TypeOK, Phase, Packaged, Calls, Checkpoints, Operations, Labels, Copying,
         Preparing, Filling, Packaging, Publishing, Qualified, Finalizing, WritePlan, Leave,
         world, dirs, history
<1>4. CASE TakeInventory
  <2>1. /\ pc # "idle" /\ call \in Calls /\ call # NoCall /\ call.op \in Operations
        /\ call.op.candidate \in Candidates
        /\ pc \in Copying \union Filling => call.attempt \in Attempts
    BY <1>4, Running DEF TakeInventory, Check, Fresh
  <2>2. call' \in Calls /\ call' # NoCall /\ call'.op = call.op
    BY <1>4, <2>1, DistinctAssumption DEF TypeInv, TypeOK, Calls, TakeInventory
  <2> QED
    BY <1>4, <2>1, <2>2, DistinctAssumption
       DEF TypeInv, TypeOK, Phase, Packaged, Labels, Copying, Preparing, Filling,
           Packaging, Publishing, Qualified, Finalizing, TakeInventory, Check, Leave, world,
           journal, dirs, history
<1>5. CASE MakeCopy
  <2>1. /\ pc # "idle" /\ call \in Calls /\ call # NoCall /\ call.op \in Operations
        /\ call.op.candidate \in Candidates
        /\ pc \in Copying \union Filling => call.attempt \in Attempts
    BY <1>5, Running DEF MakeCopy, Check, Fresh
  <2>2. attempts[call.op] + 1 \in Attempts /\ attempts' \in [Operations -> 0..MaxAttempts]
    BY <1>5, <2>1, MaxAttemptsAssumption DEF TypeInv, TypeOK, Attempts, MakeCopy, Fresh
  <2>3. call' \in Calls /\ call' # NoCall /\ call'.op = call.op /\ call'.attempt \in Attempts
    BY <1>5, <2>1, <2>2, DistinctAssumption DEF Calls, Attempts, MakeCopy, Fresh
  <2>4. prepared' \in [Operations -> [Attempts -> Copies]]
    BY <1>5, <2>1, <2>2 DEF TypeInv, TypeOK, Copies, MakeCopy
  <2> QED
    BY <1>5, <2>1, <2>2, <2>3, <2>4, DistinctAssumption
       DEF TypeInv, TypeOK, Phase, Packaged, Labels, Copying, Preparing, Filling,
           Packaging, Publishing, Qualified, Finalizing, MakeCopy, Fresh, world, journal, dirs,
           history
<1>6. CASE Copy
  <2>1. /\ pc # "idle" /\ call \in Calls /\ call # NoCall /\ call.op \in Operations
        /\ call.op.candidate \in Candidates
        /\ pc \in Copying \union Filling => call.attempt \in Attempts
    BY <1>6, Running DEF Copy, Check, Fresh
  <2>2. /\ call.input \in Candidates /\ call.attempt \in Attempts
        /\ pc = "copy" /\ UNCHANGED <<world, journal, private, final, attempts, history>>
    BY <1>6, <2>1 DEF Calls, Copying, Copy
  <2>3. (pc' = "recheck" /\ call' = call) \/ (pc' = "idle" /\ call' = NoCall)
    BY <1>6 DEF Copy, Leave
  <2>4. prepared' = prepared \/ prepared' = [prepared EXCEPT ![call.op][call.attempt] = call.input]
    BY <1>6 DEF Copy, Leave
  <2>5. [prepared[call.op] EXCEPT ![call.attempt] = call.input] \in [Attempts -> Copies]
    BY <2>1, <2>2 DEF TypeInv, TypeOK, Copies
  <2>6. prepared' \in [Operations -> [Attempts -> Copies]]
    BY <2>1, <2>4, <2>5 DEF TypeInv, TypeOK
  <2> QED
    BY <2>1, <2>2, <2>3, <2>4, <2>5, <2>6, Points, DistinctAssumption
       DEF TypeInv, TypeOK, Phase, Packaged, Labels, Copying, Preparing, Filling,
           Packaging, Publishing, Qualified, Finalizing, world, journal, dirs, history
<1>7. CASE VerifyCopy
  BY <1>7, Points, DistinctAssumption
     DEF TypeInv, TypeOK, Phase, Packaged, Calls, Checkpoints, Operations, Labels, Copying,
         Preparing, Filling, Packaging, Publishing, Qualified, Finalizing, VerifyCopy, Check,
         Leave, world, journal, dirs, history
<1>8. CASE WritePrepared
  <2>1. /\ pc # "idle" /\ call \in Calls /\ call # NoCall /\ call.op \in Operations
        /\ call.op.candidate \in Candidates
        /\ pc \in Copying \union Filling => call.attempt \in Attempts
    BY <1>8, Running DEF WritePrepared, Check, Fresh
  <2>2. call.attempt \in Attempts /\ call.input \in Candidates
    BY <1>8, <2>1 DEF Calls, Copying, WritePrepared
  <2>3. checkpoint' \in [Operations -> Checkpoints \union {NoCheckpoint}]
    BY <1>8, <2>1, <2>2, MaxAttemptsAssumption
       DEF TypeInv, TypeOK, Checkpoints, Directories, WritePrepared
  <2> QED
    BY <1>8, <2>1, <2>2, <2>3, DistinctAssumption
       DEF TypeInv, TypeOK, Phase, Packaged, Labels, Copying, Preparing, Filling,
           Packaging, Publishing, Qualified, Finalizing, WritePrepared, Check, Leave, world,
           journal, dirs, history
<1>9. CASE ReadInputs
  BY <1>9, Points, DistinctAssumption
     DEF TypeInv, TypeOK, Phase, Packaged, Calls, Checkpoints, Operations, Labels, Copying,
         Preparing, Filling, Packaging, Publishing, Qualified, Finalizing, ReadInputs, Check,
         Leave, Journaled, world, journal, dirs, history
<1>10. CASE Qualify
  <2>1. /\ pc # "idle" /\ call \in Calls /\ call # NoCall /\ call.op \in Operations
        /\ call.op.candidate \in Candidates
        /\ pc \in Copying \union Filling => call.attempt \in Attempts
    BY <1>10, Running DEF Qualify, Check, Fresh
  <2>2. [candidate |-> source, engine |-> engine, run |-> run] \in Reports
    BY DEF TypeInv, TypeOK, Reports
  <2>3. [call EXCEPT !.report = [candidate |-> source, engine |-> engine, run |-> run]] \in Calls
    BY <2>1, <2>2 DEF Calls
  <2>4. \/ /\ call' = [call EXCEPT !.report = [candidate |-> source, engine |-> engine, run |-> run]]
           /\ pc' = "evidence"
        \/ call' = NoCall /\ pc' = "idle"
    BY <1>10 DEF Qualify, Leave
  <2>5. pc' = "evidence" => call'.report \in Reports /\ call'.op = call.op
    BY <2>1, <2>2, <2>3, <2>4 DEF Calls
  <2> QED
    BY <1>10, <2>1, <2>2, <2>3, <2>4, <2>5, DistinctAssumption
       DEF TypeInv, TypeOK, Phase, Packaged, Labels, Copying, Preparing, Filling,
           Packaging, Publishing, Qualified, Finalizing, Qualify, Calls, world, journal, dirs,
           history
<1>11. CASE Evaluate
  <2>1. /\ pc # "idle" /\ call \in Calls /\ call # NoCall /\ call.op \in Operations
        /\ call.op.candidate \in Candidates
        /\ pc \in Copying \union Filling => call.attempt \in Attempts
    BY <1>11, Running DEF Evaluate, Check, Fresh
  <2>2. call.report \in Reports /\ run \in Runs
    BY <1>11 DEF TypeInv, TypeOK, Phase, Evaluate
  <2>3. [call.report EXCEPT !.run = run] \in Reports
    BY <2>2 DEF Reports
  <2>4. (call' \in Calls /\ call' # NoCall /\ call'.op = call.op) \/ (pc' = "idle" /\ call' = NoCall)
    BY <1>11, <2>1, <2>3, DistinctAssumption DEF Calls, Evaluate, Leave
  <2>5. pc' = "requalify" => call'.report \in Reports
    BY <1>11, <2>1, <2>3 DEF Calls, Evaluate, Leave
  <2> QED
    BY <1>11, <2>1, <2>2, <2>3, <2>4, <2>5, DistinctAssumption
       DEF TypeInv, TypeOK, Phase, Packaged, Labels, Copying, Preparing, Filling,
           Packaging, Publishing, Qualified, Finalizing, Evaluate, Check, Leave, world,
           journal, dirs, history
<1>12. CASE Requalify
  <2>1. /\ pc # "idle" /\ call \in Calls /\ call # NoCall /\ call.op \in Operations
        /\ call.op.candidate \in Candidates
        /\ pc \in Copying \union Filling => call.attempt \in Attempts
    BY <1>12, Running DEF Requalify, Check, Fresh
  <2>2. (pc' = "destination" /\ call' = call /\ checkpoint[call.op].state = "PREPARED") \/ (pc' = "reconcile" /\ call' = call /\ checkpoint[call.op].state # "PREPARED") \/ (pc' = "idle" /\ call' = NoCall)
    BY <1>12 DEF Requalify, Check, Leave, Journaled
  <2>3. checkpoint[call.op] \in Checkpoints
    BY <1>12, <2>1 DEF TypeInv, TypeOK, Phase, Requalify, Check, Qualified, Finalizing
  <2>4. pc' = "reconcile" => Packaged(call.op)
    BY <2>2, <2>3, DistinctAssumption DEF Packaged, Checkpoints
  <2>5. UNCHANGED <<world, journal, dirs, attempts, history>> /\ pc = "requalify"
    BY <1>12 DEF Requalify, Check
  <2> QED
    BY <2>1, <2>2, <2>3, <2>4, <2>5, DistinctAssumption
       DEF TypeInv, TypeOK, Phase, Packaged, Labels, Copying, Preparing, Filling,
           Packaging, Publishing, Qualified, Finalizing, world, journal, dirs, history
<1>13. CASE CheckDestination
  BY <1>13, Points, DistinctAssumption
     DEF TypeInv, TypeOK, Phase, Packaged, Calls, Checkpoints, Operations, Labels, Copying,
         Preparing, Filling, Packaging, Publishing, Qualified, Finalizing, CheckDestination,
         Check, Leave, world, journal, dirs, history
<1>14. CASE MakeAttempt
  <2>1. /\ pc # "idle" /\ call \in Calls /\ call # NoCall /\ call.op \in Operations
        /\ call.op.candidate \in Candidates
        /\ pc \in Copying \union Filling => call.attempt \in Attempts
    BY <1>14, Running DEF MakeAttempt, Check, Fresh
  <2>2. attempts[call.op] + 1 \in Attempts /\ attempts' \in [Operations -> 0..MaxAttempts]
    BY <1>14, <2>1, MaxAttemptsAssumption DEF TypeInv, TypeOK, Attempts, MakeAttempt, Fresh
  <2>3. call' \in Calls /\ call' # NoCall /\ call'.op = call.op /\ call'.attempt \in Attempts
    BY <1>14, <2>1, <2>2, DistinctAssumption DEF Calls, Attempts, MakeAttempt, Fresh
  <2>4. private' \in [Operations -> [Attempts -> Directories]]
    BY <1>14, <2>1, <2>2 DEF TypeInv, TypeOK, Directories, MakeAttempt
  <2> QED
    BY <1>14, <2>1, <2>2, <2>3, <2>4, DistinctAssumption
       DEF TypeInv, TypeOK, Phase, Packaged, Labels, Copying, Preparing, Filling,
           Packaging, Publishing, Qualified, Finalizing, MakeAttempt, Fresh, world, journal,
           dirs, history
<1>15. CASE Build
  <2>1. /\ pc # "idle" /\ call \in Calls /\ call # NoCall /\ call.op \in Operations
        /\ call.op.candidate \in Candidates
        /\ pc \in Copying \union Filling => call.attempt \in Attempts
    BY <1>15, Running DEF Build, Check, Fresh
  <2>2. call.attempt \in Attempts
    BY <1>15, <2>1 DEF Filling, Build
  <2>3. \E d \in Directories : private' = [private EXCEPT ![call.op][call.attempt] = d]
    BY <1>15, <2>1, <2>2 DEF Directories, Archives, Build
  <2>4. private' \in [Operations -> [Attempts -> Directories]]
    BY <2>1, <2>2, <2>3 DEF TypeInv, TypeOK
  <2> QED
    BY <1>15, <2>1, <2>2, <2>3, <2>4, DistinctAssumption
       DEF TypeInv, TypeOK, Phase, Packaged, Labels, Copying, Preparing, Filling,
           Packaging, Publishing, Qualified, Finalizing, Build, Check, Leave, world, journal,
           dirs, history
<1>16. CASE Inspect
  BY <1>16, Points, DistinctAssumption
     DEF TypeInv, TypeOK, Phase, Packaged, Calls, Checkpoints, Operations, Labels, Copying,
         Preparing, Filling, Packaging, Publishing, Qualified, Finalizing, Inspect, Check,
         Leave, world, journal, dirs, history
<1>17. CASE RecheckInputs
  BY <1>17, Points, DistinctAssumption
     DEF TypeInv, TypeOK, Phase, Packaged, Calls, Checkpoints, Operations, Labels, Copying,
         Preparing, Filling, Packaging, Publishing, Qualified, Finalizing, RecheckInputs,
         Check, Leave, Journaled, world, journal, dirs, history
<1>18. CASE Attach
  <2>1. /\ pc # "idle" /\ call \in Calls /\ call # NoCall /\ call.op \in Operations
        /\ call.op.candidate \in Candidates
        /\ pc \in Copying \union Filling => call.attempt \in Attempts
    BY <1>18, Running DEF Attach, Check, Fresh
  <2>2. call.attempt \in Attempts /\ call.report \in Reports
    BY <1>18, <2>1 DEF TypeInv, Phase, Filling, Packaging, Qualified, Attach
  <2>3. \E d \in Directories : private' = [private EXCEPT ![call.op][call.attempt] = d]
    BY <1>18, <2>1, <2>2 DEF TypeInv, TypeOK, Directories, Archives, Attach
  <2>4. private' \in [Operations -> [Attempts -> Directories]]
    BY <2>1, <2>2, <2>3 DEF TypeInv, TypeOK
  <2> QED
    BY <1>18, <2>1, <2>2, <2>3, <2>4, DistinctAssumption
       DEF TypeInv, TypeOK, Phase, Packaged, Labels, Copying, Preparing, Filling,
           Packaging, Publishing, Qualified, Finalizing, Attach, Check, Leave, world, journal,
           dirs, history
<1>19. CASE Seal
  <2>1. /\ pc # "idle" /\ call \in Calls /\ call # NoCall /\ call.op \in Operations
        /\ call.op.candidate \in Candidates
        /\ pc \in Copying \union Filling => call.attempt \in Attempts
    BY <1>19, Running DEF Seal, Check, Fresh
  <2>2. private[call.op][call.attempt] \in Directories
    BY <1>19, <2>1 DEF TypeInv, TypeOK, Filling, Seal
  <2>3. [call EXCEPT !.files = private[call.op][call.attempt]] \in Calls
    BY <2>1, <2>2 DEF Calls
  <2>4. \/ call' = [call EXCEPT !.files = private[call.op][call.attempt]] /\ pc' = "package"
        \/ call' = NoCall /\ pc' = "idle"
    BY <1>19 DEF Seal, Leave
  <2>5. pc' = "package" =>
          call'.attempt = call.attempt /\ call'.report = call.report /\ call'.op = call.op
    BY <2>1, <2>3, <2>4 DEF Calls
  <2> QED
    BY <1>19, <2>1, <2>2, <2>3, <2>4, <2>5, DistinctAssumption
       DEF TypeInv, TypeOK, Phase, Packaged, Labels, Copying, Preparing, Filling,
           Packaging, Publishing, Qualified, Finalizing, Seal, world, journal, dirs, history
<1>20. CASE WritePackaged
  <2>1. /\ pc # "idle" /\ call \in Calls /\ call # NoCall /\ call.op \in Operations
        /\ call.op.candidate \in Candidates
        /\ pc \in Copying \union Filling => call.attempt \in Attempts
    BY <1>20, Running DEF WritePackaged, Check, Fresh
  <2>2. checkpoint[call.op] \in Checkpoints
    BY <1>20, <2>1
       DEF TypeInv, TypeOK, Phase, WritePackaged, Filling, Packaging, Qualified, Finalizing
  <2>3. [checkpoint[call.op] EXCEPT !.state = "PACKAGED", !.archive = call.attempt,
                                  !.files = call.files, !.report = call.report] \in Checkpoints
    BY <2>1, <2>2 DEF Checkpoints, Calls
  <2>4. /\ checkpoint' = [checkpoint EXCEPT ![call.op] =
              [@ EXCEPT !.state = "PACKAGED", !.archive = call.attempt,
                        !.files = call.files, !.report = call.report]]
        /\ checkpoint' \in [Operations -> Checkpoints \union {NoCheckpoint}]
    BY <1>20, <2>1, <2>3 DEF TypeInv, TypeOK, WritePackaged
  <2>5. Packaged(call.op)'
    BY <1>20, <2>1, <2>2, <2>3, <2>4, DistinctAssumption
       DEF TypeInv, TypeOK, Packaged, Checkpoints, WritePackaged
  <2>6. call' = call
    BY <1>20 DEF WritePackaged
  <2> QED
    BY <1>20, <2>1, <2>2, <2>3, <2>4, <2>5, <2>6, DistinctAssumption
       DEF TypeInv, TypeOK, Phase, Packaged, Labels, Copying, Preparing, Filling,
           Packaging, Publishing, Qualified, Finalizing, WritePackaged, Check, Leave, world,
           journal, dirs, history
<1>21. CASE ReconcilePublished
  <2>1. /\ pc # "idle" /\ call \in Calls /\ call # NoCall /\ call.op \in Operations
        /\ call.op.candidate \in Candidates
        /\ pc \in Copying \union Filling => call.attempt \in Attempts
    BY <1>21, Running DEF ReconcilePublished, Check, Fresh
  <2>2. meddled' \in [Operations -> {"never", "before", "since"}]
    BY <1>21, <2>1 DEF TypeInv, TypeOK, ReconcilePublished
  <2>3. (pc' = "settle" /\ call' = call) \/ (pc' = "idle" /\ call' = NoCall)
    BY <1>21 DEF ReconcilePublished, Leave
  <2>4. pc = "reconcile" /\ UNCHANGED <<world, journal, dirs, attempts, faults, during>>
    BY <1>21 DEF ReconcilePublished
  <2> QED
    BY <2>1, <2>2, <2>3, <2>4, Points, DistinctAssumption
       DEF TypeInv, TypeOK, Phase, Packaged, Labels, Copying, Preparing, Filling,
           Packaging, Publishing, Qualified, Finalizing, world, journal, dirs
<1>22. CASE ReconcilePrivate
  BY <1>22, Points, DistinctAssumption
     DEF TypeInv, TypeOK, Phase, Packaged, Calls, Checkpoints, Operations, Labels, Copying,
         Preparing, Filling, Packaging, Publishing, Qualified, Finalizing, ReconcilePrivate,
         Check, Leave, Journaled, Source, world, journal, dirs, history
<1>23. CASE CheckArtifacts
  BY <1>23, Points, DistinctAssumption
     DEF TypeInv, TypeOK, Phase, Packaged, Calls, Checkpoints, Operations, Labels, Copying,
         Preparing, Filling, Packaging, Publishing, Qualified, Finalizing, CheckArtifacts,
         Check, Leave, world, journal, dirs, history
<1>24. CASE Move
  <2>1. /\ pc # "idle" /\ call \in Calls /\ call # NoCall /\ call.op \in Operations
        /\ call.op.candidate \in Candidates
        /\ pc \in Copying \union Filling => call.attempt \in Attempts
    BY <1>24, Running DEF Move, Check, Fresh
  <2>2. checkpoint[call.op] \in Checkpoints /\ checkpoint[call.op].archive \in Attempts
    BY <1>24, <2>1 DEF TypeInv, TypeOK, Phase, Move, Publishing, Qualified, Finalizing
  <2>3. private' \in [Operations -> [Attempts -> Directories]]
    BY <1>24, <2>1 DEF TypeInv, TypeOK, Directories, Move
  <2>4. Source(call.op) \in Directories
    BY <1>24, <2>1, <2>2 DEF TypeInv, TypeOK, Source
  <2>5. final' \in [Operations -> Directories]
    BY <1>24, <2>1, <2>4 DEF TypeInv, TypeOK, Move
  <2> QED
    BY <1>24, <2>1, <2>2, <2>3, <2>4, <2>5, DistinctAssumption
       DEF TypeInv, TypeOK, Phase, Packaged, Labels, Copying, Preparing, Filling,
           Packaging, Publishing, Qualified, Finalizing, Move, Check, Leave, world, journal,
           dirs, history
<1>25. CASE MoveFails
  BY <1>25, Points, DistinctAssumption
     DEF TypeInv, TypeOK, Phase, Packaged, Calls, Checkpoints, Operations, Labels, Copying,
         Preparing, Filling, Packaging, Publishing, Qualified, Finalizing, MoveFails, Leave,
         Source, world, journal, dirs, history
<1>26. CASE Confirm
  <2>1. /\ pc # "idle" /\ call \in Calls /\ call # NoCall /\ call.op \in Operations
        /\ call.op.candidate \in Candidates
        /\ pc \in Copying \union Filling => call.attempt \in Attempts
    BY <1>26, Running DEF Confirm, Check, Fresh
  <2>2. meddled' \in [Operations -> {"never", "before", "since"}]
    BY <1>26, <2>1 DEF TypeInv, TypeOK, Confirm
  <2>3. (pc' = "settle" /\ call' = call) \/ (pc' = "idle" /\ call' = NoCall)
    BY <1>26 DEF Confirm, Leave
  <2>4. pc = "confirm" /\ UNCHANGED <<world, journal, dirs, attempts, faults, during>>
    BY <1>26 DEF Confirm
  <2> QED
    BY <2>1, <2>2, <2>3, <2>4, Points, DistinctAssumption
       DEF TypeInv, TypeOK, Phase, Packaged, Labels, Copying, Preparing, Filling,
           Packaging, Publishing, Qualified, Finalizing, world, journal, dirs
<1>27. CASE WriteComplete
  <2>1. /\ pc # "idle" /\ call \in Calls /\ call # NoCall /\ call.op \in Operations
        /\ call.op.candidate \in Candidates
        /\ pc \in Copying \union Filling => call.attempt \in Attempts
    BY <1>27, Running DEF WriteComplete, Check, Fresh
  <2>2. checkpoint[call.op] \in Checkpoints
    BY <1>27, <2>1
       DEF TypeInv, TypeOK, Phase, WriteComplete, Publishing, Qualified, Finalizing
  <2>3. [checkpoint[call.op] EXCEPT !.state = "COMPLETE"] \in Checkpoints
    BY <2>2 DEF Checkpoints
  <2>4. checkpoint' \in [Operations -> Checkpoints \union {NoCheckpoint}]
    BY <1>27, <2>1, <2>3 DEF TypeInv, TypeOK, WriteComplete
  <2> QED
    BY <1>27, <2>1, <2>2, <2>3, <2>4, DistinctAssumption
       DEF TypeInv, TypeOK, Phase, Packaged, Labels, Copying, Preparing, Filling,
           Packaging, Publishing, Qualified, Finalizing, WriteComplete, Check, Leave, world,
           journal, dirs, history
<1>28. CASE Prepare
  <2>1. PICK o \in Operations : Begin(o, "current")
    BY <1>28 DEF TypeInv, TypeOK, Operations, Prepare
  <2>2. [op |-> o, attempt |-> 0, input |-> o.candidate, report |-> NoReport, files |-> NoDir] \in Calls
    BY MaxAttemptsAssumption DEF Calls, Operations, Directories
  <2>3. call' \in Calls /\ call' # NoCall /\ call'.op = o
    BY <2>1, <2>2, DistinctAssumption DEF Begin
  <2>4. during' \in [source : SUBSET Candidates, engine : SUBSET Engines, run : SUBSET Runs]
    BY <2>1 DEF TypeInv, TypeOK, Begin
  <2>5. UNCHANGED <<world, journal, dirs, attempts, faults, meddled>> /\ pc' = "current"
    BY <2>1 DEF Begin
  <2> QED
    BY <2>1, <2>3, <2>4, <2>5, Points
       DEF TypeInv, TypeOK, Phase, Packaged, Labels, Copying, Preparing, Filling,
           Packaging, Publishing, Qualified, Finalizing, world, journal, dirs
<1>29. CASE Finalize
  <2>1. PICK o \in Operations : Begin(o, "read") /\ checkpoint[o] # NoCheckpoint
    BY <1>29 DEF TypeInv, TypeOK, Operations, Finalize
  <2>2. [op |-> o, attempt |-> 0, input |-> o.candidate, report |-> NoReport, files |-> NoDir] \in Calls
    BY MaxAttemptsAssumption DEF Calls, Operations, Directories
  <2>3. call' \in Calls /\ call' # NoCall /\ call'.op = o
    BY <2>1, <2>2, DistinctAssumption DEF Begin
  <2>4. during' \in [source : SUBSET Candidates, engine : SUBSET Engines, run : SUBSET Runs]
    BY <2>1 DEF TypeInv, TypeOK, Begin
  <2>5. UNCHANGED <<world, journal, dirs, attempts, faults, meddled>> /\ pc' = "read"
    BY <2>1 DEF Begin
  <2> QED
    BY <2>1, <2>3, <2>4, <2>5, Points
       DEF TypeInv, TypeOK, Phase, Packaged, Labels, Copying, Preparing, Filling,
           Packaging, Publishing, Qualified, Finalizing, world, journal, dirs
<1>30. CASE Interrupted
  <2>1. faults' \in 0..MaxFaults
    BY <1>30, MaxFaultsAssumption DEF TypeInv, TypeOK, Interrupted, Fault
  <2> QED
    BY <1>30, <2>1
       DEF TypeInv, TypeOK, Phase, Packaged, Interrupted, Leave, world, journal, dirs,
           Labels, Copying, Preparing, Filling, Packaging, Publishing, Qualified, Finalizing
<1>31. CASE EditSource
  <2>1. during' \in [source : SUBSET Candidates, engine : SUBSET Engines, run : SUBSET Runs]
    BY <1>31 DEF TypeInv, TypeOK, EditSource
  <2>2. faults' \in 0..MaxFaults
    BY <1>31, MaxFaultsAssumption DEF TypeInv, TypeOK, EditSource, Fault
  <2> QED
    BY <1>31, <2>1, <2>2
       DEF TypeInv, TypeOK, Phase, Packaged, EditSource, Fault, world, journal, dirs
<1>32. CASE ChangeEngine
  <2>1. during' \in [source : SUBSET Candidates, engine : SUBSET Engines, run : SUBSET Runs]
    BY <1>32 DEF TypeInv, TypeOK, ChangeEngine
  <2>2. faults' \in 0..MaxFaults
    BY <1>32, MaxFaultsAssumption DEF TypeInv, TypeOK, ChangeEngine, Fault
  <2> QED
    BY <1>32, <2>1, <2>2
       DEF TypeInv, TypeOK, Phase, Packaged, ChangeEngine, Fault, world, journal, dirs
<1>33. CASE ChangeRun
  <2>1. during' \in [source : SUBSET Candidates, engine : SUBSET Engines, run : SUBSET Runs]
    BY <1>33 DEF TypeInv, TypeOK, ChangeRun
  <2>2. faults' \in 0..MaxFaults
    BY <1>33, MaxFaultsAssumption DEF TypeInv, TypeOK, ChangeRun, Fault
  <2> QED
    BY <1>33, <2>1, <2>2
       DEF TypeInv, TypeOK, Phase, Packaged, ChangeRun, Fault, world, journal, dirs
<1>34. ASSUME NEW o \in Operations, Meddle(o)
      PROVE  TypeInv'
  <2>1. faults' \in 0..MaxFaults
    BY <1>34, MaxFaultsAssumption DEF TypeInv, TypeOK, Meddle, Fault
  <2>2. meddled' \in [Operations -> {"never", "before", "since"}]
    BY <1>34 DEF TypeInv, TypeOK, Meddle
  <2>3. \A n \in 1..attempts[o] : n \in Attempts
    BY MaxAttemptsAssumption DEF TypeInv, TypeOK, Attempts
  <2>4. \A d \in Directories : Stripped(d) \in Directories
    BY DEF Stripped, Directories, Archives
  <2>5. prepared' \in [Operations -> [Attempts -> Copies]]
    <3>1. ASSUME NEW n \in 1..attempts[o], MeddlePrepared(o, n)
          PROVE  prepared' \in [Operations -> [Attempts -> Copies]]
      <4>1. PICK d \in {NoDir, Junk} : prepared' = [prepared EXCEPT ![o][n] = d]
        BY <3>1 DEF MeddlePrepared
      <4> QED
        BY <4>1, <2>3 DEF TypeInv, TypeOK, Copies
    <3> QED
      BY <1>34, <3>1 DEF TypeInv, TypeOK, Meddle, MeddlePrivate, MeddleFinal
  <2>6. private' \in [Operations -> [Attempts -> Directories]]
    <3>1. ASSUME NEW n \in 1..attempts[o], MeddlePrivate(o, n)
          PROVE  private' \in [Operations -> [Attempts -> Directories]]
      <4>1. n \in Attempts /\ private[o][n] \in Directories /\ final[o] \in Directories
        BY <3>1, <2>3 DEF TypeInv, TypeOK
      <4>2. PICK d \in {NoDir, Junk, Stripped(private[o][n]), final[o]} :
              private' = [private EXCEPT ![o][n] = d]
        BY <3>1 DEF MeddlePrivate
      <4>3. d \in Directories
        BY <4>1, <2>4 DEF Directories
      <4> QED
        BY <4>1, <4>2, <4>3 DEF TypeInv, TypeOK
    <3> QED
      BY <1>34, <3>1 DEF TypeInv, TypeOK, Meddle, MeddlePrepared, MeddleFinal
  <2>7. final' \in [Operations -> Directories]
    <3>1. ASSUME MeddleFinal(o)
          PROVE  final' \in [Operations -> Directories]
      <4>1. PICK d \in {NoDir, EmptyDir, Junk, Stripped(final[o])}
                         \union {private[o][n] : n \in 1..attempts[o]} :
              final' = [final EXCEPT ![o] = d]
        BY <3>1 DEF MeddleFinal
      <4>2. d \in Directories
        BY <2>3, <2>4 DEF TypeInv, TypeOK, Directories
      <4> QED
        BY <4>1, <4>2 DEF TypeInv, TypeOK
    <3> QED
      BY <1>34, <3>1 DEF TypeInv, TypeOK, Meddle, MeddlePrepared, MeddlePrivate
  <2> QED
    BY <1>34, <2>1, <2>2, <2>5, <2>6, <2>7
       DEF TypeInv, TypeOK, Phase, Packaged, Meddle, world, journal
<1>35. CASE UNCHANGED vars
  BY <1>35, Points, DistinctAssumption
     DEF TypeInv, TypeOK, Phase, Packaged, Calls, Checkpoints, Operations, Labels, Copying,
         Preparing, Filling, Packaging, Publishing, Qualified, Finalizing, world, journal,
         dirs, history, vars
<1> QED
  BY <1>1, <1>2, <1>3, <1>4, <1>5, <1>6, <1>7, <1>8, <1>9, <1>10, <1>11, <1>12, <1>13,
     <1>14, <1>15, <1>16, <1>17, <1>18, <1>19, <1>20, <1>21, <1>22, <1>23, <1>24, <1>25, <1>26,
     <1>27, <1>28, <1>29, <1>30, <1>31, <1>32, <1>33, <1>34, <1>35
     DEF Next, Step, PrepareStep, PackageStep, PublishStep, Outside

(* What is journaled and about to be journaled is the candidate. *)
LEMMA TestedStep ==
  ASSUME IInv, [Next]_vars
  PROVE  Tested'
<1>1. CASE CheckCurrent
  BY <1>1, Points, Running
     DEF IInv, TypeInv, TypeOK, Tested, TestedBytes, HoldsCandidate, Packaged, Copying,
         Filling, Packaging, Publishing, Qualified, CheckCurrent, Check, Leave, world, journal,
         history
<1>2. CASE CheckEngine
  BY <1>2, Points, Running
     DEF IInv, TypeInv, TypeOK, Tested, TestedBytes, HoldsCandidate, Packaged, Copying,
         Filling, Packaging, Publishing, Qualified, CheckEngine, Check, Leave, world, journal,
         history
<1>3. CASE WritePlan
  BY <1>3, Running
     DEF IInv, TypeInv, TypeOK, Tested, TestedBytes, HoldsCandidate, Packaged, Copying,
         Filling, Packaging, Publishing, Qualified, WritePlan, Leave, world, history
<1>4. CASE TakeInventory
  BY <1>4, Running
     DEF IInv, TypeInv, TypeOK, Tested, TestedBytes, HoldsCandidate, Packaged, Copying,
         Filling, Packaging, Publishing, Qualified, TakeInventory, world, journal, history
<1>5. CASE MakeCopy
  BY <1>5, Running
     DEF IInv, TypeInv, TypeOK, Tested, TestedBytes, HoldsCandidate, Packaged, Copying,
         Filling, Packaging, Publishing, Qualified, MakeCopy, Fresh, world, journal, history
<1>6. CASE Copy
  BY <1>6, Running
     DEF IInv, TypeInv, TypeOK, Tested, TestedBytes, HoldsCandidate, Packaged, Copying,
         Filling, Packaging, Publishing, Qualified, Copy, Leave, world, journal, history
<1>7. CASE VerifyCopy
  BY <1>7, Points, Running
     DEF IInv, TypeInv, TypeOK, Tested, TestedBytes, HoldsCandidate, Packaged, Copying,
         Filling, Packaging, Publishing, Qualified, VerifyCopy, PreparedIntact, Check, Fresh,
         Leave, Begin, Journaled, world, journal, history
<1>8. CASE WritePrepared
  BY <1>8, Running
     DEF IInv, TypeInv, TypeOK, Tested, TestedBytes, HoldsCandidate, Packaged, Copying,
         Filling, Packaging, Publishing, Qualified, WritePrepared, Leave, world, journal,
         history
<1>9. CASE ReadInputs
  BY <1>9, Running
     DEF IInv, TypeInv, TypeOK, Tested, TestedBytes, HoldsCandidate, Packaged, Copying,
         Filling, Packaging, Publishing, Qualified, ReadInputs, Check, Leave, Journaled, world,
         journal, history
<1>10. CASE Qualify
  <2>1. /\ pc # "idle" /\ call \in Calls /\ call.op \in Operations
        /\ checkpoint[call.op] \in Checkpoints \union {NoCheckpoint}
    BY <1>10, Running DEF IInv, Qualify
  <2>2. \/ pc' = "idle" /\ call' = NoCall
        \/ pc' = "evidence" /\ call' = [call EXCEPT !.report = [candidate |-> source, engine |-> engine, run |-> run]]
    BY <1>10 DEF Qualify, Leave
  <2>3. pc' = "evidence" =>
          /\ call'.op = call.op /\ call'.report = [candidate |-> source, engine |-> engine, run |-> run] /\ source = call.op.candidate
    BY <1>10, <2>1, <2>2 DEF Calls, Reports, Qualify, Leave
  <2>4. UNCHANGED <<world, journal, dirs, attempts, history>> /\ pc = "qualify"
    BY <1>10 DEF Qualify
  <2> QED
    BY <2>1, <2>2, <2>3, <2>4
       DEF IInv, Tested, TestedBytes, HoldsCandidate, Packaged, Copying, Filling,
           Packaging, Publishing, Qualified, world, journal, dirs, history
<1>11. CASE Evaluate
  <2>1. /\ pc # "idle" /\ call \in Calls /\ call.op \in Operations
        /\ checkpoint[call.op] \in Checkpoints \union {NoCheckpoint}
    BY <1>11, Running DEF IInv, Evaluate
  <2>2. \/ pc' = "idle" /\ call' = NoCall
        \/ pc' = "requalify" /\ call' = [call EXCEPT !.report.run = run]
    BY <1>11 DEF Evaluate, Leave
  <2>3. call.report \in Reports /\ (pc' = "requalify" =>
          /\ call'.op = call.op /\ call'.report.run = run /\ run \in Passing
          /\ call'.report.candidate = call.report.candidate
          /\ call'.report.engine = call.report.engine)
    BY <1>11, <2>1, <2>2 DEF IInv, TypeInv, Phase, Calls, Reports, Evaluate, Leave
  <2>4. UNCHANGED <<world, journal, dirs, attempts, history>> /\ pc = "evidence"
    BY <1>11 DEF Evaluate
  <2> QED
    BY <2>1, <2>2, <2>3, <2>4
       DEF IInv, Tested, TestedBytes, HoldsCandidate, Packaged, Copying, Filling,
           Packaging, Publishing, Qualified, world, journal, dirs, history
<1>12. CASE Requalify
  BY <1>12, Running
     DEF IInv, TypeInv, TypeOK, Tested, TestedBytes, HoldsCandidate, Packaged, Copying,
         Filling, Packaging, Publishing, Qualified, Requalify, Check, Leave, Journaled, world,
         journal, history
<1>13. CASE CheckDestination
  BY <1>13, Running
     DEF IInv, TypeInv, TypeOK, Tested, TestedBytes, HoldsCandidate, Packaged, Copying,
         Filling, Packaging, Publishing, Qualified, CheckDestination, Check, Leave, world,
         journal, history
<1>14. CASE MakeAttempt
  BY <1>14, Running
     DEF IInv, TypeInv, TypeOK, Tested, TestedBytes, HoldsCandidate, Packaged, Copying,
         Filling, Packaging, Publishing, Qualified, MakeAttempt, Fresh, world, journal, history
<1>15. CASE Build
  BY <1>15, Running
     DEF IInv, TypeInv, TypeOK, Tested, TestedBytes, HoldsCandidate, Packaged, Copying,
         Filling, Packaging, Publishing, Qualified, Build, Journaled, world, journal, history
<1>16. CASE Inspect
  BY <1>16, Running
     DEF IInv, TypeInv, TypeOK, Tested, TestedBytes, HoldsCandidate, Packaged, Copying,
         Filling, Packaging, Publishing, Qualified, Inspect, Check, Leave, world, journal,
         history
<1>17. CASE RecheckInputs
  BY <1>17, Running
     DEF IInv, TypeInv, TypeOK, Tested, TestedBytes, HoldsCandidate, Packaged, Copying,
         Filling, Packaging, Publishing, Qualified, RecheckInputs, Check, Leave, Journaled,
         world, journal, history
<1>18. CASE Attach
  BY <1>18, Running
     DEF IInv, TypeInv, TypeOK, Tested, TestedBytes, HoldsCandidate, Packaged, Copying,
         Filling, Packaging, Publishing, Qualified, Attach, world, journal, history
<1>19. CASE Seal
  <2>1. /\ pc # "idle" /\ call \in Calls /\ call.op \in Operations
        /\ checkpoint[call.op] \in Checkpoints \union {NoCheckpoint}
    BY <1>19, Running DEF IInv, Seal
  <2>2. \/ pc' = "idle" /\ call' = NoCall
        \/ pc' = "package" /\ call' = [call EXCEPT !.files = private[call.op][call.attempt]]
    BY <1>19 DEF Seal, Leave
  <2>3. pc' = "package" =>
          /\ call'.op = call.op /\ call'.report = call.report /\ call'.files = private[call.op][call.attempt]
          /\ call'.attempt = call.attempt /\ HoldsCandidate(call.op, call'.files)
    BY <1>19, <2>1, <2>2 DEF Calls, Seal, Leave
  <2>4. UNCHANGED <<world, journal, dirs, attempts, history>> /\ pc = "seal"
    BY <1>19 DEF Seal
  <2> QED
    BY <2>1, <2>2, <2>3, <2>4
       DEF IInv, Tested, TestedBytes, HoldsCandidate, Packaged, Copying, Filling,
           Packaging, Publishing, Qualified, world, journal, dirs, history
<1>20. CASE WritePackaged
  <2>1. /\ pc # "idle" /\ call \in Calls /\ call.op \in Operations
        /\ checkpoint[call.op] \in Checkpoints \union {NoCheckpoint}
    BY <1>20, Running DEF IInv, WritePackaged
  <2>2. checkpoint[call.op] \in Checkpoints /\ pc = "package" /\ pc' = "reconcile" /\ call' = call
    BY <1>20, <2>1
       DEF IInv, TypeInv, Phase, WritePackaged, Filling, Packaging, Qualified, Finalizing
  <2>3. /\ \A o \in Operations \ {call.op} : checkpoint'[o] = checkpoint[o]
        /\ checkpoint'[call.op] # NoCheckpoint
        /\ checkpoint'[call.op].state = "PACKAGED"
        /\ checkpoint'[call.op].archive = call.attempt
        /\ checkpoint'[call.op].input = checkpoint[call.op].input
        /\ checkpoint'[call.op].files = call.files
        /\ checkpoint'[call.op].report = call.report
    <3>1. checkpoint' = [checkpoint EXCEPT ![call.op] =
            [@ EXCEPT !.state = "PACKAGED", !.archive = call.attempt,
                      !.files = call.files, !.report = call.report]]
      BY <1>20 DEF WritePackaged
    <3>2. checkpoint'[call.op] \in Checkpoints
      BY <2>1, <2>2, <3>1 DEF IInv, TypeInv, TypeOK, Checkpoints, Calls
    <3> QED
      BY <2>1, <2>2, <3>1, <3>2, DistinctAssumption DEF IInv, TypeInv, TypeOK, Checkpoints
  <2>4. /\ call.report.candidate = call.op.candidate /\ call.report.run \in Passing
        /\ HoldsCandidate(call.op, call.files)
        /\ checkpoint[call.op].input = call.op.candidate
    BY <2>1, <2>2, DistinctAssumption
       DEF IInv, Tested, TestedBytes, Filling, Packaging, Qualified
  <2>5. TestedBytes'
    BY <2>1, <2>3, <2>4 DEF IInv, Tested, TestedBytes, Packaged, HoldsCandidate
  <2> QED
    BY <2>1, <2>2, <2>4, <2>5 DEF Tested, Copying, Filling, Packaging, Publishing, Qualified
<1>21. CASE ReconcilePublished
  BY <1>21, Running
     DEF IInv, TypeInv, TypeOK, Tested, TestedBytes, HoldsCandidate, Packaged, Copying,
         Filling, Packaging, Publishing, Qualified, ReconcilePublished, Leave, Journaled,
         world, journal
<1>22. CASE ReconcilePrivate
  BY <1>22, Running
     DEF IInv, TypeInv, TypeOK, Tested, TestedBytes, HoldsCandidate, Packaged, Copying,
         Filling, Packaging, Publishing, Qualified, ReconcilePrivate, Check, Leave, Journaled,
         world, journal, history
<1>23. CASE CheckArtifacts
  BY <1>23, Running
     DEF IInv, TypeInv, TypeOK, Tested, TestedBytes, HoldsCandidate, Packaged, Copying,
         Filling, Packaging, Publishing, Qualified, CheckArtifacts, Check, Leave, world,
         journal, history
<1>24. CASE Move
  BY <1>24, Running
     DEF IInv, TypeInv, TypeOK, Tested, TestedBytes, HoldsCandidate, Packaged, Copying,
         Filling, Packaging, Publishing, Qualified, Move, Journaled, world, journal, history
<1>25. CASE MoveFails
  BY <1>25, Running
     DEF IInv, TypeInv, TypeOK, Tested, TestedBytes, HoldsCandidate, Packaged, Copying,
         Filling, Packaging, Publishing, Qualified, MoveFails, Leave, world, journal, history
<1>26. CASE Confirm
  BY <1>26, Running
     DEF IInv, TypeInv, TypeOK, Tested, TestedBytes, HoldsCandidate, Packaged, Copying,
         Filling, Packaging, Publishing, Qualified, Confirm, Leave, Journaled, world, journal
<1>27. CASE WriteComplete
  <2>1. /\ pc # "idle" /\ call \in Calls /\ call.op \in Operations
        /\ checkpoint[call.op] \in Checkpoints \union {NoCheckpoint}
    BY <1>27, Running DEF IInv, WriteComplete
  <2>2. checkpoint[call.op] \in Checkpoints /\ pc = "complete" /\ pc' = "idle" /\ Packaged(call.op)
    BY <1>27, <2>1
       DEF IInv, TypeInv, Phase, WriteComplete, Leave, Publishing, Qualified, Finalizing
  <2>3. /\ \A o \in Operations \ {call.op} : checkpoint'[o] = checkpoint[o]
        /\ checkpoint'[call.op] # NoCheckpoint
        /\ checkpoint'[call.op] = [checkpoint[call.op] EXCEPT !.state = "COMPLETE"]
        /\ checkpoint'[call.op].state = "COMPLETE"
        /\ checkpoint'[call.op].archive = checkpoint[call.op].archive
        /\ checkpoint'[call.op].input = checkpoint[call.op].input
        /\ checkpoint'[call.op].files = checkpoint[call.op].files
        /\ checkpoint'[call.op].report = checkpoint[call.op].report
    <3>1. checkpoint' = [checkpoint EXCEPT ![call.op].state = "COMPLETE"]
      BY <1>27 DEF WriteComplete
    <3>2. [checkpoint[call.op] EXCEPT !.state = "COMPLETE"] \in Checkpoints
      BY <2>2 DEF Checkpoints
    <3> QED
      BY <2>1, <2>2, <3>1, <3>2, DistinctAssumption DEF IInv, TypeInv, TypeOK, Checkpoints
  <2>4. checkpoint[call.op] # NoCheckpoint
    BY <2>2 DEF Packaged
  <2>5. \A o \in Operations :
          /\ Packaged(o)' => Packaged(o)
          /\ checkpoint'[o] # NoCheckpoint => checkpoint[o] # NoCheckpoint
          /\ checkpoint'[o].input = checkpoint[o].input
          /\ checkpoint'[o].files = checkpoint[o].files
          /\ checkpoint'[o].report = checkpoint[o].report
    BY <2>1, <2>2, <2>3, <2>4 DEF Packaged
  <2>6. TestedBytes'
    BY <2>5 DEF IInv, Tested, TestedBytes, HoldsCandidate
  <2> QED
    BY <2>2, <2>6 DEF Tested, Copying, Filling, Packaging, Publishing, Qualified
<1>28. CASE Prepare
  BY <1>28, Running
     DEF IInv, TypeInv, TypeOK, Tested, TestedBytes, HoldsCandidate, Packaged, Copying,
         Filling, Packaging, Publishing, Qualified, Prepare, Begin, world, journal
<1>29. CASE Finalize
  BY <1>29, Running
     DEF IInv, TypeInv, TypeOK, Tested, TestedBytes, HoldsCandidate, Packaged, Copying,
         Filling, Packaging, Publishing, Qualified, Finalize, Begin, world, journal
<1>30. CASE Interrupted
  BY <1>30, Running
     DEF IInv, TypeInv, TypeOK, Tested, TestedBytes, HoldsCandidate, Packaged, Copying,
         Filling, Packaging, Publishing, Qualified, Interrupted, Leave, world, journal
<1>31. CASE EditSource
  BY <1>31, Running
     DEF IInv, TypeInv, TypeOK, Tested, TestedBytes, HoldsCandidate, Packaged, Copying,
         Filling, Packaging, Publishing, Qualified, EditSource, journal
<1>32. CASE ChangeEngine
  BY <1>32, Running
     DEF IInv, TypeInv, TypeOK, Tested, TestedBytes, HoldsCandidate, Packaged, Copying,
         Filling, Packaging, Publishing, Qualified, ChangeEngine, journal
<1>33. CASE ChangeRun
  BY <1>33, Running
     DEF IInv, TypeInv, TypeOK, Tested, TestedBytes, HoldsCandidate, Packaged, Copying,
         Filling, Packaging, Publishing, Qualified, ChangeRun, journal
<1>34. ASSUME NEW o \in Operations, Meddle(o)
      PROVE  Tested'
  BY <1>34, Running
     DEF IInv, TypeInv, TypeOK, Tested, TestedBytes, HoldsCandidate, Packaged, Copying,
         Filling, Packaging, Publishing, Qualified, Meddle, world, journal
<1>35. CASE UNCHANGED vars
  BY <1>35, Running
     DEF IInv, TypeInv, TypeOK, Tested, TestedBytes, HoldsCandidate, Packaged, Copying,
         Filling, Packaging, Publishing, Qualified, world, journal, history, vars
<1> QED
  BY <1>1, <1>2, <1>3, <1>4, <1>5, <1>6, <1>7, <1>8, <1>9, <1>10, <1>11, <1>12, <1>13,
     <1>14, <1>15, <1>16, <1>17, <1>18, <1>19, <1>20, <1>21, <1>22, <1>23, <1>24, <1>25, <1>26,
     <1>27, <1>28, <1>29, <1>30, <1>31, <1>32, <1>33, <1>34, <1>35
     DEF Next, Step, PrepareStep, PackageStep, PublishStep, Outside

(* The report names what was there during the call. *)
LEMMA WatchedStep ==
  ASSUME IInv, [Next]_vars
  PROVE  Watched'
<1>1. CASE CheckCurrent
  BY <1>1, Points, Running
     DEF IInv, TypeInv, TypeOK, Watched, Packaged, Reports, Copying, Filling, Packaging,
         Publishing, Qualified, CheckCurrent, Check, Leave, world, journal, history
<1>2. CASE CheckEngine
  BY <1>2, Points, Running
     DEF IInv, TypeInv, TypeOK, Watched, Packaged, Reports, Copying, Filling, Packaging,
         Publishing, Qualified, CheckEngine, Check, Leave, world, journal, history
<1>3. CASE WritePlan
  BY <1>3, Running
     DEF IInv, TypeInv, TypeOK, Watched, Packaged, Reports, Copying, Filling, Packaging,
         Publishing, Qualified, WritePlan, Leave, world, history
<1>4. CASE TakeInventory
  BY <1>4, Running
     DEF IInv, TypeInv, TypeOK, Watched, Packaged, Reports, Copying, Filling, Packaging,
         Publishing, Qualified, TakeInventory, world, journal, history
<1>5. CASE MakeCopy
  BY <1>5, Running
     DEF IInv, TypeInv, TypeOK, Watched, Packaged, Reports, Copying, Filling, Packaging,
         Publishing, Qualified, MakeCopy, Fresh, world, journal, history
<1>6. CASE Copy
  BY <1>6, Running
     DEF IInv, TypeInv, TypeOK, Watched, Packaged, Reports, Copying, Filling, Packaging,
         Publishing, Qualified, Copy, Leave, world, journal, history
<1>7. CASE VerifyCopy
  BY <1>7, Running
     DEF IInv, TypeInv, TypeOK, Watched, Packaged, Reports, Copying, Filling, Packaging,
         Publishing, Qualified, VerifyCopy, Check, Leave, world, journal, history
<1>8. CASE WritePrepared
  BY <1>8, Running
     DEF IInv, TypeInv, TypeOK, Watched, Packaged, Reports, Copying, Filling, Packaging,
         Publishing, Qualified, WritePrepared, Leave, world, journal, history
<1>9. CASE ReadInputs
  BY <1>9, Running
     DEF IInv, TypeInv, TypeOK, Watched, Packaged, Reports, Copying, Filling, Packaging,
         Publishing, Qualified, ReadInputs, Check, Leave, Journaled, world, journal, history
<1>10. CASE Qualify
  <2>1. /\ pc # "idle" /\ call \in Calls /\ call.op \in Operations
        /\ checkpoint[call.op] \in Checkpoints \union {NoCheckpoint}
    BY <1>10, Running DEF IInv, Qualify
  <2>2. \/ pc' = "idle" /\ call' = NoCall
        \/ pc' = "evidence" /\ call' = [call EXCEPT !.report = [candidate |-> source, engine |-> engine, run |-> run]]
    BY <1>10 DEF Qualify, Leave
  <2>3. pc' = "evidence" =>
          /\ call'.op = call.op /\ call'.report = [candidate |-> source, engine |-> engine, run |-> run] /\ source = call.op.candidate
    BY <1>10, <2>1, <2>2 DEF Calls, Reports, Qualify, Leave
  <2>4. UNCHANGED <<world, journal, dirs, attempts, history>> /\ pc = "qualify"
    BY <1>10 DEF Qualify
  <2> QED
    BY <2>1, <2>2, <2>3, <2>4
       DEF IInv, Watched, Copying, Filling, Packaging, Publishing, Qualified, world,
           journal, dirs, history
<1>11. CASE Evaluate
  <2>1. /\ pc # "idle" /\ call \in Calls /\ call.op \in Operations
        /\ checkpoint[call.op] \in Checkpoints \union {NoCheckpoint}
    BY <1>11, Running DEF IInv, Evaluate
  <2>2. \/ pc' = "idle" /\ call' = NoCall
        \/ pc' = "requalify" /\ call' = [call EXCEPT !.report.run = run]
    BY <1>11 DEF Evaluate, Leave
  <2>3. call.report \in Reports /\ (pc' = "requalify" =>
          /\ call'.op = call.op /\ call'.report.run = run /\ run \in Passing
          /\ call'.report.candidate = call.report.candidate
          /\ call'.report.engine = call.report.engine)
    BY <1>11, <2>1, <2>2 DEF IInv, TypeInv, Phase, Calls, Reports, Evaluate, Leave
  <2>4. UNCHANGED <<world, journal, dirs, attempts, history>> /\ pc = "evidence"
    BY <1>11 DEF Evaluate
  <2> QED
    BY <2>1, <2>2, <2>3, <2>4
       DEF IInv, Watched, Copying, Filling, Packaging, Publishing, Qualified, world,
           journal, dirs, history
<1>12. CASE Requalify
  BY <1>12, Running
     DEF IInv, TypeInv, TypeOK, Watched, Packaged, Reports, Copying, Filling, Packaging,
         Publishing, Qualified, Requalify, Check, Leave, Journaled, world, journal, history
<1>13. CASE CheckDestination
  BY <1>13, Running
     DEF IInv, TypeInv, TypeOK, Watched, Packaged, Reports, Copying, Filling, Packaging,
         Publishing, Qualified, CheckDestination, Check, Leave, world, journal, history
<1>14. CASE MakeAttempt
  BY <1>14, Running
     DEF IInv, TypeInv, TypeOK, Watched, Packaged, Reports, Copying, Filling, Packaging,
         Publishing, Qualified, MakeAttempt, Fresh, world, journal, history
<1>15. CASE Build
  BY <1>15, Running
     DEF IInv, TypeInv, TypeOK, Watched, Packaged, Reports, Copying, Filling, Packaging,
         Publishing, Qualified, Build, Journaled, world, journal, history
<1>16. CASE Inspect
  BY <1>16, Running
     DEF IInv, TypeInv, TypeOK, Watched, Packaged, Reports, Copying, Filling, Packaging,
         Publishing, Qualified, Inspect, Check, Leave, world, journal, history
<1>17. CASE RecheckInputs
  BY <1>17, Running
     DEF IInv, TypeInv, TypeOK, Watched, Packaged, Reports, Copying, Filling, Packaging,
         Publishing, Qualified, RecheckInputs, Check, Leave, Journaled, world, journal, history
<1>18. CASE Attach
  BY <1>18, Running
     DEF IInv, TypeInv, TypeOK, Watched, Packaged, Reports, Copying, Filling, Packaging,
         Publishing, Qualified, Attach, world, journal, history
<1>19. CASE Seal
  <2>1. /\ pc # "idle" /\ call \in Calls /\ call.op \in Operations
        /\ checkpoint[call.op] \in Checkpoints \union {NoCheckpoint}
    BY <1>19, Running DEF IInv, Seal
  <2>2. \/ pc' = "idle" /\ call' = NoCall
        \/ pc' = "package" /\ call' = [call EXCEPT !.files = private[call.op][call.attempt]]
    BY <1>19 DEF Seal, Leave
  <2>3. pc' = "package" =>
          /\ call'.op = call.op /\ call'.report = call.report /\ call'.files = private[call.op][call.attempt]
          /\ call'.attempt = call.attempt /\ HoldsCandidate(call.op, call'.files)
    BY <1>19, <2>1, <2>2 DEF Calls, Seal, Leave
  <2>4. UNCHANGED <<world, journal, dirs, attempts, history>> /\ pc = "seal"
    BY <1>19 DEF Seal
  <2> QED
    BY <2>1, <2>2, <2>3, <2>4
       DEF IInv, Watched, Copying, Filling, Packaging, Publishing, Qualified, world,
           journal, dirs, history
<1>20. CASE WritePackaged
  BY <1>20, Running
     DEF IInv, TypeInv, TypeOK, Watched, Packaged, Reports, Copying, Filling, Packaging,
         Publishing, Qualified, WritePackaged, world, history
<1>21. CASE ReconcilePublished
  BY <1>21, Running
     DEF IInv, TypeInv, TypeOK, Watched, Packaged, Reports, Copying, Filling, Packaging,
         Publishing, Qualified, ReconcilePublished, Leave, Journaled, world, journal
<1>22. CASE ReconcilePrivate
  BY <1>22, Running
     DEF IInv, TypeInv, TypeOK, Watched, Packaged, Reports, Copying, Filling, Packaging,
         Publishing, Qualified, ReconcilePrivate, Check, Leave, Journaled, world, journal,
         history
<1>23. CASE CheckArtifacts
  BY <1>23, Running
     DEF IInv, TypeInv, TypeOK, Watched, Packaged, Reports, Copying, Filling, Packaging,
         Publishing, Qualified, CheckArtifacts, Check, Leave, world, journal, history
<1>24. CASE Move
  BY <1>24, Running
     DEF IInv, TypeInv, TypeOK, Watched, Packaged, Reports, Copying, Filling, Packaging,
         Publishing, Qualified, Move, Journaled, world, journal, history
<1>25. CASE MoveFails
  BY <1>25, Running
     DEF IInv, TypeInv, TypeOK, Watched, Packaged, Reports, Copying, Filling, Packaging,
         Publishing, Qualified, MoveFails, Leave, world, journal, history
<1>26. CASE Confirm
  BY <1>26, Running
     DEF IInv, TypeInv, TypeOK, Watched, Packaged, Reports, Copying, Filling, Packaging,
         Publishing, Qualified, Confirm, Leave, Journaled, world, journal
<1>27. CASE WriteComplete
  BY <1>27, Running
     DEF IInv, TypeInv, TypeOK, Watched, Packaged, Reports, Copying, Filling, Packaging,
         Publishing, Qualified, WriteComplete, Leave, world, history
<1>28. CASE Prepare
  BY <1>28, Running
     DEF IInv, TypeInv, TypeOK, Watched, Packaged, Reports, Copying, Filling, Packaging,
         Publishing, Qualified, Prepare, Begin, world, journal
<1>29. CASE Finalize
  BY <1>29, Running
     DEF IInv, TypeInv, TypeOK, Watched, Packaged, Reports, Copying, Filling, Packaging,
         Publishing, Qualified, Finalize, Begin, world, journal
<1>30. CASE Interrupted
  BY <1>30, Running
     DEF IInv, TypeInv, TypeOK, Watched, Packaged, Reports, Copying, Filling, Packaging,
         Publishing, Qualified, Interrupted, Leave, Fault, world, journal
<1>31. CASE EditSource
  BY <1>31, Running
     DEF IInv, TypeInv, TypeOK, Watched, Packaged, Reports, Copying, Filling, Packaging,
         Publishing, Qualified, EditSource, Fault, journal
<1>32. CASE ChangeEngine
  BY <1>32, Running
     DEF IInv, TypeInv, TypeOK, Watched, Packaged, Reports, Copying, Filling, Packaging,
         Publishing, Qualified, ChangeEngine, Fault, journal
<1>33. CASE ChangeRun
  BY <1>33, Running
     DEF IInv, TypeInv, TypeOK, Watched, Packaged, Reports, Copying, Filling, Packaging,
         Publishing, Qualified, ChangeRun, Fault, journal
<1>34. ASSUME NEW o \in Operations, Meddle(o)
      PROVE  Watched'
  BY <1>34, Running
     DEF IInv, TypeInv, TypeOK, Watched, Packaged, Reports, Copying, Filling, Packaging,
         Publishing, Qualified, Meddle, Fault, world, journal
<1>35. CASE UNCHANGED vars
  BY <1>35, Running
     DEF IInv, TypeInv, TypeOK, Watched, Packaged, Reports, Copying, Filling, Packaging,
         Publishing, Qualified, world, journal, history, vars
<1> QED
  BY <1>1, <1>2, <1>3, <1>4, <1>5, <1>6, <1>7, <1>8, <1>9, <1>10, <1>11, <1>12, <1>13,
     <1>14, <1>15, <1>16, <1>17, <1>18, <1>19, <1>20, <1>21, <1>22, <1>23, <1>24, <1>25, <1>26,
     <1>27, <1>28, <1>29, <1>30, <1>31, <1>32, <1>33, <1>34, <1>35
     DEF Next, Step, PrepareStep, PackageStep, PublishStep, Outside

(* The archive is where the journal says, unless others moved it. *)
LEMMA PlacedStep ==
  ASSUME IInv, [Next]_vars
  PROVE  Placed'
<1>1. CASE CheckCurrent
  BY <1>1, Points, Running
     DEF IInv, TypeInv, TypeOK, Placed, CallPlace, PlaceFacts, Packaged, Source,
         CheckCurrent, Check, Leave, world, journal, dirs, history
<1>2. CASE CheckEngine
  BY <1>2, Points, Running
     DEF IInv, TypeInv, TypeOK, Placed, CallPlace, PlaceFacts, Packaged, Source,
         CheckEngine, Check, Leave, world, journal, dirs, history
<1>3. CASE WritePlan
  BY <1>3, Running
     DEF IInv, TypeInv, TypeOK, Placed, CallPlace, PlaceFacts, Packaged, Source, WritePlan,
         Leave, world, dirs, history
<1>4. CASE TakeInventory
  BY <1>4, Running
     DEF IInv, TypeInv, TypeOK, Placed, CallPlace, PlaceFacts, Packaged, Source,
         TakeInventory, world, journal, dirs, history
<1>5. CASE MakeCopy
  BY <1>5, Running
     DEF IInv, TypeInv, TypeOK, Placed, CallPlace, PlaceFacts, Packaged, Source, MakeCopy,
         Fresh, world, journal, history
<1>6. CASE Copy
  BY <1>6, Running
     DEF IInv, TypeInv, TypeOK, Placed, CallPlace, PlaceFacts, Packaged, Source, Copy,
         Leave, world, journal, history
<1>7. CASE VerifyCopy
  BY <1>7, Running
     DEF IInv, TypeInv, TypeOK, Placed, CallPlace, PlaceFacts, Packaged, Source,
         VerifyCopy, Check, Leave, world, journal, dirs, history
<1>8. CASE WritePrepared
  <2>1. /\ pc # "idle" /\ call \in Calls /\ call.op \in Operations
        /\ checkpoint[call.op] \in Checkpoints \union {NoCheckpoint}
    BY <1>8, Running DEF IInv, WritePrepared
  <2>2. /\ \A o \in Operations \ {call.op} : checkpoint'[o] = checkpoint[o]
        /\ checkpoint'[call.op].state = "PREPARED"
        /\ ~Packaged(call.op)
        /\ pc' = "idle"
    BY <1>8, <2>1
       DEF IInv, TypeInv, TypeOK, Phase, Packaged, Copying, Preparing, WritePrepared, Leave
  <2>3. UNCHANGED <<dirs, meddled>>
    BY <1>8 DEF WritePrepared, history
  <2> QED
    BY <2>1, <2>2, <2>3 DEF IInv, Placed, CallPlace, PlaceFacts, Packaged, Source, dirs
<1>9. CASE ReadInputs
  BY <1>9, Running
     DEF IInv, TypeInv, TypeOK, Placed, CallPlace, PlaceFacts, Packaged, Source,
         ReadInputs, Check, Leave, Journaled, world, journal, dirs, history
<1>10. CASE Qualify
  BY <1>10, Running
     DEF IInv, TypeInv, TypeOK, Placed, CallPlace, PlaceFacts, Packaged, Source, Qualify,
         Leave, world, journal, dirs, history
<1>11. CASE Evaluate
  BY <1>11, Running
     DEF IInv, TypeInv, TypeOK, Placed, CallPlace, PlaceFacts, Packaged, Source, Evaluate,
         Leave, world, journal, dirs, history
<1>12. CASE Requalify
  BY <1>12, Running
     DEF IInv, TypeInv, TypeOK, Placed, CallPlace, PlaceFacts, Packaged, Source, Requalify,
         Check, Leave, Journaled, world, journal, dirs, history
<1>13. CASE CheckDestination
  BY <1>13, Running
     DEF IInv, TypeInv, TypeOK, Placed, CallPlace, PlaceFacts, Packaged, Source,
         CheckDestination, Check, Leave, world, journal, dirs, history
<1>14. CASE MakeAttempt
  <2>1. /\ pc # "idle" /\ call \in Calls /\ call.op \in Operations
        /\ checkpoint[call.op] \in Checkpoints \union {NoCheckpoint}
    BY <1>14, Running DEF IInv, MakeAttempt, Fresh
  <2>2. ~Packaged(call.op) /\ call.op = call'.op /\ pc' = "build" /\ pc = "attempt"
    BY <1>14, <2>1
       DEF IInv, TypeInv, Phase, Packaged, Filling, Packaging, Calls, MakeAttempt, Fresh
  <2>3. \A o \in Operations \ {call.op} : private'[o] = private[o]
    BY <1>14, <2>1 DEF IInv, TypeInv, TypeOK, MakeAttempt
  <2>4. UNCHANGED <<journal, final, meddled>>
    BY <1>14 DEF MakeAttempt, history
  <2>6. \A o \in Operations : PlaceFacts(o)'
    BY <2>1, <2>2, <2>3, <2>4
       DEF IInv, Placed, CallPlace, PlaceFacts, Packaged, Source, journal
  <2> QED
    BY <2>2, <2>6 DEF Placed, CallPlace
<1>15. CASE Build
  <2>1. /\ pc # "idle" /\ call \in Calls /\ call.op \in Operations
        /\ checkpoint[call.op] \in Checkpoints \union {NoCheckpoint}
    BY <1>15, Running DEF IInv, Build
  <2>2. ~Packaged(call.op) /\ call.op = call'.op /\ pc' = "inspect" /\ pc = "build"
    BY <1>15, <2>1
       DEF IInv, TypeInv, Phase, Packaged, Filling, Packaging, Calls, Build, Fresh
  <2>3. \A o \in Operations \ {call.op} : private'[o] = private[o]
    BY <1>15, <2>1 DEF IInv, TypeInv, TypeOK, Build
  <2>4. UNCHANGED <<journal, final, meddled>>
    BY <1>15 DEF Build, history
  <2>6. \A o \in Operations : PlaceFacts(o)'
    BY <2>1, <2>2, <2>3, <2>4
       DEF IInv, Placed, CallPlace, PlaceFacts, Packaged, Source, journal
  <2> QED
    BY <2>2, <2>6 DEF Placed, CallPlace
<1>16. CASE Inspect
  BY <1>16, Running
     DEF IInv, TypeInv, TypeOK, Placed, CallPlace, PlaceFacts, Packaged, Source, Inspect,
         Check, Leave, world, journal, dirs, history
<1>17. CASE RecheckInputs
  BY <1>17, Running
     DEF IInv, TypeInv, TypeOK, Placed, CallPlace, PlaceFacts, Packaged, Source,
         RecheckInputs, Check, Leave, Journaled, world, journal, dirs, history
<1>18. CASE Attach
  <2>1. /\ pc # "idle" /\ call \in Calls /\ call.op \in Operations
        /\ checkpoint[call.op] \in Checkpoints \union {NoCheckpoint}
    BY <1>18, Running DEF IInv, Attach
  <2>2. ~Packaged(call.op) /\ call.op = call'.op /\ pc' = "seal" /\ pc = "attach"
    BY <1>18, <2>1
       DEF IInv, TypeInv, Phase, Packaged, Filling, Packaging, Calls, Attach, Fresh
  <2>3. \A o \in Operations \ {call.op} : private'[o] = private[o]
    BY <1>18, <2>1 DEF IInv, TypeInv, TypeOK, Attach
  <2>5. /\ call' = call
        /\ private'[call.op][call.attempt] \in Archives =>
             private'[call.op][call.attempt].report = call.report
    <3>1. call.attempt \in Attempts
      BY <1>18, <2>1, Running DEF IInv, Attach, Filling
    <3>2. private'[call.op][call.attempt] =
            IF private[call.op][call.attempt] \in Archives
              THEN [private[call.op][call.attempt] EXCEPT !.report = call.report] ELSE Junk
      BY <1>18, <2>1, <3>1 DEF IInv, TypeInv, TypeOK, Attach
    <3> QED
      BY <1>18, <3>2, DistinctAssumption DEF Archives, Attach
  <2>4. UNCHANGED <<journal, final, meddled>>
    BY <1>18 DEF Attach, history
  <2>6. \A o \in Operations : PlaceFacts(o)'
    BY <2>1, <2>2, <2>3, <2>4
       DEF IInv, Placed, CallPlace, PlaceFacts, Packaged, Source, journal
  <2> QED
    BY <2>2, <2>6, <2>5 DEF Placed, CallPlace
<1>19. CASE Seal
  <2>1. /\ pc # "idle" /\ call \in Calls /\ call.op \in Operations
        /\ checkpoint[call.op] \in Checkpoints \union {NoCheckpoint}
    BY <1>19, Running DEF IInv, Seal
  <2>2. \/ pc' = "idle" /\ call' = NoCall
        \/ pc' = "package" /\ call' = [call EXCEPT !.files = private[call.op][call.attempt]]
    BY <1>19 DEF Seal, Leave
  <2>3. pc' = "package" =>
          /\ call'.op = call.op /\ call'.report = call.report /\ call'.files = private[call.op][call.attempt]
          /\ call'.attempt = call.attempt /\ HoldsCandidate(call.op, call'.files)
    BY <1>19, <2>1, <2>2 DEF Calls, Seal, Leave
  <2>4. UNCHANGED <<world, journal, dirs, attempts, history>> /\ pc = "seal"
    BY <1>19 DEF Seal
  <2> QED
    BY <2>1, <2>2, <2>3, <2>4
       DEF IInv, Placed, CallPlace, PlaceFacts, Packaged, Source, HoldsCandidate, world,
           journal, dirs, history
<1>20. CASE WritePackaged
  <2>1. /\ pc # "idle" /\ call \in Calls /\ call.op \in Operations
        /\ checkpoint[call.op] \in Checkpoints \union {NoCheckpoint}
    BY <1>20, Running DEF IInv, WritePackaged
  <2>2. checkpoint[call.op] \in Checkpoints /\ pc = "package" /\ pc' = "reconcile" /\ call' = call
    BY <1>20, <2>1
       DEF IInv, TypeInv, Phase, WritePackaged, Filling, Packaging, Qualified, Finalizing
  <2>3. /\ \A o \in Operations \ {call.op} : checkpoint'[o] = checkpoint[o]
        /\ checkpoint'[call.op] # NoCheckpoint
        /\ checkpoint'[call.op].state = "PACKAGED"
        /\ checkpoint'[call.op].archive = call.attempt
        /\ checkpoint'[call.op].input = checkpoint[call.op].input
        /\ checkpoint'[call.op].files = call.files
        /\ checkpoint'[call.op].report = call.report
    <3>1. checkpoint' = [checkpoint EXCEPT ![call.op] =
            [@ EXCEPT !.state = "PACKAGED", !.archive = call.attempt,
                      !.files = call.files, !.report = call.report]]
      BY <1>20 DEF WritePackaged
    <3>2. checkpoint'[call.op] \in Checkpoints
      BY <2>1, <2>2, <3>1 DEF IInv, TypeInv, TypeOK, Checkpoints, Calls
    <3> QED
      BY <2>1, <2>2, <3>1, <3>2, DistinctAssumption DEF IInv, TypeInv, TypeOK, Checkpoints
  <2>4. UNCHANGED <<dirs, meddled>> /\ ~Packaged(call.op)
    BY <1>20, <2>2
       DEF IInv, TypeInv, Phase, Packaged, Filling, Packaging, WritePackaged, history
  <2>5. \A o \in Operations \ {call.op} : PlaceFacts(o)'
    BY <2>1, <2>3, <2>4 DEF IInv, Placed, CallPlace, PlaceFacts, Packaged, Source, dirs
  <2>6. HoldsCandidate(call.op, call.files) /\ call.files # NoDir
    BY <2>2, DistinctAssumption DEF IInv, Tested, HoldsCandidate
  <2>7. PlaceFacts(call.op)'
    BY <2>1, <2>2, <2>3, <2>4, <2>6
       DEF IInv, Placed, CallPlace, PlaceFacts, Packaged, Source, dirs
  <2> QED
    BY <2>1, <2>2, <2>5, <2>7 DEF Placed, CallPlace
<1>21. CASE ReconcilePublished
  <2>1. /\ pc # "idle" /\ call \in Calls /\ call.op \in Operations
        /\ checkpoint[call.op] \in Checkpoints \union {NoCheckpoint}
    BY <1>21, Running DEF IInv, ReconcilePublished
  <2>2. /\ Packaged(call.op) /\ UNCHANGED <<journal, dirs>> /\ pc = "reconcile"
        /\ (pc' = "settle" /\ call' = call) \/ (pc' = "idle" /\ UNCHANGED meddled)
    BY <1>21 DEF IInv, TypeInv, Phase, Publishing, ReconcilePublished, Leave
  <2>3. /\ \A o \in Operations \ {call.op} : meddled'[o] = meddled[o]
        /\ meddled'[call.op] # meddled[call.op] => meddled'[call.op] = "before"
        /\ meddled'[call.op] = "before" => final[call.op] = checkpoint[call.op].files
        /\ pc' = "settle" => final[call.op] = checkpoint[call.op].files
    BY <1>21, <2>1
       DEF IInv, TypeInv, TypeOK, Placed, PlaceFacts, ReconcilePublished, Journaled, Leave
  <2>4. checkpoint[call.op].files # NoDir
    BY <2>1, <2>2, DistinctAssumption DEF IInv, Tested, TestedBytes, HoldsCandidate
  <2> QED
    BY <2>1, <2>2, <2>3, <2>4
       DEF IInv, Placed, CallPlace, PlaceFacts, Packaged, Source, journal, dirs
<1>22. CASE ReconcilePrivate
  BY <1>22, Running
     DEF IInv, TypeInv, TypeOK, Placed, CallPlace, PlaceFacts, Packaged, Source,
         ReconcilePrivate, Check, Leave, Journaled, world, journal, dirs, history
<1>23. CASE CheckArtifacts
  BY <1>23, Running
     DEF IInv, TypeInv, TypeOK, Placed, CallPlace, PlaceFacts, Packaged, Source,
         CheckArtifacts, Check, Leave, world, journal, dirs, history
<1>24. CASE Move
  <2>1. /\ pc # "idle" /\ call \in Calls /\ call.op \in Operations
        /\ checkpoint[call.op] \in Checkpoints \union {NoCheckpoint}
    BY <1>24, Running DEF IInv, Move
  <2>2. /\ Packaged(call.op) /\ UNCHANGED <<journal, meddled, call>> /\ pc' = "confirm"
        /\ Source(call.op) # NoDir /\ final[call.op] \in {NoDir, EmptyDir}
        /\ checkpoint[call.op].archive \in Attempts
    BY <1>24, <2>1 DEF IInv, TypeInv, Phase, Publishing, Move, history
  <2>3. /\ \A o \in Operations \ {call.op} : private'[o] = private[o] /\ final'[o] = final[o]
        /\ final'[call.op] = Source(call.op)
        /\ private'[call.op][checkpoint[call.op].archive] = NoDir
    BY <1>24, <2>1, <2>2 DEF IInv, TypeInv, TypeOK, Journaled, Move
  <2>4. checkpoint[call.op].files \notin {NoDir, EmptyDir}
    BY <2>1, <2>2, DistinctAssumption DEF IInv, Tested, TestedBytes, HoldsCandidate
  <2>5. \A o \in Operations \ {call.op} : PlaceFacts(o)'
    BY <2>1, <2>2, <2>3 DEF IInv, Placed, CallPlace, PlaceFacts, Packaged, Source, journal
  <2>6. PlaceFacts(call.op)'
    <3>1. meddled[call.op] # "before" /\ (meddled[call.op] = "never" => final[call.op] = NoDir)
      BY <2>1, <2>2, <2>4 DEF IInv, Placed, PlaceFacts
    <3>2. CASE meddled[call.op] = "never"
      <4>1. Source(call.op) = checkpoint[call.op].files
        BY <2>1, <2>2, <3>2 DEF IInv, Placed, PlaceFacts
      <4>2. Source(call.op)' = NoDir /\ final'[call.op] = checkpoint'[call.op].files
        BY <2>2, <2>3, <4>1 DEF Source, journal
      <4> QED
        BY <2>1, <2>2, <2>4, <3>2, <4>2 DEF IInv, Placed, PlaceFacts, Packaged, journal
    <3>3. CASE meddled[call.op] = "since"
      BY <2>2, <3>3 DEF PlaceFacts
    <3> QED
      BY <2>1, <3>1, <3>2, <3>3 DEF IInv, TypeInv, TypeOK
  <2> QED
    BY <2>1, <2>2, <2>5, <2>6 DEF Placed, CallPlace
<1>25. CASE MoveFails
  BY <1>25, Running
     DEF IInv, TypeInv, TypeOK, Placed, CallPlace, PlaceFacts, Packaged, Source, MoveFails,
         Leave, world, journal, dirs, history
<1>26. CASE Confirm
  <2>1. /\ pc # "idle" /\ call \in Calls /\ call.op \in Operations
        /\ checkpoint[call.op] \in Checkpoints \union {NoCheckpoint}
    BY <1>26, Running DEF IInv, Confirm
  <2>2. /\ Packaged(call.op) /\ UNCHANGED <<journal, dirs>> /\ pc = "confirm"
        /\ (pc' = "settle" /\ call' = call) \/ (pc' = "idle" /\ UNCHANGED meddled)
    BY <1>26 DEF IInv, TypeInv, Phase, Publishing, Confirm, Leave
  <2>3. /\ \A o \in Operations \ {call.op} : meddled'[o] = meddled[o]
        /\ meddled'[call.op] # meddled[call.op] => meddled'[call.op] = "before"
        /\ meddled'[call.op] = "before" => final[call.op] = checkpoint[call.op].files
        /\ pc' = "settle" => final[call.op] = checkpoint[call.op].files
    BY <1>26, <2>1 DEF IInv, TypeInv, TypeOK, Placed, PlaceFacts, Confirm, Journaled, Leave
  <2>4. checkpoint[call.op].files # NoDir
    BY <2>1, <2>2, DistinctAssumption DEF IInv, Tested, TestedBytes, HoldsCandidate
  <2> QED
    BY <2>1, <2>2, <2>3, <2>4
       DEF IInv, Placed, CallPlace, PlaceFacts, Packaged, Source, journal, dirs
<1>27. CASE WriteComplete
  <2>1. /\ pc # "idle" /\ call \in Calls /\ call.op \in Operations
        /\ checkpoint[call.op] \in Checkpoints \union {NoCheckpoint}
    BY <1>27, Running DEF IInv, WriteComplete
  <2>2. checkpoint[call.op] \in Checkpoints /\ pc = "complete" /\ pc' = "idle" /\ Packaged(call.op)
    BY <1>27, <2>1
       DEF IInv, TypeInv, Phase, WriteComplete, Leave, Publishing, Qualified, Finalizing
  <2>3. /\ \A o \in Operations \ {call.op} : checkpoint'[o] = checkpoint[o]
        /\ checkpoint'[call.op] # NoCheckpoint
        /\ checkpoint'[call.op] = [checkpoint[call.op] EXCEPT !.state = "COMPLETE"]
        /\ checkpoint'[call.op].state = "COMPLETE"
        /\ checkpoint'[call.op].archive = checkpoint[call.op].archive
        /\ checkpoint'[call.op].input = checkpoint[call.op].input
        /\ checkpoint'[call.op].files = checkpoint[call.op].files
        /\ checkpoint'[call.op].report = checkpoint[call.op].report
    <3>1. checkpoint' = [checkpoint EXCEPT ![call.op].state = "COMPLETE"]
      BY <1>27 DEF WriteComplete
    <3>2. [checkpoint[call.op] EXCEPT !.state = "COMPLETE"] \in Checkpoints
      BY <2>2 DEF Checkpoints
    <3> QED
      BY <2>1, <2>2, <3>1, <3>2, DistinctAssumption DEF IInv, TypeInv, TypeOK, Checkpoints
  <2>4. UNCHANGED <<dirs, meddled>>
    BY <1>27 DEF WriteComplete, history
  <2>5. checkpoint[call.op].files # NoDir
    BY <2>1, <2>2, DistinctAssumption DEF IInv, Tested, TestedBytes, HoldsCandidate
  <2>6. \A o \in Operations \ {call.op} : PlaceFacts(o)'
    BY <2>1, <2>3, <2>4 DEF IInv, Placed, CallPlace, PlaceFacts, Packaged, Source, dirs
  <2>7. meddled[call.op] # "since" => final[call.op] = checkpoint[call.op].files
    BY <2>2 DEF IInv, Placed, CallPlace
  <2>8. \A o \in Operations : o = call.op => PlaceFacts(o)'
    <3> TAKE o \in Operations
    <3> HAVE o = call.op
    <3>1. Packaged(o) /\ Packaged(o)' /\ Source(o)' = Source(o)
      BY <2>2, <2>3, <2>4 DEF Packaged, Source, dirs
    <3>2. meddled'[o] = meddled[o] /\ final'[o] = final[o]
      BY <2>4 DEF dirs
    <3>3. PlaceFacts(o)
      BY DEF IInv, Placed
    <3> QED
      BY <2>3, <2>5, <2>7, <3>1, <3>2, <3>3 DEF PlaceFacts
  <2> QED
    BY <2>1, <2>2, <2>6, <2>8 DEF Placed, CallPlace
<1>28. CASE Prepare
  BY <1>28, Running
     DEF IInv, TypeInv, TypeOK, Placed, CallPlace, PlaceFacts, Packaged, Source, Prepare,
         Begin, world, journal, dirs
<1>29. CASE Finalize
  BY <1>29, Running
     DEF IInv, TypeInv, TypeOK, Placed, CallPlace, PlaceFacts, Packaged, Source, Finalize,
         Begin, world, journal, dirs
<1>30. CASE Interrupted
  BY <1>30, Running
     DEF IInv, TypeInv, TypeOK, Placed, CallPlace, PlaceFacts, Packaged, Source,
         Interrupted, Leave, world, journal, dirs
<1>31. CASE EditSource
  BY <1>31, Running
     DEF IInv, TypeInv, TypeOK, Placed, CallPlace, PlaceFacts, Packaged, Source,
         EditSource, journal, dirs
<1>32. CASE ChangeEngine
  BY <1>32, Running
     DEF IInv, TypeInv, TypeOK, Placed, CallPlace, PlaceFacts, Packaged, Source,
         ChangeEngine, journal, dirs
<1>33. CASE ChangeRun
  BY <1>33, Running
     DEF IInv, TypeInv, TypeOK, Placed, CallPlace, PlaceFacts, Packaged, Source, ChangeRun,
         journal, dirs
<1>34. ASSUME NEW o \in Operations, Meddle(o)
      PROVE  Placed'
  <2>1. /\ UNCHANGED <<journal, pc, call>>
        /\ meddled' = [meddled EXCEPT ![o] = "since"] /\ o \in DOMAIN meddled
        /\ \A p \in Operations \ {o} : private'[p] = private[p] /\ final'[p] = final[p]
    BY <1>34 DEF IInv, TypeInv, TypeOK, Meddle, MeddlePrepared, MeddlePrivate, MeddleFinal
  <2>2. pc # "idle" => call.op \in Operations
    BY Running DEF IInv
  <2> QED
    BY <2>1, <2>2
       DEF IInv, TypeInv, TypeOK, Placed, CallPlace, PlaceFacts, Packaged, Source, journal
<1>35. CASE UNCHANGED vars
  BY <1>35, Running
     DEF IInv, TypeInv, TypeOK, Placed, CallPlace, PlaceFacts, Packaged, Source, world,
         journal, dirs, history, vars
<1> QED
  BY <1>1, <1>2, <1>3, <1>4, <1>5, <1>6, <1>7, <1>8, <1>9, <1>10, <1>11, <1>12, <1>13,
     <1>14, <1>15, <1>16, <1>17, <1>18, <1>19, <1>20, <1>21, <1>22, <1>23, <1>24, <1>25, <1>26,
     <1>27, <1>28, <1>29, <1>30, <1>31, <1>32, <1>33, <1>34, <1>35
     DEF Next, Step, PrepareStep, PackageStep, PublishStep, Outside

LEMMA InitInv == Init => IInv
<1> SUFFICES ASSUME Init PROVE IInv
  OBVIOUS
<1>1. TypeOK
  BY MaxAttemptsAssumption, MaxFaultsAssumption
     DEF Init, TypeOK, Labels, Operations, Copies, Directories, Reports
<1>2. Phase
  BY DEF Init, Phase, Packaged, Copying, Preparing, Filling, Packaging, Publishing,
         Qualified, Finalizing
<1>3. Tested /\ Watched /\ Placed
  BY DEF Init, Tested, TestedBytes, Watched, Placed, PlaceFacts, CallPlace, Packaged,
         Filling, Packaging, Publishing, Qualified
<1> QED
  BY <1>1, <1>2, <1>3 DEF IInv, TypeInv

THEOREM Invariance == Spec => []IInv
<1>1. IInv /\ [Next]_vars => IInv'
  BY TypeStep, TestedStep, WatchedStep, PlacedStep DEF IInv
<1> QED
  BY InitInv, <1>1, PTL DEF Spec

(* Every variable keeps its type. *)
THEOREM TypeCorrect == Spec => []TypeOK
<1>1. IInv => TypeOK
  BY DEF IInv, TypeInv
<1> QED
  BY <1>1, Invariance, PTL

(* What is journaled is the captured and tested candidate. *)
THEOREM TestedBytesHolds == Spec => []TestedBytes
<1>1. IInv => TestedBytes
  BY DEF IInv, Tested
<1> QED
  BY <1>1, Invariance, PTL

(* A published directory that nobody else changed is the journaled archive *)
(* and the only one.                                                       *)
THEOREM PublishedHolds == Spec => []Published
<1>1. IInv => Published
  BY DEF IInv, Placed, PlaceFacts, Published
<1> QED
  BY <1>1, Invariance, PTL

(* No step of a call changes anything but its own attempt and the move. *)
LEMMA KeepsStep ==
  ASSUME IInv, [Next]_vars
  PROVE  KeepsOthers
<1>1. CASE CheckCurrent
  BY <1>1 DEF KeepsOthers, CheckCurrent, Check, dirs
<1>2. CASE CheckEngine
  BY <1>2 DEF KeepsOthers, CheckEngine, Check, dirs
<1>3. CASE WritePlan
  BY <1>3 DEF KeepsOthers, WritePlan, dirs
<1>4. CASE TakeInventory
  BY <1>4 DEF KeepsOthers, TakeInventory, dirs
<1>5. CASE MakeCopy
  <2>1. /\ pc # "idle" /\ call \in Calls /\ call.op \in Operations
        /\ checkpoint[call.op] \in Checkpoints \union {NoCheckpoint}
    BY <1>5, Running DEF IInv, MakeCopy, Fresh
  <2>2. UNCHANGED final /\ (pc \in Packaging => ~Packaged(call.op))
    BY <1>5, <2>1 DEF IInv, TypeInv, Phase, Packaged, MakeCopy
  <2>3. \A o \in Operations, n \in Attempts :
          /\ prepared'[o][n] # prepared[o][n] => Own(o, n)
          /\ private'[o][n] # private[o][n] => Own(o, n) /\ pc \in Packaging
    BY <1>5, <2>1 DEF IInv, TypeInv, TypeOK, Own, Filling, Packaging, MakeCopy, Fresh, Leave
  <2> QED
    BY <2>1, <2>2, <2>3 DEF KeepsOthers, Own
<1>6. CASE Copy
  <2>1. /\ pc # "idle" /\ call \in Calls /\ call.op \in Operations
        /\ checkpoint[call.op] \in Checkpoints \union {NoCheckpoint}
    BY <1>6, Running DEF IInv, Copy, Fresh
  <2>2. UNCHANGED final /\ (pc \in Packaging => ~Packaged(call.op))
    BY <1>6, <2>1 DEF IInv, TypeInv, Phase, Packaged, Copy
  <2>3. \A o \in Operations, n \in Attempts :
          /\ prepared'[o][n] # prepared[o][n] => Own(o, n)
          /\ private'[o][n] # private[o][n] => Own(o, n) /\ pc \in Packaging
    BY <1>6, <2>1 DEF IInv, TypeInv, TypeOK, Own, Filling, Packaging, Copy, Fresh, Leave
  <2> QED
    BY <2>1, <2>2, <2>3 DEF KeepsOthers, Own
<1>7. CASE VerifyCopy
  BY <1>7 DEF KeepsOthers, VerifyCopy, Check, dirs
<1>8. CASE WritePrepared
  BY <1>8 DEF KeepsOthers, WritePrepared, dirs
<1>9. CASE ReadInputs
  BY <1>9 DEF KeepsOthers, ReadInputs, Check, dirs
<1>10. CASE Qualify
  BY <1>10 DEF KeepsOthers, Qualify, dirs
<1>11. CASE Evaluate
  BY <1>11 DEF KeepsOthers, Evaluate, dirs
<1>12. CASE Requalify
  BY <1>12 DEF KeepsOthers, Requalify, Check, dirs
<1>13. CASE CheckDestination
  BY <1>13 DEF KeepsOthers, CheckDestination, Check, dirs
<1>14. CASE MakeAttempt
  <2>1. /\ pc # "idle" /\ call \in Calls /\ call.op \in Operations
        /\ checkpoint[call.op] \in Checkpoints \union {NoCheckpoint}
    BY <1>14, Running DEF IInv, MakeAttempt, Fresh
  <2>2. UNCHANGED final /\ (pc \in Packaging => ~Packaged(call.op))
    BY <1>14, <2>1 DEF IInv, TypeInv, Phase, Packaged, MakeAttempt
  <2>3. \A o \in Operations, n \in Attempts :
          /\ prepared'[o][n] # prepared[o][n] => Own(o, n)
          /\ private'[o][n] # private[o][n] => Own(o, n) /\ pc \in Packaging
    BY <1>14, <2>1
       DEF IInv, TypeInv, TypeOK, Own, Filling, Packaging, MakeAttempt, Fresh, Leave
  <2> QED
    BY <2>1, <2>2, <2>3 DEF KeepsOthers, Own
<1>15. CASE Build
  <2>1. /\ pc # "idle" /\ call \in Calls /\ call.op \in Operations
        /\ checkpoint[call.op] \in Checkpoints \union {NoCheckpoint}
    BY <1>15, Running DEF IInv, Build, Fresh
  <2>2. UNCHANGED final /\ (pc \in Packaging => ~Packaged(call.op))
    BY <1>15, <2>1 DEF IInv, TypeInv, Phase, Packaged, Build
  <2>3. \A o \in Operations, n \in Attempts :
          /\ prepared'[o][n] # prepared[o][n] => Own(o, n)
          /\ private'[o][n] # private[o][n] => Own(o, n) /\ pc \in Packaging
    BY <1>15, <2>1 DEF IInv, TypeInv, TypeOK, Own, Filling, Packaging, Build, Fresh, Leave
  <2> QED
    BY <2>1, <2>2, <2>3 DEF KeepsOthers, Own
<1>16. CASE Inspect
  BY <1>16 DEF KeepsOthers, Inspect, Check, dirs
<1>17. CASE RecheckInputs
  BY <1>17 DEF KeepsOthers, RecheckInputs, Check, dirs
<1>18. CASE Attach
  <2>1. /\ pc # "idle" /\ call \in Calls /\ call.op \in Operations
        /\ checkpoint[call.op] \in Checkpoints \union {NoCheckpoint}
    BY <1>18, Running DEF IInv, Attach, Fresh
  <2>2. UNCHANGED final /\ (pc \in Packaging => ~Packaged(call.op))
    BY <1>18, <2>1 DEF IInv, TypeInv, Phase, Packaged, Attach
  <2>3. \A o \in Operations, n \in Attempts :
          /\ prepared'[o][n] # prepared[o][n] => Own(o, n)
          /\ private'[o][n] # private[o][n] => Own(o, n) /\ pc \in Packaging
    BY <1>18, <2>1 DEF IInv, TypeInv, TypeOK, Own, Filling, Packaging, Attach, Fresh, Leave
  <2> QED
    BY <2>1, <2>2, <2>3 DEF KeepsOthers, Own
<1>19. CASE Seal
  BY <1>19 DEF KeepsOthers, Seal, dirs
<1>20. CASE WritePackaged
  BY <1>20 DEF KeepsOthers, WritePackaged, dirs
<1>21. CASE ReconcilePublished
  BY <1>21 DEF KeepsOthers, ReconcilePublished, dirs
<1>22. CASE ReconcilePrivate
  BY <1>22 DEF KeepsOthers, ReconcilePrivate, Check, dirs
<1>23. CASE CheckArtifacts
  BY <1>23 DEF KeepsOthers, CheckArtifacts, Check, dirs
<1>24. CASE Move
  <2>1. /\ pc # "idle" /\ call \in Calls /\ call.op \in Operations
        /\ checkpoint[call.op] \in Checkpoints \union {NoCheckpoint}
    BY <1>24, Running DEF IInv, Move
  <2>2. Packaged(call.op) /\ final[call.op] \in {NoDir, EmptyDir} /\ UNCHANGED prepared
    BY <1>24 DEF IInv, TypeInv, Phase, Publishing, Move
  <2>3. \A o \in Operations :
          /\ final'[o] # final[o] => o = call.op
          /\ \A n \in Attempts :
               private'[o][n] # private[o][n] =>
                 /\ o = call.op /\ n = checkpoint[o].archive
                 /\ private'[o][n] = NoDir /\ final'[o] = private[o][n]
    BY <1>24, <2>1 DEF IInv, TypeInv, TypeOK, Source, Journaled, Move
  <2> QED
    BY <2>2, <2>3 DEF KeepsOthers
<1>25. CASE MoveFails
  BY <1>25 DEF KeepsOthers, MoveFails, dirs
<1>26. CASE Confirm
  BY <1>26 DEF KeepsOthers, Confirm, dirs
<1>27. CASE WriteComplete
  BY <1>27 DEF KeepsOthers, WriteComplete, dirs
<1>28. CASE Prepare
  BY <1>28 DEF KeepsOthers, Prepare, Begin, dirs
<1>29. CASE Finalize
  BY <1>29 DEF KeepsOthers, Finalize, Begin, dirs
<1>30. CASE Interrupted
  BY <1>30 DEF KeepsOthers, Interrupted, dirs
<1>31. CASE EditSource
  BY <1>31 DEF KeepsOthers, EditSource, dirs
<1>32. CASE ChangeEngine
  BY <1>32 DEF KeepsOthers, ChangeEngine, dirs
<1>33. CASE ChangeRun
  BY <1>33 DEF KeepsOthers, ChangeRun, dirs
<1>34. ASSUME NEW o \in Operations, Meddle(o)
      PROVE  KeepsOthers
  BY <1>34 DEF KeepsOthers, Meddle
<1>35. CASE UNCHANGED vars
  BY <1>35 DEF KeepsOthers, dirs, vars
<1> QED
  BY <1>1, <1>2, <1>3, <1>4, <1>5, <1>6, <1>7, <1>8, <1>9, <1>10, <1>11, <1>12, <1>13,
     <1>14, <1>15, <1>16, <1>17, <1>18, <1>19, <1>20, <1>21, <1>22, <1>23, <1>24, <1>25, <1>26,
     <1>27, <1>28, <1>29, <1>30, <1>31, <1>32, <1>33, <1>34, <1>35
     DEF Next, Step, PrepareStep, PackageStep, PublishStep, Outside

(* What is published or completed is named by this call's report. *)
LEMMA FreshStep ==
  ASSUME IInv, [Next]_vars
  PROVE  PublishesFresh
<1>1. CASE CheckCurrent
  BY <1>1, Points DEF PublishesFresh, CheckCurrent, Check, dirs, journal
<1>2. CASE CheckEngine
  BY <1>2, Points DEF PublishesFresh, CheckEngine, Check, dirs, journal
<1>3. CASE WritePlan
  BY <1>3 DEF PublishesFresh, WritePlan, dirs
<1>4. CASE TakeInventory
  BY <1>4 DEF PublishesFresh, TakeInventory, dirs, journal
<1>5. CASE MakeCopy
  BY <1>5 DEF PublishesFresh, MakeCopy, Fresh, journal
<1>6. CASE Copy
  BY <1>6 DEF PublishesFresh, Copy, journal
<1>7. CASE VerifyCopy
  BY <1>7 DEF PublishesFresh, VerifyCopy, Check, dirs, journal
<1>8. CASE WritePrepared
  BY <1>8 DEF PublishesFresh, WritePrepared, dirs, journal
<1>9. CASE ReadInputs
  BY <1>9 DEF PublishesFresh, ReadInputs, Check, Journaled, dirs, journal
<1>10. CASE Qualify
  BY <1>10 DEF PublishesFresh, Qualify, dirs, journal
<1>11. CASE Evaluate
  BY <1>11 DEF PublishesFresh, Evaluate, dirs, journal
<1>12. CASE Requalify
  BY <1>12 DEF PublishesFresh, Requalify, Check, Journaled, dirs, journal
<1>13. CASE CheckDestination
  BY <1>13 DEF PublishesFresh, CheckDestination, Check, dirs, journal
<1>14. CASE MakeAttempt
  BY <1>14 DEF PublishesFresh, MakeAttempt, Fresh, journal
<1>15. CASE Build
  BY <1>15 DEF PublishesFresh, Build, Journaled, journal
<1>16. CASE Inspect
  BY <1>16 DEF PublishesFresh, Inspect, Check, dirs, journal
<1>17. CASE RecheckInputs
  BY <1>17 DEF PublishesFresh, RecheckInputs, Check, Journaled, dirs, journal
<1>18. CASE Attach
  BY <1>18 DEF PublishesFresh, Attach, journal
<1>19. CASE Seal
  BY <1>19 DEF PublishesFresh, Seal, dirs, journal
<1>20. CASE WritePackaged
  BY <1>20 DEF PublishesFresh, WritePackaged, dirs
<1>21. CASE ReconcilePublished
  BY <1>21 DEF PublishesFresh, ReconcilePublished, Journaled, dirs, journal
<1>22. CASE ReconcilePrivate
  BY <1>22 DEF PublishesFresh, ReconcilePrivate, Check, Journaled, dirs, journal
<1>23. CASE CheckArtifacts
  BY <1>23 DEF PublishesFresh, CheckArtifacts, Check, dirs, journal
<1>24. CASE Move
  <2>1. /\ pc # "idle" /\ call \in Calls /\ call.op \in Operations
        /\ checkpoint[call.op] \in Checkpoints \union {NoCheckpoint}
    BY <1>24, Running DEF IInv, Move
  <2>2. /\ \A o \in Operations : final'[o] # final[o] => o = call.op
        /\ pc = "move" /\ UNCHANGED checkpoint
    BY <1>24, <2>1 DEF IInv, TypeInv, TypeOK, Move, journal
  <2> QED
    BY <2>1, <2>2 DEF IInv, Watched, PublishesFresh, Publishing, Qualified
<1>25. CASE MoveFails
  BY <1>25 DEF PublishesFresh, MoveFails, dirs, journal
<1>26. CASE Confirm
  BY <1>26 DEF PublishesFresh, Confirm, Journaled, dirs, journal
<1>27. CASE WriteComplete
  <2>1. /\ pc # "idle" /\ call \in Calls /\ call.op \in Operations
        /\ checkpoint[call.op] \in Checkpoints \union {NoCheckpoint}
    BY <1>27, Running DEF IInv, WriteComplete
  <2>2. checkpoint[call.op] \in Checkpoints /\ pc = "complete" /\ pc' = "idle" /\ Packaged(call.op)
    BY <1>27, <2>1
       DEF IInv, TypeInv, Phase, WriteComplete, Leave, Publishing, Qualified, Finalizing
  <2>3. /\ \A o \in Operations \ {call.op} : checkpoint'[o] = checkpoint[o]
        /\ checkpoint'[call.op] # NoCheckpoint
        /\ checkpoint'[call.op] = [checkpoint[call.op] EXCEPT !.state = "COMPLETE"]
        /\ checkpoint'[call.op].state = "COMPLETE"
        /\ checkpoint'[call.op].archive = checkpoint[call.op].archive
        /\ checkpoint'[call.op].input = checkpoint[call.op].input
        /\ checkpoint'[call.op].files = checkpoint[call.op].files
        /\ checkpoint'[call.op].report = checkpoint[call.op].report
    <3>1. checkpoint' = [checkpoint EXCEPT ![call.op].state = "COMPLETE"]
      BY <1>27 DEF WriteComplete
    <3>2. [checkpoint[call.op] EXCEPT !.state = "COMPLETE"] \in Checkpoints
      BY <2>2 DEF Checkpoints
    <3> QED
      BY <2>1, <2>2, <3>1, <3>2, DistinctAssumption DEF IInv, TypeInv, TypeOK, Checkpoints
  <2>4. UNCHANGED final
    BY <1>27 DEF WriteComplete, dirs
  <2> QED
    BY <2>1, <2>2, <2>3, <2>4 DEF IInv, Watched, PublishesFresh, Publishing, Qualified
<1>28. CASE Prepare
  BY <1>28 DEF PublishesFresh, Prepare, Begin, dirs, journal
<1>29. CASE Finalize
  BY <1>29 DEF PublishesFresh, Finalize, Begin, dirs, journal
<1>30. CASE Interrupted
  BY <1>30 DEF PublishesFresh, Interrupted, Fault, dirs, journal
<1>31. CASE EditSource
  BY <1>31 DEF PublishesFresh, EditSource, Fault, dirs, journal
<1>32. CASE ChangeEngine
  BY <1>32 DEF PublishesFresh, ChangeEngine, Fault, dirs, journal
<1>33. CASE ChangeRun
  BY <1>33 DEF PublishesFresh, ChangeRun, Fault, dirs, journal
<1>34. ASSUME NEW o \in Operations, Meddle(o)
      PROVE  PublishesFresh
  BY <1>34 DEF PublishesFresh, Meddle, Fault, journal
<1>35. CASE UNCHANGED vars
  BY <1>35 DEF PublishesFresh, dirs, journal, vars
<1> QED
  BY <1>1, <1>2, <1>3, <1>4, <1>5, <1>6, <1>7, <1>8, <1>9, <1>10, <1>11, <1>12, <1>13,
     <1>14, <1>15, <1>16, <1>17, <1>18, <1>19, <1>20, <1>21, <1>22, <1>23, <1>24, <1>25, <1>26,
     <1>27, <1>28, <1>29, <1>30, <1>31, <1>32, <1>33, <1>34, <1>35
     DEF Next, Step, PrepareStep, PackageStep, PublishStep, Outside

(* The journal only goes forward. *)
LEMMA AdvanceStep ==
  ASSUME IInv, [Next]_vars
  PROVE  Advances
<1>1. CASE CheckCurrent
  BY <1>1 DEF Advances, CheckCurrent, Check, journal
<1>2. CASE CheckEngine
  BY <1>2 DEF Advances, CheckEngine, Check, journal
<1>3. CASE WritePlan
  BY <1>3 DEF Advances, WritePlan
<1>4. CASE TakeInventory
  BY <1>4 DEF Advances, TakeInventory, journal
<1>5. CASE MakeCopy
  BY <1>5 DEF Advances, MakeCopy, journal
<1>6. CASE Copy
  BY <1>6 DEF Advances, Copy, journal
<1>7. CASE VerifyCopy
  BY <1>7 DEF Advances, VerifyCopy, Check, journal
<1>8. CASE WritePrepared
  <2>1. /\ pc # "idle" /\ call \in Calls /\ call.op \in Operations
        /\ checkpoint[call.op] \in Checkpoints \union {NoCheckpoint}
    BY <1>8, Running DEF IInv, WritePrepared
  <2>2. checkpoint[call.op] = NoCheckpoint
    BY <1>8 DEF IInv, TypeInv, Phase, Copying, Preparing, WritePrepared
  <2>3. \A o \in Operations : o # call.op => checkpoint'[o] = checkpoint[o]
    BY <1>8, <2>1 DEF IInv, TypeInv, TypeOK, WritePrepared
  <2> QED
    BY <2>2, <2>3 DEF Advances
<1>9. CASE ReadInputs
  BY <1>9 DEF Advances, ReadInputs, Check, journal
<1>10. CASE Qualify
  BY <1>10 DEF Advances, Qualify, journal
<1>11. CASE Evaluate
  BY <1>11 DEF Advances, Evaluate, journal
<1>12. CASE Requalify
  BY <1>12 DEF Advances, Requalify, Check, journal
<1>13. CASE CheckDestination
  BY <1>13 DEF Advances, CheckDestination, Check, journal
<1>14. CASE MakeAttempt
  BY <1>14 DEF Advances, MakeAttempt, journal
<1>15. CASE Build
  BY <1>15 DEF Advances, Build, journal
<1>16. CASE Inspect
  BY <1>16 DEF Advances, Inspect, Check, journal
<1>17. CASE RecheckInputs
  BY <1>17 DEF Advances, RecheckInputs, Check, journal
<1>18. CASE Attach
  BY <1>18 DEF Advances, Attach, journal
<1>19. CASE Seal
  BY <1>19 DEF Advances, Seal, journal
<1>20. CASE WritePackaged
  <2>1. /\ pc # "idle" /\ call \in Calls /\ call.op \in Operations
        /\ checkpoint[call.op] \in Checkpoints \union {NoCheckpoint}
    BY <1>20, Running DEF IInv, WritePackaged
  <2>2. checkpoint[call.op] \in Checkpoints /\ pc = "package" /\ pc' = "reconcile" /\ call' = call
    BY <1>20, <2>1
       DEF IInv, TypeInv, Phase, WritePackaged, Filling, Packaging, Qualified, Finalizing
  <2>3. /\ \A o \in Operations \ {call.op} : checkpoint'[o] = checkpoint[o]
        /\ checkpoint'[call.op] # NoCheckpoint
        /\ checkpoint'[call.op].state = "PACKAGED"
        /\ checkpoint'[call.op].archive = call.attempt
        /\ checkpoint'[call.op].input = checkpoint[call.op].input
        /\ checkpoint'[call.op].files = call.files
        /\ checkpoint'[call.op].report = call.report
    <3>1. checkpoint' = [checkpoint EXCEPT ![call.op] =
            [@ EXCEPT !.state = "PACKAGED", !.archive = call.attempt,
                      !.files = call.files, !.report = call.report]]
      BY <1>20 DEF WritePackaged
    <3>2. checkpoint'[call.op] \in Checkpoints
      BY <2>1, <2>2, <3>1 DEF IInv, TypeInv, TypeOK, Checkpoints, Calls
    <3> QED
      BY <2>1, <2>2, <3>1, <3>2, DistinctAssumption DEF IInv, TypeInv, TypeOK, Checkpoints
  <2>4. checkpoint[call.op].state = "PREPARED"
    BY <2>2 DEF IInv, TypeInv, Phase, Filling, Packaging
  <2>5. checkpoint'[call.op].prepared = checkpoint[call.op].prepared
    BY <1>20, <2>1, <2>2 DEF IInv, TypeInv, TypeOK, Checkpoints, WritePackaged
  <2> QED
    BY <2>3, <2>4, <2>5 DEF Advances
<1>21. CASE ReconcilePublished
  BY <1>21 DEF Advances, ReconcilePublished, journal
<1>22. CASE ReconcilePrivate
  BY <1>22 DEF Advances, ReconcilePrivate, Check, journal
<1>23. CASE CheckArtifacts
  BY <1>23 DEF Advances, CheckArtifacts, Check, journal
<1>24. CASE Move
  BY <1>24 DEF Advances, Move, journal
<1>25. CASE MoveFails
  BY <1>25 DEF Advances, MoveFails, journal
<1>26. CASE Confirm
  BY <1>26 DEF Advances, Confirm, journal
<1>27. CASE WriteComplete
  <2>1. /\ pc # "idle" /\ call \in Calls /\ call.op \in Operations
        /\ checkpoint[call.op] \in Checkpoints \union {NoCheckpoint}
    BY <1>27, Running DEF IInv, WriteComplete
  <2>2. checkpoint[call.op] \in Checkpoints /\ pc = "complete" /\ pc' = "idle" /\ Packaged(call.op)
    BY <1>27, <2>1
       DEF IInv, TypeInv, Phase, WriteComplete, Leave, Publishing, Qualified, Finalizing
  <2>3. /\ \A o \in Operations \ {call.op} : checkpoint'[o] = checkpoint[o]
        /\ checkpoint'[call.op] # NoCheckpoint
        /\ checkpoint'[call.op] = [checkpoint[call.op] EXCEPT !.state = "COMPLETE"]
        /\ checkpoint'[call.op].state = "COMPLETE"
        /\ checkpoint'[call.op].archive = checkpoint[call.op].archive
        /\ checkpoint'[call.op].input = checkpoint[call.op].input
        /\ checkpoint'[call.op].files = checkpoint[call.op].files
        /\ checkpoint'[call.op].report = checkpoint[call.op].report
    <3>1. checkpoint' = [checkpoint EXCEPT ![call.op].state = "COMPLETE"]
      BY <1>27 DEF WriteComplete
    <3>2. [checkpoint[call.op] EXCEPT !.state = "COMPLETE"] \in Checkpoints
      BY <2>2 DEF Checkpoints
    <3> QED
      BY <2>1, <2>2, <3>1, <3>2, DistinctAssumption DEF IInv, TypeInv, TypeOK, Checkpoints
  <2>4. checkpoint'[call.op].prepared = checkpoint[call.op].prepared
    BY <2>2, <2>3 DEF Checkpoints
  <2> QED
    BY <2>3, <2>4 DEF Advances
<1>28. CASE Prepare
  BY <1>28 DEF Advances, Prepare, Begin, journal
<1>29. CASE Finalize
  BY <1>29 DEF Advances, Finalize, Begin, journal
<1>30. CASE Interrupted
  BY <1>30 DEF Advances, Interrupted, journal
<1>31. CASE EditSource
  BY <1>31 DEF Advances, EditSource, journal
<1>32. CASE ChangeEngine
  BY <1>32 DEF Advances, ChangeEngine, journal
<1>33. CASE ChangeRun
  BY <1>33 DEF Advances, ChangeRun, journal
<1>34. ASSUME NEW o \in Operations, Meddle(o)
      PROVE  Advances
  BY <1>34 DEF Advances, Meddle, journal
<1>35. CASE UNCHANGED vars
  BY <1>35 DEF Advances, journal, vars
<1> QED
  BY <1>1, <1>2, <1>3, <1>4, <1>5, <1>6, <1>7, <1>8, <1>9, <1>10, <1>11, <1>12, <1>13,
     <1>14, <1>15, <1>16, <1>17, <1>18, <1>19, <1>20, <1>21, <1>22, <1>23, <1>24, <1>25, <1>26,
     <1>27, <1>28, <1>29, <1>30, <1>31, <1>32, <1>33, <1>34, <1>35
     DEF Next, Step, PrepareStep, PackageStep, PublishStep, Outside

(* Nothing that exists is refreshed, renamed or deleted but for the one    *)
(* journaled move, which loses nothing.                                    *)
THEOREM PreservedHolds == Spec => Preserved
<1>1. IInv /\ [Next]_vars => [KeepsOthers]_vars
  BY KeepsStep
<1> QED
  BY <1>1, Invariance, PTL DEF Spec, Preserved

(* No archive is published or completed under a report that is not of this *)
(* call.                                                                   *)
THEOREM StillQualifiedHolds == Spec => StillQualified
<1>1. IInv /\ [Next]_vars => [PublishesFresh]_vars
  BY FreshStep
<1> QED
  BY <1>1, Invariance, PTL DEF Spec, StillQualified

(* The journal goes forward and never renames what it packaged.            *)
THEOREM JournalHolds == Spec => JournalOnlyAdvances
<1>1. IInv /\ [Next]_vars => [Advances]_journal
  BY AdvanceStep
<1> QED
  BY <1>1, Invariance, PTL DEF Spec, JournalOnlyAdvances

-----------------------------------------------------------------------------
(* What the operations promise: PublishOnce.                               *)

(* What the ledger shows of the journal. *)
FrozenBy == [o \in Operations |->
               IF checkpoint[o] = NoCheckpoint THEN 0 ELSE checkpoint[o].prepared]
PromisedBy == [o \in Operations |-> IF Packaged(o) THEN checkpoint[o].files ELSE NoDir]
CompleteIn == {o \in Operations : Packaged(o) /\ checkpoint[o].state = "COMPLETE"}
DisturbedIn == {o \in Operations : meddled[o] = "since"}

(* A step that changes neither the journal nor a destination nor who was   *)
(* there is no step of the ledger.                                         *)
LEMMA LedgerStutters ==
  ASSUME UNCHANGED <<checkpoint, final, meddled>>
  PROVE  UNCHANGED Ledger!all
BY DEF Ledger!all, Packaged

(* Every step of a call, and whatever others do, is a step of the ledger   *)
(* or none.                                                                *)
LEMMA LedgerStep ==
  ASSUME IInv, [Next]_vars
  PROVE  [Ledger!Next]_Ledger!all
<1> USE DEF FrozenBy, PromisedBy, CompleteIn, DisturbedIn
<1>1. CASE CheckCurrent
  BY <1>1, LedgerStutters DEF CheckCurrent, Check, journal, dirs, history
<1>2. CASE CheckEngine
  BY <1>2, LedgerStutters DEF CheckEngine, Check, journal, dirs, history
<1>3. CASE WritePlan
  BY <1>3, LedgerStutters DEF WritePlan, journal, dirs, history
<1>4. CASE TakeInventory
  BY <1>4, LedgerStutters DEF TakeInventory, journal, dirs, history
<1>5. CASE MakeCopy
  BY <1>5, LedgerStutters DEF MakeCopy, journal, dirs, history
<1>6. CASE Copy
  BY <1>6, LedgerStutters DEF Copy, journal, dirs, history
<1>7. CASE VerifyCopy
  BY <1>7, LedgerStutters DEF VerifyCopy, Check, journal, dirs, history
<1>8. CASE WritePrepared
  <2>1. /\ pc # "idle" /\ call \in Calls /\ call.op \in Operations
        /\ checkpoint[call.op] = NoCheckpoint /\ call.attempt \in Attempts
    BY <1>8, Running DEF IInv, TypeInv, Phase, Copying, Preparing, WritePrepared
  <2>2. /\ \A o \in Operations \ {call.op} : checkpoint'[o] = checkpoint[o]
        /\ checkpoint'[call.op] # NoCheckpoint
        /\ checkpoint'[call.op].prepared = call.attempt
        /\ checkpoint'[call.op].state = "PREPARED"
        /\ UNCHANGED <<final, meddled>>
    <3>1. checkpoint' =
            [checkpoint EXCEPT ![call.op] =
               [state |-> "PREPARED", prepared |-> call.attempt, input |-> call.input,
                archive |-> 0, files |-> NoDir, report |-> NoReport]]
      BY <1>8 DEF WritePrepared
    <3>2. [state |-> "PREPARED", prepared |-> call.attempt, input |-> call.input,
           archive |-> 0, files |-> NoDir, report |-> NoReport] \in Checkpoints
      BY <2>1, MaxAttemptsAssumption DEF Checkpoints, Calls, Directories
    <3> QED
      BY <1>8, <2>1, <3>1, <3>2, DistinctAssumption
         DEF IInv, TypeInv, TypeOK, WritePrepared, dirs, history
  <2>3. FrozenBy' = [FrozenBy EXCEPT ![call.op] = FrozenBy'[call.op]]
    <3>1. \A o \in Operations \ {call.op} : FrozenBy'[o] = FrozenBy[o]
      BY <2>1, <2>2
    <3>2. /\ FrozenBy = [o \in Operations |-> FrozenBy[o]]
          /\ FrozenBy' = [o \in Operations |-> FrozenBy'[o]]
      OBVIOUS
    <3> HIDE DEF FrozenBy
    <3> QED
      BY <2>1, <3>1, <3>2
  <2>4. FrozenBy[call.op] = 0 /\ FrozenBy'[call.op] \in Attempts
    BY <2>1, <2>2
  <2>5. UNCHANGED <<PromisedBy, CompleteIn, DisturbedIn, final>>
    BY <2>1, <2>2 DEF Packaged
  <2>p. PICK o \in Operations : o = call.op
    BY <2>1
  <2>6. Ledger!Freeze(o)
    BY <2>p, <2>3, <2>4, <2>5 DEF Ledger!Freeze, Ledger!OnlyAt
  <2> QED
    BY <2>p, <2>6 DEF Ledger!Next
<1>9. CASE ReadInputs
  BY <1>9, LedgerStutters DEF ReadInputs, Check, journal, dirs, history
<1>10. CASE Qualify
  BY <1>10, LedgerStutters DEF Qualify, journal, dirs, history
<1>11. CASE Evaluate
  BY <1>11, LedgerStutters DEF Evaluate, journal, dirs, history
<1>12. CASE Requalify
  BY <1>12, LedgerStutters DEF Requalify, Check, journal, dirs, history
<1>13. CASE CheckDestination
  BY <1>13, LedgerStutters DEF CheckDestination, Check, journal, dirs, history
<1>14. CASE MakeAttempt
  BY <1>14, LedgerStutters DEF MakeAttempt, journal, dirs, history
<1>15. CASE Build
  BY <1>15, LedgerStutters DEF Build, journal, dirs, history
<1>16. CASE Inspect
  BY <1>16, LedgerStutters DEF Inspect, Check, journal, dirs, history
<1>17. CASE RecheckInputs
  BY <1>17, LedgerStutters DEF RecheckInputs, Check, journal, dirs, history
<1>18. CASE Attach
  BY <1>18, LedgerStutters DEF Attach, journal, dirs, history
<1>19. CASE Seal
  BY <1>19, LedgerStutters DEF Seal, journal, dirs, history
<1>20. CASE WritePackaged
  <2>1. /\ pc # "idle" /\ call \in Calls /\ call.op \in Operations /\ pc = "package"
        /\ checkpoint[call.op] \in Checkpoints
        /\ checkpoint[call.op].state = "PREPARED"
    BY <1>20, Running
       DEF IInv, TypeInv, Phase, WritePackaged, Filling, Packaging, Qualified, Finalizing
  <2>2. call.files \in Archives
    BY <2>1 DEF IInv, Tested, HoldsCandidate
  <2>3. /\ \A o \in Operations \ {call.op} : checkpoint'[o] = checkpoint[o]
        /\ checkpoint'[call.op] # NoCheckpoint
        /\ checkpoint'[call.op].state = "PACKAGED"
        /\ checkpoint'[call.op].files = call.files
        /\ checkpoint'[call.op].prepared = checkpoint[call.op].prepared
        /\ UNCHANGED <<final, meddled>>
    <3>1. checkpoint' = [checkpoint EXCEPT ![call.op] =
            [@ EXCEPT !.state = "PACKAGED", !.archive = call.attempt,
                      !.files = call.files, !.report = call.report]]
      BY <1>20 DEF WritePackaged
    <3>2. call.attempt \in Attempts /\ TypeOK
      BY <2>1 DEF IInv, TypeInv, Phase, Filling
    <3>3. checkpoint'[call.op] \in Checkpoints
      BY <2>1, <3>1, <3>2 DEF TypeOK, Checkpoints, Calls
    <3>4. UNCHANGED <<final, meddled>>
      BY <1>20 DEF WritePackaged, dirs, history
    <3> QED
      BY <2>1, <3>1, <3>2, <3>3, <3>4, DistinctAssumption DEF TypeOK, Checkpoints
  <2>4. PromisedBy' = [PromisedBy EXCEPT ![call.op] = PromisedBy'[call.op]]
    BY <2>1, <2>3 DEF Packaged
  <2>5. /\ FrozenBy[call.op] # 0
        /\ PromisedBy[call.op] = NoDir /\ PromisedBy'[call.op] \in Archives
    BY <2>1, <2>2, <2>3, DistinctAssumption DEF Packaged, Checkpoints, Attempts
  <2>6. UNCHANGED <<FrozenBy, CompleteIn, DisturbedIn, final>>
    BY <2>1, <2>3, DistinctAssumption DEF Packaged
  <2>p. PICK o \in Operations : o = call.op
    BY <2>1
  <2>7. Ledger!Promise(o)
    BY <2>p, <2>4, <2>5, <2>6 DEF Ledger!Promise, Ledger!OnlyAt
  <2> QED
    BY <2>p, <2>7 DEF Ledger!Next
<1>21. CASE ReconcilePublished
  <2>1. /\ pc # "idle" /\ call.op \in Operations /\ Packaged(call.op)
        /\ checkpoint[call.op].files \in Archives
    BY <1>21, Running
       DEF IInv, TypeInv, Phase, Publishing, Tested, TestedBytes, HoldsCandidate, ReconcilePublished
  <2>2. UNCHANGED <<checkpoint, final>>
    BY <1>21 DEF ReconcilePublished, journal, dirs
  <2>3. CASE meddled' = meddled
    BY <2>2, <2>3, LedgerStutters
  <2>4. CASE meddled' # meddled
    <3>1. /\ final[call.op] = checkpoint[call.op].files
          /\ meddled' = [meddled EXCEPT ![call.op] = IF @ = "never" THEN @ ELSE "before"]
      BY <1>21, <2>4 DEF ReconcilePublished, Journaled
    <3>2. DisturbedIn' = DisturbedIn \ {call.op}
      BY <2>1, <3>1 DEF IInv, TypeInv, TypeOK
    <3>3. PromisedBy[call.op] # NoDir /\ final[call.op] = PromisedBy[call.op]
      BY <2>1, <3>1, DistinctAssumption
    <3>4. UNCHANGED <<FrozenBy, PromisedBy, CompleteIn, final>>
      BY <2>2 DEF Packaged
    <3>p. PICK o \in Operations : o = call.op
      BY <2>1
    <3>5. Ledger!Confirm(o)
      BY <3>p, <3>2, <3>3, <3>4 DEF Ledger!Confirm, Ledger!ledger
    <3> QED
      BY <3>p, <3>5 DEF Ledger!Next
  <2> QED
    BY <2>3, <2>4
<1>22. CASE ReconcilePrivate
  BY <1>22, LedgerStutters DEF ReconcilePrivate, Check, journal, dirs, history
<1>23. CASE CheckArtifacts
  BY <1>23, LedgerStutters DEF CheckArtifacts, Check, journal, dirs, history
<1>24. CASE Move
  <2>1. /\ pc # "idle" /\ call.op \in Operations /\ pc = "move" /\ Packaged(call.op)
        /\ checkpoint[call.op].files \in Archives
    BY <1>24, Running
       DEF IInv, TypeInv, Phase, Publishing, Tested, TestedBytes, HoldsCandidate, Move
  <2>2. /\ Source(call.op) # NoDir /\ final[call.op] \in {NoDir, EmptyDir}
        /\ final' = [final EXCEPT ![call.op] = Source(call.op)]
        /\ UNCHANGED <<checkpoint, meddled>>
    BY <1>24 DEF Move, journal, history
  <2>3. final' = [final EXCEPT ![call.op] = final'[call.op]]
    BY <2>1, <2>2 DEF IInv, TypeInv, TypeOK
  <2>4. call.op \notin DisturbedIn =>
          final[call.op] = NoDir /\ final'[call.op] = PromisedBy[call.op]
    <3> HAVE call.op \notin DisturbedIn
    <3>1. meddled[call.op] \in {"never", "before"}
      BY <2>1 DEF IInv, TypeInv, TypeOK
    <3>2. final[call.op] = NoDir /\ meddled[call.op] = "never"
      BY <2>1, <2>2, <3>1, DistinctAssumption DEF IInv, Placed, PlaceFacts, Archives
    <3>3. Source(call.op) = checkpoint[call.op].files
      BY <2>1, <2>2, <3>2 DEF IInv, Placed, PlaceFacts
    <3> QED
      BY <2>1, <2>2, <3>2, <3>3 DEF IInv, TypeInv, TypeOK
  <2>5. PromisedBy[call.op] # NoDir
    BY <2>1, DistinctAssumption
  <2>6. call.op \in DisturbedIn => final[call.op] \in {NoDir, EmptyDir}
    BY <2>2
  <2>7. UNCHANGED <<FrozenBy, PromisedBy, CompleteIn, DisturbedIn>>
    BY <2>2 DEF Packaged
  <2>p. PICK o \in Operations : o = call.op
    BY <2>1
  <2>8. Ledger!Show(o)
    BY <2>p, <2>3, <2>4, <2>5, <2>6, <2>7 DEF Ledger!Show, Ledger!OnlyAt, Ledger!ledger
  <2> QED
    BY <2>p, <2>8 DEF Ledger!Next
<1>25. CASE MoveFails
  BY <1>25, LedgerStutters DEF MoveFails, journal, dirs, history
<1>26. CASE Confirm
  <2>1. /\ pc # "idle" /\ call.op \in Operations /\ Packaged(call.op)
        /\ checkpoint[call.op].files \in Archives
    BY <1>26, Running
       DEF IInv, TypeInv, Phase, Publishing, Tested, TestedBytes, HoldsCandidate, Confirm
  <2>2. UNCHANGED <<checkpoint, final>>
    BY <1>26 DEF Confirm, journal, dirs
  <2>3. CASE meddled' = meddled
    BY <2>2, <2>3, LedgerStutters
  <2>4. CASE meddled' # meddled
    <3>1. /\ final[call.op] = checkpoint[call.op].files
          /\ meddled' = [meddled EXCEPT ![call.op] = IF @ = "never" THEN @ ELSE "before"]
      BY <1>26, <2>4 DEF Confirm, Journaled
    <3>2. DisturbedIn' = DisturbedIn \ {call.op}
      BY <2>1, <3>1 DEF IInv, TypeInv, TypeOK
    <3>3. PromisedBy[call.op] # NoDir /\ final[call.op] = PromisedBy[call.op]
      BY <2>1, <3>1, DistinctAssumption
    <3>4. UNCHANGED <<FrozenBy, PromisedBy, CompleteIn, final>>
      BY <2>2 DEF Packaged
    <3>p. PICK o \in Operations : o = call.op
      BY <2>1
    <3>5. Ledger!Confirm(o)
      BY <3>p, <3>2, <3>3, <3>4 DEF Ledger!Confirm, Ledger!ledger
    <3> QED
      BY <3>p, <3>5 DEF Ledger!Next
  <2> QED
    BY <2>3, <2>4
<1>27. CASE WriteComplete
  <2>1. /\ pc # "idle" /\ call.op \in Operations /\ pc = "complete" /\ Packaged(call.op)
        /\ checkpoint[call.op] \in Checkpoints
        /\ checkpoint[call.op].files \in Archives
    BY <1>27, Running
       DEF IInv, TypeInv, Phase, Publishing, Qualified, Finalizing, Tested, TestedBytes,
           HoldsCandidate, WriteComplete
  <2>2. /\ \A o \in Operations \ {call.op} : checkpoint'[o] = checkpoint[o]
        /\ checkpoint'[call.op] # NoCheckpoint
        /\ checkpoint'[call.op].state = "COMPLETE"
        /\ checkpoint'[call.op].files = checkpoint[call.op].files
        /\ checkpoint'[call.op].prepared = checkpoint[call.op].prepared
        /\ UNCHANGED <<final, meddled>>
    <3>1. checkpoint' = [checkpoint EXCEPT ![call.op].state = "COMPLETE"]
      BY <1>27 DEF WriteComplete
    <3>2. [checkpoint[call.op] EXCEPT !.state = "COMPLETE"] \in Checkpoints
      BY <2>1 DEF Checkpoints
    <3>3. UNCHANGED <<final, meddled>>
      BY <1>27 DEF WriteComplete, dirs, history
    <3> QED
      BY <2>1, <3>1, <3>2, <3>3, DistinctAssumption DEF IInv, TypeInv, TypeOK, Checkpoints
  <2>3. CompleteIn' = CompleteIn \union {call.op}
    BY <2>1, <2>2 DEF Packaged
  <2>4. UNCHANGED <<FrozenBy, PromisedBy, DisturbedIn, final>>
    BY <2>1, <2>2 DEF Packaged
  <2>5. /\ PromisedBy[call.op] # NoDir
        /\ call.op \notin DisturbedIn => final[call.op] = PromisedBy[call.op]
    BY <2>1, DistinctAssumption DEF IInv, Placed, CallPlace
  <2>p. PICK o \in Operations : o = call.op
    BY <2>1
  <2>6. Ledger!Complete(o)
    BY <2>p, <2>3, <2>4, <2>5 DEF Ledger!Complete
  <2> QED
    BY <2>p, <2>6 DEF Ledger!Next
<1>28. CASE Prepare
  BY <1>28, LedgerStutters DEF Prepare, Begin, journal, dirs, history
<1>29. CASE Finalize
  BY <1>29, LedgerStutters DEF Finalize, Begin, journal, dirs, history
<1>30. CASE Interrupted
  BY <1>30, LedgerStutters DEF Interrupted, journal, dirs, history
<1>31. CASE EditSource
  BY <1>31, LedgerStutters DEF EditSource, journal, dirs, history
<1>32. CASE ChangeEngine
  BY <1>32, LedgerStutters DEF ChangeEngine, journal, dirs, history
<1>33. CASE ChangeRun
  BY <1>33, LedgerStutters DEF ChangeRun, journal, dirs, history
<1>34. ASSUME NEW o \in Operations, Meddle(o)
      PROVE  Ledger!Next
  <2>1. /\ meddled' = [meddled EXCEPT ![o] = "since"] /\ checkpoint' = checkpoint
        /\ \/ final' = final
           \/ \E d : final' = [final EXCEPT ![o] = d]
    BY <1>34 DEF Meddle, MeddlePrepared, MeddlePrivate, MeddleFinal, journal
  <2>2. DisturbedIn' = DisturbedIn \union {o}
    BY <2>1 DEF IInv, TypeInv, TypeOK
  <2>3. final' = [final EXCEPT ![o] = final'[o]]
    BY <2>1 DEF IInv, TypeInv, TypeOK
  <2>4. UNCHANGED <<FrozenBy, PromisedBy, CompleteIn>>
    BY <2>1 DEF Packaged
  <2>5. Ledger!Disturb(o)
    BY <2>2, <2>3, <2>4 DEF Ledger!Disturb, Ledger!OnlyAt, Ledger!ledger
  <2> QED
    BY <2>5 DEF Ledger!Next
<1>35. CASE UNCHANGED vars
  BY <1>35, LedgerStutters DEF vars
<1> QED
  BY <1>1, <1>2, <1>3, <1>4, <1>5, <1>6, <1>7, <1>8, <1>9, <1>10, <1>11, <1>12, <1>13,
     <1>14, <1>15, <1>16, <1>17, <1>18, <1>19, <1>20, <1>21, <1>22, <1>23, <1>24, <1>25,
     <1>26, <1>27, <1>28, <1>29, <1>30, <1>31, <1>32, <1>33, <1>34, <1>35
     DEF Next, Step, PrepareStep, PackageStep, PublishStep, Outside

(* The operations keep the promise of PublishOnce: one frozen copy, one    *)
(* promised archive, shown once and unchanged, complete only when there.   *)
THEOREM PublicationHolds == Spec => PublicationImplemented
<1>1. Init => Ledger!Init
  BY DEF Init, Ledger!Init, Packaged
<1>2. IInv /\ [Next]_vars => [Ledger!Next]_Ledger!all
  BY LedgerStep
<1> QED
  BY <1>1, <1>2, Invariance, PTL DEF Spec, PublicationImplemented, Ledger!Spec

-----------------------------------------------------------------------------
(* No call that nobody disturbs fails, whatever earlier calls left behind. *)

(* What the directories of an operation hold as long as nobody else has    *)
(* been there: the journaled copy is the frozen one, the archive being     *)
(* built has the candidate's files, and a destination is empty until the   *)
(* move and full after it.                                                 *)
Alone(o) == meddled[o] = "never"
Frozen ==
  \A o \in Operations : checkpoint[o] # NoCheckpoint =>
    /\ checkpoint[o].prepared \in 1..attempts[o]
    /\ Alone(o) => prepared[o][checkpoint[o].prepared] = checkpoint[o].input
CallFrozen ==
  /\ pc \in Copying => call.attempt \in 1..attempts[call.op]
  /\ pc \in Copying \ {"copy"} /\ Alone(call.op) =>
       prepared[call.op][call.attempt] = call.input
  /\ pc \in {"inspect", "inputs", "packaged", "attach", "seal"} /\ Alone(call.op) =>
       HoldsCandidate(call.op, private[call.op][call.attempt])
  /\ pc \in {"publish", "publisher", "artifacts", "move"} /\ Alone(call.op) =>
       final[call.op] = NoDir
  /\ pc = "confirm" /\ Alone(call.op) => final[call.op] # NoDir
Resumable == Frozen /\ CallFrozen

LEMMA ResumableStep ==
  ASSUME IInv, Resumable, [Next]_vars
  PROVE  Resumable'
<1>1. CASE CheckCurrent
  BY <1>1, Points, Running
     DEF IInv, Resumable, Frozen, CallFrozen, Alone, Copying, HoldsCandidate,
         CheckCurrent, Check, Leave, world, journal, dirs, history
<1>2. CASE CheckEngine
  BY <1>2, Points, Running
     DEF IInv, Resumable, Frozen, CallFrozen, Alone, Copying, HoldsCandidate,
         CheckEngine, Check, Leave, world, journal, dirs, history
<1>3. CASE WritePlan
  BY <1>3, Running
     DEF IInv, Resumable, Frozen, CallFrozen, Alone, Copying, HoldsCandidate,
         WritePlan, Leave, world, dirs, history
<1>4. CASE TakeInventory
  BY <1>4 DEF Resumable, Frozen, CallFrozen, Alone, Copying, TakeInventory, world, journal, dirs, history
<1>5. CASE MakeCopy
  <2>1. /\ pc # "idle" /\ call \in Calls /\ call.op \in Operations /\ pc = "mkdir"
        /\ checkpoint[call.op] = NoCheckpoint
    BY <1>5, Running DEF IInv, TypeInv, Phase, Preparing, MakeCopy, Fresh
  <2>2. /\ attempts[call.op] + 1 \in Attempts
        /\ \A o \in Operations : 1..attempts[o] \subseteq 1..attempts'[o]
        /\ call'.attempt \in 1..attempts'[call.op] /\ call'.op = call.op /\ pc' = "copy"
    BY <1>5, <2>1, MaxAttemptsAssumption
       DEF IInv, TypeInv, TypeOK, Attempts, Calls, MakeCopy, Fresh
  <2>3. \A o \in Operations \ {call.op} : prepared'[o] = prepared[o]
    BY <1>5, <2>1 DEF IInv, TypeInv, TypeOK, MakeCopy
  <2>4. checkpoint' = checkpoint /\ meddled' = meddled
    BY <1>5 DEF MakeCopy, journal, history
  <2>5. Frozen'
    BY <2>1, <2>2, <2>3, <2>4 DEF Resumable, Frozen, Alone
  <2> QED
    BY <2>2, <2>5 DEF Resumable, CallFrozen, Copying
<1>6. CASE Copy
  <2>1. /\ pc # "idle" /\ call \in Calls /\ call.op \in Operations /\ pc = "copy"
        /\ call.attempt \in Attempts /\ checkpoint[call.op] = NoCheckpoint
    BY <1>6, Running DEF IInv, TypeInv, Phase, Preparing, Copying, Copy
  <2>2. \/ /\ prepared' = [prepared EXCEPT ![call.op][call.attempt] = call.input]
           /\ pc' = "recheck" /\ call' = call
        \/ pc' = "idle" /\ UNCHANGED prepared
    BY <1>6 DEF Copy, Leave
  <2>3. /\ \A o \in Operations \ {call.op} : prepared'[o] = prepared[o]
        /\ pc' = "recheck" => prepared'[call.op][call.attempt] = call.input
    BY <2>1, <2>2 DEF IInv, TypeInv, TypeOK
  <2>4. checkpoint' = checkpoint /\ meddled' = meddled /\ attempts' = attempts
    BY <1>6 DEF Copy, journal, history
  <2>5. Frozen'
    BY <2>1, <2>3, <2>4 DEF Resumable, Frozen, Alone
  <2> QED
    BY <2>1, <2>2, <2>3, <2>4, <2>5 DEF Resumable, CallFrozen, Copying
<1>7. CASE VerifyCopy
  BY <1>7, Running
     DEF IInv, Resumable, Frozen, CallFrozen, Alone, Copying, HoldsCandidate,
         VerifyCopy, Check, Leave, world, journal, dirs, history
<1>8. CASE WritePrepared
  <2>1. /\ pc # "idle" /\ call \in Calls /\ call.op \in Operations /\ pc = "journal"
    BY <1>8, Running DEF IInv, WritePrepared
  <2>2. /\ \A o \in Operations \ {call.op} : checkpoint'[o] = checkpoint[o]
        /\ checkpoint'[call.op].prepared = call.attempt
        /\ checkpoint'[call.op].input = call.input
        /\ pc' = "idle" /\ UNCHANGED <<dirs, attempts, meddled>>
    BY <1>8, <2>1 DEF IInv, TypeInv, TypeOK, WritePrepared, Leave, history
  <2>3. /\ call.attempt \in 1..attempts[call.op]
        /\ Alone(call.op) => prepared[call.op][call.attempt] = call.input
    BY <2>1 DEF Resumable, CallFrozen, Copying
  <2> QED
    BY <2>1, <2>2, <2>3 DEF Resumable, Frozen, CallFrozen, Alone, Copying, dirs
<1>9. CASE ReadInputs
  BY <1>9, Running
     DEF IInv, Resumable, Frozen, CallFrozen, Alone, Copying, HoldsCandidate,
         ReadInputs, Check, Leave, world, journal, dirs, history
<1>10. CASE Qualify
  BY <1>10, Running
     DEF IInv, Resumable, Frozen, CallFrozen, Alone, Copying, HoldsCandidate,
         Qualify, Leave, world, journal, dirs, history
<1>11. CASE Evaluate
  BY <1>11, Running
     DEF IInv, Resumable, Frozen, CallFrozen, Alone, Copying, HoldsCandidate,
         Evaluate, Leave, world, journal, dirs, history
<1>12. CASE Requalify
  BY <1>12, Running
     DEF IInv, Resumable, Frozen, CallFrozen, Alone, Copying, HoldsCandidate,
         Requalify, Check, Leave, world, journal, dirs, history
<1>13. CASE CheckDestination
  BY <1>13, Running
     DEF IInv, Resumable, Frozen, CallFrozen, Alone, Copying, HoldsCandidate,
         CheckDestination, Check, Leave, world, journal, dirs, history
<1>14. CASE MakeAttempt
  <2>1. /\ pc # "idle" /\ call \in Calls /\ call.op \in Operations /\ pc = "attempt"
    BY <1>14, Running DEF IInv, MakeAttempt, Fresh
  <2>2. /\ \A o \in Operations : 1..attempts[o] \subseteq 1..attempts'[o]
        /\ pc' = "build"
    BY <1>14, <2>1, MaxAttemptsAssumption
       DEF IInv, TypeInv, TypeOK, Attempts, Calls, MakeAttempt, Fresh
  <2>3. checkpoint' = checkpoint /\ meddled' = meddled /\ prepared' = prepared
    BY <1>14 DEF MakeAttempt, journal, history
  <2> QED
    BY <2>2, <2>3 DEF Resumable, Frozen, CallFrozen, Alone, Copying
<1>15. CASE Build
  <2>1. /\ pc # "idle" /\ call \in Calls /\ call.op \in Operations /\ pc = "build"
        /\ call.attempt \in Attempts /\ checkpoint[call.op] # NoCheckpoint
        /\ call.op.candidate \in Candidates
    BY <1>15, Running
       DEF IInv, TypeInv, Phase, Filling, Packaging, Qualified, Finalizing, Build
  <2>2. /\ pc' = "inspect" /\ UNCHANGED <<call, checkpoint, meddled, attempts, prepared, final>>
    BY <1>15 DEF Build, journal, history
  <2>3. ASSUME Alone(call.op)
        PROVE  HoldsCandidate(call.op, private'[call.op][call.attempt])
    <3>1. prepared[call.op][Journaled.prepared] = call.op.candidate
      BY <2>1, <2>3 DEF IInv, Tested, TestedBytes, Resumable, Frozen, Journaled
    <3>2. private' = [private EXCEPT ![call.op][call.attempt] =
            [payload |-> call.op.candidate, report |-> NoReport, attempt |-> call.attempt]]
      BY <1>15, <2>1, <3>1 DEF Build
    <3>3. private'[call.op][call.attempt] =
            [payload |-> call.op.candidate, report |-> NoReport, attempt |-> call.attempt]
      BY <2>1, <3>2 DEF IInv, TypeInv, TypeOK
    <3> QED
      BY <2>1, <3>3 DEF HoldsCandidate, Archives
  <2> QED
    BY <2>2, <2>3 DEF Resumable, Frozen, CallFrozen, Alone, Copying, HoldsCandidate
<1>16. CASE Inspect
  BY <1>16, Running
     DEF IInv, Resumable, Frozen, CallFrozen, Alone, Copying, HoldsCandidate,
         Inspect, Check, Leave, world, journal, dirs, history
<1>17. CASE RecheckInputs
  BY <1>17, Running
     DEF IInv, Resumable, Frozen, CallFrozen, Alone, Copying, HoldsCandidate,
         RecheckInputs, Check, Leave, world, journal, dirs, history
<1>18. CASE Attach
  <2>1. /\ pc # "idle" /\ call \in Calls /\ call.op \in Operations /\ pc = "attach"
        /\ call.attempt \in Attempts /\ call.report \in Reports
    BY <1>18, Running DEF IInv, TypeInv, Phase, Filling, Packaging, Qualified, Attach
  <2>2. /\ pc' = "seal" /\ UNCHANGED <<call, checkpoint, meddled, attempts, prepared, final>>
    BY <1>18 DEF Attach, journal, history
  <2>3. ASSUME Alone(call.op)
        PROVE  HoldsCandidate(call.op, private'[call.op][call.attempt])
    <3>1. HoldsCandidate(call.op, private[call.op][call.attempt])
      BY <2>1, <2>3 DEF Resumable, CallFrozen
    <3>2. private'[call.op][call.attempt] =
            [private[call.op][call.attempt] EXCEPT !.report = call.report]
      BY <1>18, <2>1, <3>1 DEF IInv, TypeInv, TypeOK, HoldsCandidate, Attach
    <3> QED
      BY <2>1, <3>1, <3>2 DEF HoldsCandidate, Archives
  <2> QED
    BY <2>2, <2>3 DEF Resumable, Frozen, CallFrozen, Alone, Copying, HoldsCandidate
<1>19. CASE Seal
  BY <1>19, Running
     DEF IInv, Resumable, Frozen, CallFrozen, Alone, Copying, HoldsCandidate,
         Seal, Leave, world, journal, dirs, history
<1>20. CASE WritePackaged
  <2>1. /\ pc # "idle" /\ call \in Calls /\ call.op \in Operations /\ pc = "package"
        /\ checkpoint[call.op] \in Checkpoints
    BY <1>20, Running
       DEF IInv, TypeInv, Phase, WritePackaged, Filling, Packaging, Qualified, Finalizing
  <2>2. /\ \A o \in Operations \ {call.op} : checkpoint'[o] = checkpoint[o]
        /\ checkpoint'[call.op].prepared = checkpoint[call.op].prepared
        /\ checkpoint'[call.op].input = checkpoint[call.op].input
        /\ pc' = "reconcile" /\ UNCHANGED <<dirs, attempts, meddled>>
    BY <1>20, <2>1 DEF IInv, TypeInv, TypeOK, Checkpoints, WritePackaged, history
  <2> QED
    BY <2>1, <2>2, DistinctAssumption DEF Resumable, Frozen, CallFrozen, Alone, Copying, dirs
<1>21. CASE ReconcilePublished
  <2>1. /\ pc # "idle" /\ call.op \in Operations /\ pc' \in {"settle", "idle"}
        /\ UNCHANGED <<journal, dirs, attempts>>
        /\ \A o \in Operations : Alone(o)' => Alone(o)
    BY <1>21, Running DEF IInv, TypeInv, TypeOK, Alone, ReconcilePublished, Leave
  <2> QED
    BY <2>1 DEF Resumable, Frozen, CallFrozen, Copying, journal, dirs
<1>22. CASE ReconcilePrivate
  BY <1>22, Running
     DEF IInv, Resumable, Frozen, CallFrozen, Alone, Copying, HoldsCandidate,
         ReconcilePrivate, Check, Leave, world, journal, dirs, history
<1>23. CASE CheckArtifacts
  BY <1>23, Running
     DEF IInv, Resumable, Frozen, CallFrozen, Alone, Copying, HoldsCandidate,
         CheckArtifacts, Check, Leave, world, journal, dirs, history
<1>24. CASE Move
  <2>1. /\ pc # "idle" /\ call.op \in Operations /\ pc' = "confirm"
        /\ Source(call.op) # NoDir
        /\ UNCHANGED <<journal, prepared, attempts, meddled, call>>
    BY <1>24, Running DEF IInv, Move, history
  <2>2. final'[call.op] # NoDir
    BY <1>24, <2>1 DEF IInv, TypeInv, TypeOK, Move
  <2> QED
    BY <2>1, <2>2 DEF Resumable, Frozen, CallFrozen, Alone, Copying, journal
<1>25. CASE MoveFails
  BY <1>25, Running
     DEF IInv, Resumable, Frozen, CallFrozen, Alone, Copying, HoldsCandidate,
         MoveFails, Leave, world, journal, dirs, history
<1>26. CASE Confirm
  <2>1. /\ pc # "idle" /\ call.op \in Operations /\ pc' \in {"settle", "idle"}
        /\ UNCHANGED <<journal, dirs, attempts>>
        /\ \A o \in Operations : Alone(o)' => Alone(o)
    BY <1>26, Running DEF IInv, TypeInv, TypeOK, Alone, Confirm, Leave
  <2> QED
    BY <2>1 DEF Resumable, Frozen, CallFrozen, Copying, journal, dirs
<1>27. CASE WriteComplete
  <2>1. /\ pc # "idle" /\ call \in Calls /\ call.op \in Operations /\ pc = "complete"
        /\ checkpoint[call.op] \in Checkpoints
    BY <1>27, Running
       DEF IInv, TypeInv, Phase, WriteComplete, Publishing, Qualified, Finalizing
  <2>2. /\ \A o \in Operations \ {call.op} : checkpoint'[o] = checkpoint[o]
        /\ checkpoint'[call.op].prepared = checkpoint[call.op].prepared
        /\ checkpoint'[call.op].input = checkpoint[call.op].input
        /\ pc' = "idle" /\ UNCHANGED <<dirs, attempts, meddled>>
    BY <1>27, <2>1 DEF IInv, TypeInv, TypeOK, Checkpoints, WriteComplete, Leave, history
  <2> QED
    BY <2>1, <2>2, DistinctAssumption DEF Resumable, Frozen, CallFrozen, Alone, Copying, dirs
<1>28. CASE Prepare
  BY <1>28, Running
     DEF IInv, Resumable, Frozen, CallFrozen, Alone, Copying, HoldsCandidate,
         Prepare, Begin, world, journal, dirs
<1>29. CASE Finalize
  BY <1>29, Running
     DEF IInv, Resumable, Frozen, CallFrozen, Alone, Copying, HoldsCandidate,
         Finalize, Begin, world, journal, dirs
<1>30. CASE Interrupted
  BY <1>30, Running
     DEF IInv, Resumable, Frozen, CallFrozen, Alone, Copying, HoldsCandidate,
         Interrupted, Leave, world, journal, dirs
<1>31. CASE EditSource
  BY <1>31, Running
     DEF IInv, Resumable, Frozen, CallFrozen, Alone, Copying, HoldsCandidate,
         EditSource, journal, dirs
<1>32. CASE ChangeEngine
  BY <1>32, Running
     DEF IInv, Resumable, Frozen, CallFrozen, Alone, Copying, HoldsCandidate,
         ChangeEngine, journal, dirs
<1>33. CASE ChangeRun
  BY <1>33, Running
     DEF IInv, Resumable, Frozen, CallFrozen, Alone, Copying, HoldsCandidate,
         ChangeRun, journal, dirs
<1>34. ASSUME NEW o \in Operations, Meddle(o)
      PROVE  Resumable'
  <2>1. /\ meddled' = [meddled EXCEPT ![o] = "since"]
        /\ UNCHANGED <<journal, attempts, pc, call>>
        /\ \A p \in Operations \ {o} :
             prepared'[p] = prepared[p] /\ private'[p] = private[p] /\ final'[p] = final[p]
    BY <1>34
       DEF IInv, TypeInv, TypeOK, Meddle, MeddlePrepared, MeddlePrivate, MeddleFinal
  <2>2. pc # "idle" => call.op \in Operations
    BY Running DEF IInv
  <2>3. \A p \in Operations : Alone(p)' => Alone(p) /\ p # o
    BY <2>1 DEF IInv, TypeInv, TypeOK, Alone
  <2> QED
    BY <2>1, <2>2, <2>3
       DEF Resumable, Frozen, CallFrozen, Copying, HoldsCandidate, journal
<1>35. CASE UNCHANGED vars
  BY <1>35, Running
     DEF IInv, Resumable, Frozen, CallFrozen, Alone, Copying, HoldsCandidate,
         vars
<1> QED
  BY <1>1, <1>2, <1>3, <1>4, <1>5, <1>6, <1>7, <1>8, <1>9, <1>10, <1>11, <1>12, <1>13,
     <1>14, <1>15, <1>16, <1>17, <1>18, <1>19, <1>20, <1>21, <1>22, <1>23, <1>24, <1>25,
     <1>26, <1>27, <1>28, <1>29, <1>30, <1>31, <1>32, <1>33, <1>34, <1>35
     DEF Next, Step, PrepareStep, PackageStep, PublishStep, Outside

(* A call that nobody disturbs: the operation is Calm, and the world held  *)
(* nothing else since the call began.                                      *)
Undisturbed ==
  /\ Calm(call.op)
  /\ during = [source |-> {source}, engine |-> {engine}, run |-> {run}]

(* How many steps a call can still take. *)
Remaining ==
  [idle |-> 0,
   journal |-> 1, verify |-> 2, evaluator |-> 3, recheck |-> 4, copy |-> 5, mkdir |-> 6,
   inventory |-> 7, plan |-> 8, current |-> 9,
   complete |-> 1, settle |-> 2, confirm |-> 3, move |-> 4, artifacts |-> 5,
   publisher |-> 6, publish |-> 7, reconcile |-> 8, package |-> 9, seal |-> 10,
   attach |-> 11, packaged |-> 12, inputs |-> 13, inspect |-> 14, build |-> 15,
   attempt |-> 16, destination |-> 17, requalify |-> 18, evidence |-> 19,
   qualify |-> 20, reader |-> 21, read |-> 22]

LEMMA Counted ==
  /\ Remaining["idle"] = 0 /\ Remaining["journal"] = 1 /\ Remaining["verify"] = 2
  /\ Remaining["evaluator"] = 3 /\ Remaining["recheck"] = 4 /\ Remaining["copy"] = 5
  /\ Remaining["mkdir"] = 6 /\ Remaining["inventory"] = 7 /\ Remaining["plan"] = 8
  /\ Remaining["current"] = 9 /\ Remaining["complete"] = 1 /\ Remaining["settle"] = 2
  /\ Remaining["confirm"] = 3 /\ Remaining["move"] = 4 /\ Remaining["artifacts"] = 5
  /\ Remaining["publisher"] = 6 /\ Remaining["publish"] = 7 /\ Remaining["reconcile"] = 8
  /\ Remaining["package"] = 9 /\ Remaining["seal"] = 10 /\ Remaining["attach"] = 11
  /\ Remaining["packaged"] = 12 /\ Remaining["inputs"] = 13 /\ Remaining["inspect"] = 14
  /\ Remaining["build"] = 15 /\ Remaining["attempt"] = 16 /\ Remaining["destination"] = 17
  /\ Remaining["requalify"] = 18 /\ Remaining["evidence"] = 19 /\ Remaining["qualify"] = 20
  /\ Remaining["reader"] = 21 /\ Remaining["read"] = 22
BY DEF Remaining

(* The safety part of RetryCompletes: each step of a call brings it nearer *)
(* to its end, so a call is at most 22 steps long, and an undisturbed      *)
(* finalize_case of an operation that was ever prepared, whatever earlier  *)
(* calls left behind, has no step that raises: it ends with COMPLETE.      *)
Shortens == Step => pc' # pc /\ Remaining[pc'] < Remaining[pc]
Finishes ==
  pc \in Finalizing /\ Step /\ Undisturbed /\ pc' = "idle" =>
    checkpoint'[call.op].state = "COMPLETE"
UndisturbedCompletes == [][Shortens /\ Finishes]_vars

LEMMA ShortensStep == Shortens
<1>1. CASE CheckCurrent
  BY <1>1, Points, Counted DEF Shortens, CheckCurrent, Check, Leave
<1>2. CASE CheckEngine
  BY <1>2, Points, Counted DEF Shortens, CheckEngine, Check, Leave
<1>3. CASE WritePlan
  BY <1>3, Counted DEF Shortens, WritePlan, Leave
<1>4. CASE TakeInventory
  BY <1>4, Counted DEF Shortens, TakeInventory
<1>5. CASE MakeCopy
  BY <1>5, Counted DEF Shortens, MakeCopy, Fresh
<1>6. CASE Copy
  BY <1>6, Counted DEF Shortens, Copy, Leave
<1>7. CASE VerifyCopy
  BY <1>7, Counted DEF Shortens, VerifyCopy, Check, Leave
<1>8. CASE WritePrepared
  BY <1>8, Counted DEF Shortens, WritePrepared, Leave
<1>9. CASE ReadInputs
  BY <1>9, Counted DEF Shortens, ReadInputs, Check, Leave
<1>10. CASE Qualify
  BY <1>10, Counted DEF Shortens, Qualify, Leave
<1>11. CASE Evaluate
  BY <1>11, Counted DEF Shortens, Evaluate, Leave
<1>12. CASE Requalify
  BY <1>12, Counted DEF Shortens, Requalify, Check, Leave
<1>13. CASE CheckDestination
  BY <1>13, Counted DEF Shortens, CheckDestination, Check, Leave
<1>14. CASE MakeAttempt
  BY <1>14, Counted DEF Shortens, MakeAttempt, Fresh
<1>15. CASE Build
  BY <1>15, Counted DEF Shortens, Build
<1>16. CASE Inspect
  BY <1>16, Counted DEF Shortens, Inspect, Check, Leave
<1>17. CASE RecheckInputs
  BY <1>17, Counted DEF Shortens, RecheckInputs, Check, Leave
<1>18. CASE Attach
  BY <1>18, Counted DEF Shortens, Attach
<1>19. CASE Seal
  BY <1>19, Counted DEF Shortens, Seal, Leave
<1>20. CASE WritePackaged
  BY <1>20, Counted DEF Shortens, WritePackaged
<1>21. CASE ReconcilePublished
  BY <1>21, Counted DEF Shortens, ReconcilePublished, Leave
<1>22. CASE ReconcilePrivate
  BY <1>22, Counted DEF Shortens, ReconcilePrivate, Check, Leave
<1>23. CASE CheckArtifacts
  BY <1>23, Counted DEF Shortens, CheckArtifacts, Check, Leave
<1>24. CASE Move
  BY <1>24, Counted DEF Shortens, Move
<1>25. CASE MoveFails
  BY <1>25, Counted DEF Shortens, MoveFails, Leave
<1>26. CASE Confirm
  BY <1>26, Counted DEF Shortens, Confirm, Leave
<1>27. CASE WriteComplete
  BY <1>27, Counted DEF Shortens, WriteComplete, Leave
<1> QED
  BY <1>1, <1>2, <1>3, <1>4, <1>5, <1>6, <1>7, <1>8, <1>9, <1>10, <1>11, <1>12, <1>13,
     <1>14, <1>15, <1>16, <1>17, <1>18, <1>19, <1>20, <1>21, <1>22, <1>23, <1>24, <1>25,
     <1>26, <1>27
     DEF Shortens, Step, PrepareStep, PackageStep, PublishStep

LEMMA FinishStep ==
  ASSUME IInv, Resumable
  PROVE  Finishes
<1> SUFFICES ASSUME pc \in Finalizing, Step, Undisturbed
             PROVE  pc' = "idle" => checkpoint'[call.op].state = "COMPLETE"
  BY DEF Finishes
<1> DEFINE o == call.op
<1>a. /\ pc # "idle" /\ call \in Calls /\ o \in Operations
      /\ checkpoint[o] \in Checkpoints
      /\ pc \in {"evidence"} \union Qualified => call.report \in Reports
  BY Running
     DEF IInv, TypeInv, Phase, Finalizing, Qualified, Packaging, Filling, Publishing
<1>b. /\ source = o.candidate /\ engine = o.engine /\ run \in Passing
      /\ Alone(o)
      /\ Packaged(o) =>
           checkpoint[o].report = [candidate |-> source, engine |-> engine, run |-> run]
  BY DEF Undisturbed, Calm, Alone
<1>c. PreparedIntact(o, Journaled.prepared, Journaled.input)
  BY <1>a, <1>b, DistinctAssumption
     DEF IInv, Tested, TestedBytes, Resumable, Frozen, PreparedIntact, Journaled
<1>d. /\ pc \in {"evidence"} \union Qualified =>
           call.report.candidate = source /\ call.report.engine = engine
      /\ pc \in Qualified => call.report.run = run
  BY <1>b DEF IInv, Watched, Undisturbed
<1>e. /\ Packaged(o) => (final[o] = NoDir) <=> (Source(o) # NoDir)
      /\ Packaged(o) => Source(o) \in {NoDir, checkpoint[o].files}
      /\ Packaged(o) /\ final[o] # NoDir => final[o] = checkpoint[o].files
      /\ Packaged(o) /\ checkpoint[o].state = "COMPLETE" => final[o] # NoDir
      /\ ~Packaged(o) => final[o] = NoDir
  BY <1>a, <1>b DEF IInv, Placed, PlaceFacts, Alone
<1>1. CASE CheckCurrent
  BY <1>1, Points, <1>b DEF CheckCurrent, Check, Leave
<1>2. CASE CheckEngine
  BY <1>2, Points, <1>b DEF CheckEngine, Check, Leave
<1>3. CASE WritePlan
  BY <1>3 DEF Finalizing, Qualified, Packaging, Filling, Publishing, WritePlan, Leave
<1>4. CASE TakeInventory
  BY <1>4 DEF Finalizing, Qualified, Packaging, Filling, Publishing, TakeInventory
<1>5. CASE MakeCopy
  BY <1>5 DEF Finalizing, Qualified, Packaging, Filling, Publishing, MakeCopy, Fresh
<1>6. CASE Copy
  BY <1>6 DEF Finalizing, Qualified, Packaging, Filling, Publishing, Copy, Leave
<1>7. CASE VerifyCopy
  BY <1>7 DEF Finalizing, Qualified, Packaging, Filling, Publishing, VerifyCopy, Check, Leave
<1>8. CASE WritePrepared
  BY <1>8 DEF Finalizing, Qualified, Packaging, Filling, Publishing, WritePrepared, Leave
<1>9. CASE ReadInputs
  BY <1>9, <1>c DEF ReadInputs, Check, Leave
<1>10. CASE Qualify
  BY <1>10, <1>b DEF Qualify, Leave
<1>11. CASE Evaluate
  BY <1>11, <1>b DEF Evaluate, Leave
<1>12. CASE Requalify
  <2>1. call.report \in Reports /\ pc = "requalify"
    BY <1>12, <1>a DEF Qualified, Requalify, Check
  <2>2. call.report = [candidate |-> source, engine |-> engine, run |-> run]
    BY <2>1, <1>d DEF Reports, Qualified
  <2>3. Journaled.state # "PREPARED" => call.report = Journaled.report
    BY <2>2, <1>a, <1>b, DistinctAssumption DEF Journaled, Packaged, Checkpoints
  <2> QED
    BY <1>12, <2>1, <2>2, <2>3, <1>b, <1>d DEF Requalify, Check, Qualified
<1>13. CASE CheckDestination
  BY <1>13, <1>a, <1>e DEF IInv, TypeInv, Phase, Packaging, Packaged, CheckDestination,
     Check, Leave
<1>14. CASE MakeAttempt
  BY <1>14 DEF MakeAttempt, Fresh
<1>15. CASE Build
  BY <1>15 DEF Build
<1>16. CASE Inspect
  BY <1>16, <1>b DEF Resumable, CallFrozen, Inspect, Check, Leave
<1>17. CASE RecheckInputs
  BY <1>17, <1>c DEF RecheckInputs, Check, Leave
<1>18. CASE Attach
  BY <1>18 DEF Attach
<1>19. CASE Seal
  BY <1>19, <1>b DEF Resumable, CallFrozen, Seal, Leave
<1>20. CASE WritePackaged
  BY <1>20 DEF WritePackaged
<1>21. CASE ReconcilePublished
  BY <1>21, <1>e DEF IInv, TypeInv, Phase, Publishing, Journaled, ReconcilePublished,
     Leave
<1>22. CASE ReconcilePrivate
  BY <1>22, <1>a, <1>e DEF IInv, TypeInv, Phase, Publishing, Journaled, Packaged,
     ReconcilePrivate, Check, Leave
<1>23. CASE CheckArtifacts
  BY <1>23, <1>d DEF Qualified, Publishing, CheckArtifacts, Check, Leave
<1>24. CASE Move
  BY <1>24 DEF Move
<1>25. CASE MoveFails
  BY <1>25, <1>a, <1>b, <1>e DEF IInv, TypeInv, Phase, Publishing, Resumable,
     CallFrozen, MoveFails, Leave
<1>26. CASE Confirm
  BY <1>26, <1>a, <1>b, <1>e DEF IInv, TypeInv, Phase, Publishing, Resumable,
     CallFrozen, Journaled, Confirm, Leave
<1>27. CASE WriteComplete
  BY <1>27, <1>a DEF IInv, TypeInv, TypeOK, Checkpoints, WriteComplete
<1> QED
  BY <1>1, <1>2, <1>3, <1>4, <1>5, <1>6, <1>7, <1>8, <1>9, <1>10, <1>11, <1>12, <1>13,
     <1>14, <1>15, <1>16, <1>17, <1>18, <1>19, <1>20, <1>21, <1>22, <1>23, <1>24, <1>25,
     <1>26, <1>27
     DEF Step, PrepareStep, PackageStep, PublishStep

LEMMA InitResumable == Init => Resumable
BY DEF Init, Resumable, Frozen, CallFrozen, Copying

(* Every call ends, and one that nobody disturbs ends well.                *)
THEOREM UndisturbedCompletesHolds == Spec => UndisturbedCompletes
<1>1. Spec => []Resumable
  BY InitResumable, ResumableStep, Invariance, PTL DEF Spec
<1>2. IInv /\ Resumable /\ [Next]_vars => [Shortens /\ Finishes]_vars
  BY ShortensStep, FinishStep DEF IInv
<1> QED
  BY <1>1, <1>2, Invariance, PTL DEF Spec, UndisturbedCompletes

=============================================================================
