--------------------------- MODULE CaseOperations ---------------------------
(***************************************************************************)
(* Local archive operations (case_operations.py): prepare_case freezes a   *)
(* captured candidate in a private copy, finalize_case qualifies it again, *)
(* builds the archive in a private attempt, journals its inventory and     *)
(* moves it, once, to <archive_root>/<operation_id>.                       *)
(*                                                                         *)
(* Both calls run under the case store's write lock, so there is one call  *)
(* at a time (CaseStore, theorem SerializedHolds).  Between any two of its *)
(* reads and writes the workspace, the evaluator's own files and the run   *)
(* artifacts may change, also back again; somebody may put, copy, edit or  *)
(* remove the directories the operation works on; and the call may fail    *)
(* or its process die.                                                     *)
(*                                                                         *)
(* A workspace state and the candidate captured from it are one value: a   *)
(* digest is the bytes it names.                                           *)
(***************************************************************************)
EXTENDS Integers

CONSTANTS
  Candidates,  \* states of the workspace and its context, all of them captured
  Engines,     \* identities of the evaluator (engine_identity)
  Runs,        \* artifacts the live run's files may hold
  Passing,     \* those of them that the evaluation accepts
  MaxAttempts, \* BOUND: fresh directories of one operation
  MaxFaults,   \* BOUND: outside changes, failures and crashes
  NoDir,       \* no such directory
  EmptyDir,    \* an empty directory
  Junk,        \* a partial, damaged or foreign directory
  NoReport, NoCheckpoint, NoCall

ASSUME PassingAssumption == Passing \subseteq Runs
ASSUME MaxAttemptsAssumption == MaxAttempts \in Nat
ASSUME MaxFaultsAssumption == MaxFaults \in Nat

VARIABLES
  source,      \* what the workspace and the selected context hold now
  engine,      \* what engine_identity() answers now
  run,         \* what the live run's artifacts hold now
  plans,       \* operations with a plan.json
  checkpoint,  \* operations/<id>/checkpoint.json
  prepared,    \* operations/<id>/prepare-attempts/<n>
  private,     \* <archive_root>/.bridgeforge-attempts/<id>/<n>/done/<mod>
  final,       \* <archive_root>/<id>
  attempts,    \* how many fresh directory names an operation has used
  pc, call,    \* the running call: where it is, and what it holds in memory
  faults,      \* how many changes and failures there were (for MaxFaults)
  during,      \* history: what source, engine and run were in this call
  meddled      \* history: whether others changed an operation's directories

world == <<source, engine, run>>
dirs == <<prepared, private, final>>
journal == <<plans, checkpoint>>
history == <<faults, during, meddled>>
vars == <<source, engine, run, plans, checkpoint, prepared, private, final, attempts,
          pc, call, faults, during, meddled>>

(* operation_id is the digest of the plan; case and archive_root are fixed. *)
Operations == [candidate : Candidates, engine : Engines]
Attempts == 1..MaxAttempts
Reports == [candidate : Candidates, engine : Engines, run : Runs]
Archives == [payload : Candidates, report : Reports \union {NoReport}, attempt : Attempts]
Copies == Candidates \union {NoDir, Junk}
Directories == Archives \union {NoDir, EmptyDir, Junk}
Checkpoints ==
  [state : {"PREPARED", "PACKAGED", "COMPLETE"}, prepared : Attempts,
   input : Candidates, archive : 0..MaxAttempts,
   files : Directories, report : Reports \union {NoReport}]
Calls ==
  [op : Operations, attempt : 0..MaxAttempts, input : Candidates,
   report : Reports \union {NoReport}, files : Directories]

ASSUME DistinctAssumption ==
  /\ NoDir # EmptyDir /\ NoDir # Junk /\ EmptyDir # Junk
  /\ {NoDir, EmptyDir, Junk} \intersect (Candidates \union Archives) = {}
  /\ NoReport \notin Reports
  /\ NoCheckpoint \notin Checkpoints
  /\ NoCall \notin Calls

Init ==
  /\ source \in Candidates
  /\ engine \in Engines
  /\ run \in Runs
  /\ plans = {}
  /\ checkpoint = [o \in Operations |-> NoCheckpoint]
  /\ prepared = [o \in Operations |-> [n \in Attempts |-> NoDir]]
  /\ private = [o \in Operations |-> [n \in Attempts |-> NoDir]]
  /\ final = [o \in Operations |-> NoDir]
  /\ attempts = [o \in Operations |-> 0]
  /\ pc = "idle"
  /\ call = NoCall
  /\ faults = 0
  /\ during = [source |-> {}, engine |-> {}, run |-> {}]
  /\ meddled = [o \in Operations |-> "never"]

-----------------------------------------------------------------------------
(* Starting, going on, and leaving.                                        *)

Begin(o, label) ==
  /\ pc = "idle"
  /\ pc' = label
  /\ call' = [op |-> o, attempt |-> 0, input |-> o.candidate,
              report |-> NoReport, files |-> NoDir]
  /\ during' = [source |-> {source}, engine |-> {engine}, run |-> {run}]
  /\ UNCHANGED <<world, journal, dirs, attempts, faults, meddled>>

Leave == pc' = "idle" /\ call' = NoCall

(* One read of the world between two points of a call: go on, or raise.    *)
Check(here, there, holds) ==
  /\ pc = here
  /\ IF holds THEN pc' = there /\ call' = call ELSE Leave
  /\ UNCHANGED <<world, journal, dirs, attempts, history>>

(* A fresh directory (a new uuid), not yet filled.                         *)
Fresh(here, there) ==
  /\ pc = here
  /\ attempts[call.op] < MaxAttempts
  /\ attempts' = [attempts EXCEPT ![call.op] = @ + 1]
  /\ call' = [call EXCEPT !.attempt = attempts[call.op] + 1]
  /\ pc' = there

(* _current: is this candidate still what the workspace holds?  Asked at   *)
(* these points; the value is where the call goes on.                      *)
CurrentThen ==
  [current  |-> "plan",      \* prepare_case: first thing
   recheck  |-> "evaluator", \* prepare_case: after the copy
   packaged |-> "attach",    \* finalize_case: after the archive was built
   publish  |-> "publisher", \* finalize_case: before the move
   settle   |-> "complete"]  \* finalize_case: before COMPLETE is written

CheckCurrent ==
  \E here \in DOMAIN CurrentThen :
    Check(here, CurrentThen[here], source = call.op.candidate)

(* engine_identity() = plan['engine_id'], asked at these points. *)
EngineThen ==
  [evaluator |-> "verify",    \* prepare_case: after the copy
   reader    |-> "qualify",   \* finalize_case: before the qualification
   publisher |-> "artifacts"] \* finalize_case: before the move

CheckEngine ==
  \E here \in DOMAIN EngineThen :
    Check(here, EngineThen[here], engine = call.op.engine)

(* _prepared: the journaled copy is still what was journaled, and that is  *)
(* the candidate.                                                          *)
PreparedIntact(o, n, input) == prepared[o][n] = input /\ input = o.candidate

-----------------------------------------------------------------------------
(* prepare_case                                                            *)

(* The plan names the evaluator of this moment. *)
Prepare == \E c \in Candidates : Begin([candidate |-> c, engine |-> engine], "current")

(* A checkpoint that is already there is only checked and returned.        *)
WritePlan ==
  /\ pc = "plan"
  /\ plans' = plans \union {call.op}
  /\ IF checkpoint[call.op] = NoCheckpoint THEN pc' = "inventory" /\ call' = call ELSE Leave
  /\ UNCHANGED <<world, checkpoint, dirs, attempts, history>>

TakeInventory ==
  /\ pc = "inventory"
  /\ call' = [call EXCEPT !.input = source]
  /\ pc' = "mkdir"
  /\ UNCHANGED <<world, journal, dirs, attempts, history>>

MakeCopy ==
  /\ Fresh("mkdir", "copy")
  /\ prepared' = [prepared EXCEPT ![call.op][attempts[call.op] + 1] = Junk]
  /\ UNCHANGED <<world, journal, private, final, history>>

(* _copy hashes every file before and after: the copy is the inventory, or *)
(* the call raises and leaves a partial one.                               *)
Copy ==
  /\ pc = "copy"
  /\ IF source = call.input
       THEN /\ prepared' = [prepared EXCEPT ![call.op][call.attempt] = call.input]
            /\ pc' = "recheck"
            /\ call' = call
       ELSE /\ Leave
            /\ UNCHANGED prepared
  /\ UNCHANGED <<world, journal, private, final, attempts, history>>

(* Mutant: the copy is taken to be the candidate because _current said so. *)
VerifyCopyNothing == Check("verify", "journal", TRUE)

VerifyCopy == Check("verify", "journal", PreparedIntact(call.op, call.attempt, call.input))

(* Mutant: the checkpoint does not say which attempt was frozen. *)
WritePreparedUnnamed ==
  /\ pc = "journal"
  /\ checkpoint' =
       [checkpoint EXCEPT ![call.op] =
          [state |-> "PREPARED", prepared |-> 0, input |-> call.input,
           archive |-> 0, files |-> NoDir, report |-> NoReport]]
  /\ Leave
  /\ UNCHANGED <<world, plans, dirs, attempts, history>>

WritePrepared ==
  /\ pc = "journal"
  /\ checkpoint' =
       [checkpoint EXCEPT ![call.op] =
          [state |-> "PREPARED", prepared |-> call.attempt, input |-> call.input,
           archive |-> 0, files |-> NoDir, report |-> NoReport]]
  /\ Leave
  /\ UNCHANGED <<world, plans, dirs, attempts, history>>

PrepareStep ==
  \/ WritePlan \/ TakeInventory \/ MakeCopy \/ Copy \/ VerifyCopy \/ WritePrepared

-----------------------------------------------------------------------------
(* finalize_case: qualify                                                  *)

(* Without plan.json or checkpoint.json the call raises before it starts.  *)
Finalize ==
  \E o \in plans : checkpoint[o] # NoCheckpoint /\ Begin(o, "read")

Journaled == checkpoint[call.op]

ReadInputs == Check("read", "reader", PreparedIntact(call.op, Journaled.prepared, Journaled.input))

(* qualify_case evaluates anew on every call.  The report names the        *)
(* candidate, the evaluator it found at its start and the run artifacts.   *)
Qualify ==
  /\ pc = "qualify"
  /\ IF source = call.op.candidate
       THEN /\ call' = [call EXCEPT !.report = [candidate |-> source, engine |-> engine, run |-> run]]
            /\ pc' = "evidence"
       ELSE Leave
  /\ UNCHANGED <<world, journal, dirs, attempts, history>>

(* The run is evaluated some time later, between two hashes of its files.  *)
Evaluate ==
  /\ pc = "evidence"
  /\ IF run \in Passing
       THEN call' = [call EXCEPT !.report.run = run] /\ pc' = "requalify"
       ELSE Leave
  /\ UNCHANGED <<world, journal, dirs, attempts, history>>

(* Mutant: a packaged archive is not bound to the report it was made with. *)
RequalifyUnbound ==
  Check("requalify",
        IF Journaled.state = "PREPARED" THEN "destination" ELSE "reconcile",
        source = call.op.candidate /\ engine = call.report.engine)

(* Mutant: a retry packages again instead of publishing what it packaged. *)
RequalifyRepackages ==
  Check("requalify", "destination",
        /\ source = call.op.candidate
        /\ engine = call.report.engine
        /\ Journaled.state # "PREPARED" => call.report = Journaled.report)

(* The end of qualify_case, and the comparison with the journaled report.  *)
Requalify ==
  Check("requalify",
        IF Journaled.state = "PREPARED" THEN "destination" ELSE "reconcile",
        /\ source = call.op.candidate
        /\ engine = call.report.engine
        /\ Journaled.state # "PREPARED" => call.report = Journaled.report)

-----------------------------------------------------------------------------
(* finalize_case: package                                                  *)

CheckDestination == Check("destination", "attempt", final[call.op] = NoDir)

MakeAttempt ==
  /\ Fresh("attempt", "build")
  /\ private' = [private EXCEPT ![call.op][attempts[call.op] + 1] = Junk]
  /\ UNCHANGED <<world, journal, prepared, final, history>>

(* archive_mod packs what the prepared copy holds now. *)
Build ==
  /\ pc = "build"
  /\ LET input == prepared[call.op][Journaled.prepared] IN
       private' = [private EXCEPT ![call.op][call.attempt] =
                     IF input \in Candidates
                       THEN [payload |-> input, report |-> NoReport, attempt |-> call.attempt]
                       ELSE Junk]
  /\ pc' = "inspect"
  /\ UNCHANGED <<world, journal, prepared, final, attempts, call, history>>

(* _verify_archive: folder and zip hold the candidate's files.             *)
HoldsCandidate(o, d) == d \in Archives /\ d.payload = o.candidate

Inspect == Check("inspect", "inputs", HoldsCandidate(call.op, private[call.op][call.attempt]))

RecheckInputs ==
  Check("inputs", "packaged", PreparedIntact(call.op, Journaled.prepared, Journaled.input))

(* CASE_QUALIFICATION.json goes beside the payload. *)
Attach ==
  /\ pc = "attach"
  /\ private' = [private EXCEPT ![call.op][call.attempt] =
                   IF @ \in Archives THEN [@ EXCEPT !.report = call.report] ELSE Junk]
  /\ pc' = "seal"
  /\ UNCHANGED <<world, journal, prepared, final, attempts, call, history>>

(* The inventory that goes into the journal. *)
Seal ==
  /\ pc = "seal"
  /\ IF HoldsCandidate(call.op, private[call.op][call.attempt])
       THEN /\ call' = [call EXCEPT !.files = private[call.op][call.attempt]]
            /\ pc' = "package"
       ELSE Leave
  /\ UNCHANGED <<world, journal, dirs, attempts, history>>

(* Mutant: COMPLETE is journaled before the move instead of after it. *)
WriteCompleteEarly ==
  /\ pc = "package"
  /\ checkpoint' =
       [checkpoint EXCEPT ![call.op] =
          [@ EXCEPT !.state = "COMPLETE", !.archive = call.attempt,
                    !.files = call.files, !.report = call.report]]
  /\ pc' = "reconcile"
  /\ UNCHANGED <<world, plans, dirs, attempts, call, history>>

WritePackaged ==
  /\ pc = "package"
  /\ checkpoint' =
       [checkpoint EXCEPT ![call.op] =
          [@ EXCEPT !.state = "PACKAGED", !.archive = call.attempt,
                    !.files = call.files, !.report = call.report]]
  /\ pc' = "reconcile"
  /\ UNCHANGED <<world, plans, dirs, attempts, call, history>>

PackageStep ==
  \/ CheckDestination \/ MakeAttempt \/ Build \/ Inspect \/ RecheckInputs
  \/ Attach \/ Seal \/ WritePackaged

-----------------------------------------------------------------------------
(* finalize_case: publish                                                  *)

(* Where the journal says the private archive is. *)
Source(o) == private[o][checkpoint[o].archive]

(* Mutant: a destination that exists is always a collision. *)
ReconcileNothing ==
  /\ pc = "reconcile"
  /\ final[call.op] # NoDir
  /\ Check("reconcile", "settle", FALSE)

(* A destination that exists is adopted only as the journaled move: the    *)
(* private copy gone and the bytes those of the inventory.                 *)
ReconcilePublished ==
  /\ pc = "reconcile"
  /\ final[call.op] # NoDir
  /\ IF Source(call.op) = NoDir /\ final[call.op] = Journaled.files
       THEN /\ pc' = "settle"
            /\ call' = call
            /\ meddled' = [meddled EXCEPT ![call.op] = IF @ = "never" THEN @ ELSE "before"]
       ELSE /\ Leave
            /\ UNCHANGED meddled
  /\ UNCHANGED <<world, journal, dirs, attempts, faults, during>>

ReconcilePrivate ==
  /\ pc = "reconcile"
  /\ final[call.op] = NoDir
  /\ Check("reconcile", "publish",
           Journaled.state = "PACKAGED" /\ Source(call.op) = Journaled.files)

CheckArtifacts == Check("artifacts", "move", run = call.report.run)

(* Mutant: the destination is cleared before the move. *)
MoveReplacing ==
  /\ pc = "move"
  /\ Source(call.op) # NoDir
  /\ final' = [final EXCEPT ![call.op] = Source(call.op)]
  /\ private' = [private EXCEPT ![call.op][Journaled.archive] = NoDir]
  /\ pc' = "confirm"
  /\ UNCHANGED <<world, journal, prepared, attempts, call, history>>

(* os.rename of a directory; an empty destination may be replaced.         *)
Move ==
  /\ pc = "move"
  /\ Source(call.op) # NoDir
  /\ final[call.op] \in {NoDir, EmptyDir}
  /\ final' = [final EXCEPT ![call.op] = Source(call.op)]
  /\ private' = [private EXCEPT ![call.op][Journaled.archive] = NoDir]
  /\ pc' = "confirm"
  /\ UNCHANGED <<world, journal, prepared, attempts, call, history>>

(* It raises when the source is gone or the destination is there.          *)
MoveFails ==
  /\ pc = "move"
  /\ Source(call.op) = NoDir \/ final[call.op] # NoDir
  /\ Leave
  /\ UNCHANGED <<world, journal, dirs, attempts, history>>

Confirm ==
  /\ pc = "confirm"
  /\ IF final[call.op] = Journaled.files
       THEN /\ pc' = "settle"
            /\ call' = call
            /\ meddled' = [meddled EXCEPT ![call.op] = IF @ = "never" THEN @ ELSE "before"]
       ELSE /\ Leave
            /\ UNCHANGED meddled
  /\ UNCHANGED <<world, journal, dirs, attempts, faults, during>>

WriteComplete ==
  /\ pc = "complete"
  /\ checkpoint' = [checkpoint EXCEPT ![call.op].state = "COMPLETE"]
  /\ Leave
  /\ UNCHANGED <<world, plans, dirs, attempts, history>>

PublishStep ==
  \/ ReconcilePublished \/ ReconcilePrivate \/ CheckArtifacts
  \/ Move \/ MoveFails \/ Confirm \/ WriteComplete

-----------------------------------------------------------------------------
(* What may happen between any two steps.                                  *)

Fault == faults < MaxFaults /\ faults' = faults + 1

(* An exception or the end of the process: what was written stays.         *)
Interrupted ==
  /\ Fault
  /\ pc # "idle"
  /\ Leave
  /\ UNCHANGED <<world, journal, dirs, attempts, during, meddled>>

EditSource ==
  /\ Fault
  /\ source' \in Candidates \ {source}
  /\ during' = [during EXCEPT !.source = @ \union {source'}]
  /\ UNCHANGED <<engine, run, journal, dirs, attempts, pc, call, meddled>>

ChangeEngine ==
  /\ Fault
  /\ engine' \in Engines \ {engine}
  /\ during' = [during EXCEPT !.engine = @ \union {engine'}]
  /\ UNCHANGED <<source, run, journal, dirs, attempts, pc, call, meddled>>

ChangeRun ==
  /\ Fault
  /\ run' \in Runs \ {run}
  /\ during' = [during EXCEPT !.run = @ \union {run'}]
  /\ UNCHANGED <<source, engine, journal, dirs, attempts, pc, call, meddled>>

(* Somebody removes or damages a directory, restores a copy of one, or     *)
(* edits the report beside an archive.                                     *)
Stripped(d) == IF d \in Archives THEN [d EXCEPT !.report = NoReport] ELSE Junk

MeddlePrepared(o, n) ==
  /\ \E d \in {NoDir, Junk} : prepared' = [prepared EXCEPT ![o][n] = d]
  /\ UNCHANGED <<private, final>>

MeddlePrivate(o, n) ==
  /\ \E d \in {NoDir, Junk, Stripped(private[o][n]), final[o]} :
       private' = [private EXCEPT ![o][n] = d]
  /\ UNCHANGED <<prepared, final>>

MeddleFinal(o) ==
  /\ \E d \in {NoDir, EmptyDir, Junk, Stripped(final[o])}
              \union {private[o][n] : n \in 1..attempts[o]} :
       final' = [final EXCEPT ![o] = d]
  /\ UNCHANGED <<prepared, private>>

Meddle(o) ==
  /\ Fault
  /\ \/ \E n \in 1..attempts[o] : MeddlePrepared(o, n) \/ MeddlePrivate(o, n)
     \/ MeddleFinal(o)
  /\ meddled' = [meddled EXCEPT ![o] = "since"]
  /\ UNCHANGED <<world, journal, attempts, pc, call, during>>

Outside ==
  \/ EditSource \/ ChangeEngine \/ ChangeRun
  \/ \E o \in Operations : Meddle(o)

Step ==
  \/ CheckCurrent \/ CheckEngine
  \/ PrepareStep
  \/ ReadInputs \/ Qualify \/ Evaluate \/ Requalify
  \/ PackageStep \/ PublishStep

Next == Prepare \/ Finalize \/ Step \/ Interrupted \/ Outside

Spec == Init /\ [][Next]_vars

(* A running call goes on, and somebody keeps finalizing each operation    *)
(* that was prepared: "preserve such files and retry the same API".        *)
RetrySpec ==
  /\ Spec
  /\ WF_vars(Step)
  /\ \A o \in Operations :
       SF_vars(o \in plans /\ checkpoint[o] # NoCheckpoint /\ Begin(o, "read"))

-----------------------------------------------------------------------------
Labels ==
  {"idle", "plan", "inventory", "mkdir", "copy", "verify", "journal", "read", "qualify",
   "evidence", "requalify", "destination", "attempt", "build", "inspect", "inputs", "attach",
   "seal", "package", "reconcile", "artifacts", "move", "confirm", "complete"}
    \union DOMAIN CurrentThen \union DOMAIN EngineThen

TypeOK ==
  /\ source \in Candidates /\ engine \in Engines /\ run \in Runs
  /\ plans \subseteq Operations
  /\ checkpoint \in [Operations -> Checkpoints \union {NoCheckpoint}]
  /\ prepared \in [Operations -> [Attempts -> Copies]]
  /\ private \in [Operations -> [Attempts -> Directories]]
  /\ final \in [Operations -> Directories]
  /\ attempts \in [Operations -> 0..MaxAttempts]
  /\ pc \in Labels
  /\ call \in Calls \union {NoCall}
  /\ (pc = "idle") <=> (call = NoCall)
  /\ faults \in 0..MaxFaults
  /\ during \in [source : SUBSET Candidates, engine : SUBSET Engines, run : SUBSET Runs]
  /\ meddled \in [Operations -> {"never", "before", "since"}]

Packaged(o) == checkpoint[o] # NoCheckpoint /\ checkpoint[o].state \in {"PACKAGED", "COMPLETE"}

(* What is journaled is the candidate that was captured and tested,        *)
(* whatever happens to the directories and to the workspace meanwhile: the *)
(* frozen copy (PREPARED) as well as the archive's payload (PACKAGED), and *)
(* the report beside it is one of this candidate with accepted evidence.   *)
TestedBytes ==
  \A o \in Operations :
    /\ checkpoint[o] # NoCheckpoint => checkpoint[o].input = o.candidate
    /\ Packaged(o) =>
         /\ HoldsCandidate(o, checkpoint[o].files)
         /\ checkpoint[o].report.candidate = o.candidate
         /\ checkpoint[o].report.run \in Passing

(* "PACKAGED records exact full archive inventory ... before publication": *)
(* unless others changed it since it was last verified, a published        *)
(* directory is the journaled archive, and a COMPLETE operation has one;   *)
(* unless others ever changed it, the archive is in one place only and     *)
(* carries the report whose identity is journaled.                         *)
Published ==
  \A o \in Operations :
    /\ meddled[o] # "since" =>
         /\ final[o] # NoDir => Packaged(o) /\ final[o] = checkpoint[o].files
         /\ Packaged(o) /\ checkpoint[o].state = "COMPLETE" => final[o] # NoDir
    /\ meddled[o] = "never" /\ Packaged(o) =>
         /\ (final[o] = NoDir) <=> (Source(o) # NoDir)
         /\ checkpoint[o].files.report = checkpoint[o].report

(* "Prior archives and failed attempts are never refreshed, renamed or     *)
(* deleted": a step of a call changes no directory but the attempt it is   *)
(* building, except that the journaled archive moves, unchanged, to a      *)
(* destination where there was nothing to lose.                            *)
Own(o, n) == pc # "idle" /\ o = call.op /\ n \in {call.attempt, attempts[o] + 1}

KeepsOthers ==
  pc' # pc =>
    \A o \in Operations :
      /\ final'[o] # final[o] => final[o] \in {NoDir, EmptyDir}
      /\ \A n \in Attempts :
           /\ prepared'[o][n] # prepared[o][n] => Own(o, n)
           /\ private'[o][n] # private[o][n] =>
                \/ Own(o, n) /\ ~Packaged(o)
                \/ /\ Packaged(o) /\ n = checkpoint[o].archive
                   /\ private'[o][n] = NoDir /\ final'[o] = private[o][n]

Preserved == [][KeepsOthers]_vars

(* "Qualification/run/artifact changes after packaging cannot silently     *)
(* reuse an old bundle": whatever a call moves to its destination or       *)
(* journals as COMPLETE, the candidate, the evaluator and the run of its   *)
(* report were all there while this very call was running.                 *)
PublishesFresh ==
  \A o \in Operations :
    pc' # pc /\ (final'[o] # final[o] \/ (pc = "complete" /\ checkpoint'[o] # checkpoint[o])) =>
      /\ checkpoint[o].report.candidate \in during.source
      /\ checkpoint[o].report.engine \in during.engine
      /\ checkpoint[o].report.run \in during.run

StillQualified == [][PublishesFresh]_vars

(* "Publish once; never refresh": the journal only goes forward, and what  *)
(* it says of the frozen copy and of the packaged archive is never         *)
(* replaced.                                                               *)
Advances ==
  \A o \in Operations :
    checkpoint[o] # NoCheckpoint =>
      /\ checkpoint'[o] # NoCheckpoint
      /\ checkpoint'[o].prepared = checkpoint[o].prepared
      /\ checkpoint[o].state # "PREPARED" =>
           checkpoint'[o] \in {checkpoint[o], [checkpoint[o] EXCEPT !.state = "COMPLETE"]}

JournalOnlyAdvances == [][Advances]_journal

(* All of it together, as what the operations promise to whoever reads the *)
(* archive root: this component implements PublishOnce.                    *)
Ledger == INSTANCE PublishOnce WITH
  Unfrozen <- 0, Nothing <- NoDir, Empty <- EmptyDir,
  frozen <- [o \in Operations |->
               IF checkpoint[o] = NoCheckpoint THEN 0 ELSE checkpoint[o].prepared],
  promised <- [o \in Operations |-> IF Packaged(o) THEN checkpoint[o].files ELSE NoDir],
  shown <- final,
  complete <- {o \in Operations : Packaged(o) /\ checkpoint[o].state = "COMPLETE"},
  disturbed <- {o \in Operations : meddled[o] = "since"}

PublicationImplemented == Ledger!Spec

(* Once the world stays as the operation needs it, retrying completes the  *)
(* operation, wherever earlier calls were cut off: nothing an interrupted  *)
(* call leaves behind stands in the way of the next one.                   *)
Calm(o) ==
  /\ checkpoint[o] # NoCheckpoint
  /\ source = o.candidate /\ engine = o.engine /\ run \in Passing
  /\ Packaged(o) => checkpoint[o].report = [candidate |-> source, engine |-> engine, run |-> run]
  /\ meddled[o] = "never"

RetryCompletes ==
  \A o \in Operations :
    <>[]Calm(o) => <>(Packaged(o) /\ checkpoint[o].state = "COMPLETE")

(* docs/S1_CASE_RECORDS.md: "Operation identity binds case, candidate,     *)
(* destination, current evaluator", and the evaluator is "rechecked before *)
(* publication".  Yet the published report may be another evaluator's: the *)
(* identity in the report is compared with the one qualify_case read, and  *)
(* never with the plan's.                                                  *)
EvaluatorBound ==
  \A o \in Operations :
    meddled[o] = "never" /\ final[o] # NoDir => final[o].report.engine = o.engine
=============================================================================
