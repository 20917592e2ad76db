----------------------------- MODULE Portfolio -----------------------------
(***************************************************************************)
(* The portfolio coordinator (portfolio.py: scan_portfolio) with its       *)
(* worker processes (portfolio_worker.py, portfolio_process.py) and the    *)
(* receipts it publishes into the case store.                              *)
(*                                                                         *)
(* A coordinator selects one candidate per case, takes the kernel lease on *)
(* its output directory, checks that the inputs are the selected ones,     *)
(* reuses or recovers earlier attempts or runs new workers, checks inputs  *)
(* and engine again and only then publishes receipts.  Meanwhile the       *)
(* inputs and the engine are edited, artifacts are damaged and repaired,   *)
(* workers fail, hang or outlive a coordinator that died, and coordinators *)
(* die between any two steps.                                              *)
(*                                                                         *)
(* The bytes of a case's inputs are a version number; a candidate is the   *)
(* version it was captured from.  An edit gives bytes never seen before:   *)
(* the checks compare content before and after, so bytes that change and   *)
(* change back in between are outside what they can promise.               *)
(***************************************************************************)
EXTENDS Integers, FiniteSets

CONSTANTS
  Coordinators, \* processes running scan_portfolio on one output directory
  Cases,        \* the selected cases
  Attempts,     \* names of attempt folders
  Jobs,         \* the jobs argument: one or two workers at a time
  MaxVersion,   \* BOUND: edits of a case's inputs
  MaxEngine,    \* BOUND: edits of the engine
  MaxRuns,      \* BOUND: invocations of scan_portfolio
  NoAttempt,    \* a row without an attempt
  Nobody        \* the lease is free

ASSUME JobsAssumption == Jobs \in {1, 2}
ASSUME BoundsAssumption == MaxVersion \in Nat /\ MaxEngine \in Nat /\ MaxRuns \in Nat
ASSUME NobodyAssumption == Nobody \notin Coordinators
ASSUME NoAttemptAssumption == NoAttempt \notin Attempts

VARIABLES
  inputs,  \* the bytes of every case's working copy, original and context
  engine,  \* the bytes of the analysis engine
  lease,   \* who holds the kernel lock of the output directory
  att,     \* the attempt folders, each with its worker process
  ledger,  \* the portfolio receipts in the case store
  reports, \* the run summaries under runs/
  phase,   \* where each coordinator is
  run,     \* the local variables of each coordinator
  clock    \* invocations so far; also the clock of observed_at

vars == <<inputs, engine, lease, att, ledger, reports, phase, run, clock>>

Versions == 0..MaxVersion
Engines == 0..MaxEngine
Stamps == 0..MaxRuns

(* The artifacts of an attempt, response.json and metrics.json: not both   *)
(* there, as the worker wrote them, or changed since.                      *)
Bytes == {"none", "scanned", "altered"}

(* A folder under attempts/<key>/ and the process that works in it.        *)
(*   case, cand, eng: the request; the key is their digest                 *)
(*   worker:   the process; gate: start.json is there                      *)
(*   orphan:   the coordinator that owns the process has died              *)
(*   stray:    history: close() raised, and the process still runs         *)
(*   ran:      the engine versions the process has loaded code from        *)
(*   read:     the input versions its reads have met                       *)
(*   bytes:    the artifacts; observed: the observed_at of completion.json *)
(*             and 0 while there is none                                   *)
(*   invalid:  invalidated.json is there                                   *)
(*   receipt:  the evidence bound by receipt.json, "none" without one      *)
(*   noticed:  history: a coordinator has found the artifacts altered      *)
AttemptRecords ==
  [case : Cases, cand : Versions, eng : Engines,
   worker : {"waiting", "started", "wrote", "exited", "failed"},
   gate : BOOLEAN, orphan : BOOLEAN, stray : BOOLEAN,
   ran : SUBSET Engines, read : SUBSET Versions,
   bytes : Bytes, observed : Stamps, invalid : BOOLEAN,
   receipt : Bytes, noticed : BOOLEAN]
NoFolder == [worker |-> "none"]

(* A receipt is named by its content: its attempt, the case, candidate and *)
(* engine, the evidence it binds and the time.                             *)
ReceiptRecords ==
  [attempt : Attempts, case : Cases, cand : Versions, eng : Engines,
   evidence : Bytes, observed : Stamps]

ReportRecords == [sel : [Cases -> Versions], eng : Engines, complete : BOOLEAN]

(* The local variables of scan_portfolio.                                  *)
(*   eng, sel: engine_identity() and the candidates, read before the lease *)
(*   row, at:  the state of each case's row, and its attempt               *)
(*   todo:     the cases the present loop has still to visit               *)
(*   errors:   the cases the closing checks found changed                  *)
(*   cleared:  the case whose checks are done and whose receipt is next    *)
(*   stored:   the receipt that is in the store, not yet in the folder     *)
RowStates ==
  {"QUEUED", "STARTING", "ACTIVE", "SCANNED", "FAILED", "TIMEOUT", "CANCELLED", "MEMORY_STOP",
   "REUSED", "RECOVERING", "STALE", "ANALYZED", "RECOVERED"}
RunRecords ==
  [eng : Engines, sel : [Cases -> Versions], row : [Cases -> RowStates],
   at : [Cases -> Attempts \union {NoAttempt}], todo : SUBSET Cases,
   errors : SUBSET Cases, cleared : SUBSET Cases, stored : SUBSET ReceiptRecords]

Fresh(eng, sel) ==
  [eng |-> eng, sel |-> sel, row |-> [c \in Cases |-> "QUEUED"],
   at |-> [c \in Cases |-> NoAttempt], todo |-> Cases,
   errors |-> {}, cleared |-> {}, stored |-> {}]
NoRun == Fresh(0, [c \in Cases |-> 0])

(* The phases inside the with-block of the lease, in their order. *)
Inside == {"preflight", "choose", "scan", "postflight", "publish"}
Phases == {"idle", "lease"} \union Inside

Init ==
  /\ inputs = [c \in Cases |-> 0]
  /\ engine = 0
  /\ lease = Nobody
  /\ ledger = {}
  /\ reports = {}
  /\ clock = 0
  /\ att = [a \in Attempts |-> NoFolder]
  /\ phase = [k \in Coordinators |-> "idle"]
  /\ run = [k \in Coordinators |-> NoRun]

Folders == {a \in Attempts : att[a] # NoFolder}
Live(a) == att[a].worker \in {"waiting", "started", "wrote"}
Rows(k, states) == {c \in Cases : run[k].row[c] \in states}
ActiveFolders(k) == {run[k].at[c] : c \in Rows(k, {"ACTIVE"})}
StartedFolders(k) == {run[k].at[c] : c \in Rows(k, {"STARTING", "ACTIVE"})}

Goto(k, label) == phase' = [phase EXCEPT ![k] = label]

(* The call ends, normally or not; a lease it holds is released with it.   *)
Leave(k) ==
  /\ Goto(k, "idle")
  /\ run' = [run EXCEPT ![k] = NoRun]
  /\ lease' = IF lease = k THEN Nobody ELSE lease

-----------------------------------------------------------------------------
(* Before the first worker.                                                *)

(* _subjects and engine_identity run before the lease is asked for.        *)
Arrive(k) ==
  /\ phase[k] = "idle"
  /\ clock < MaxRuns
  /\ clock' = clock + 1
  /\ Goto(k, "lease")
  /\ run' = [run EXCEPT ![k] = Fresh(engine, inputs)]
  /\ UNCHANGED <<inputs, engine, lease, att, ledger, reports>>

(* Defect: a lock that is held is not an obstacle. *)
TakeLeaseShared(k) ==
  /\ phase[k] = "lease"
  /\ lease' = k
  /\ Goto(k, "preflight")
  /\ UNCHANGED <<inputs, engine, att, ledger, reports, run, clock>>

TakeLease(k) ==
  /\ phase[k] = "lease"
  /\ lease = Nobody
  /\ lease' = k
  /\ Goto(k, "preflight")
  /\ UNCHANGED <<inputs, engine, att, ledger, reports, run, clock>>

(* "Portfolio output already has an active coordinator" *)
LeaseRefused(k) ==
  /\ phase[k] = "lease"
  /\ lease # Nobody
  /\ Leave(k)
  /\ UNCHANGED <<inputs, engine, att, ledger, reports, clock>>

(* _fresh: the cases whose inputs are not the bytes of their candidate. *)
Changed(k) == {c \in Cases : inputs[c] # run[k].sel[c]}

Preflight(k) ==
  /\ phase[k] = "preflight"
  /\ \/ /\ Changed(k) = {}
        /\ Goto(k, "choose")
        /\ UNCHANGED <<run, lease>>
     \/ /\ Changed(k) # {}
        /\ Leave(k)
  /\ UNCHANGED <<inputs, engine, att, ledger, reports, clock>>

(* The folders in the bucket of this row's key. *)
Bucket(k, c) ==
  {a \in Folders : /\ att[a].case = c
                   /\ att[a].cand = run[k].sel[c]
                   /\ att[a].eng = run[k].eng}

(* receipt.json is there, its evidence is current, it is not invalidated.  *)
Reusable(k, c) ==
  {a \in Bucket(k, c) :
     att[a].receipt # "none" /\ att[a].receipt = att[a].bytes /\ ~att[a].invalid}

(* Defect: the recovery loop does not look for the marker. *)
RecoverableMarked(k, c) ==
  {a \in Bucket(k, c) : att[a].observed # 0 /\ att[a].bytes = "scanned"}

(* Defect: the recovery loop looks for artifacts, not for completion.json. *)
RecoverableUnfinished(k, c) ==
  {a \in Bucket(k, c) : att[a].bytes = "scanned" /\ ~att[a].invalid}

(* completion.json is there, its artifacts are as it says, not invalidated *)
Recoverable(k, c) ==
  {a \in Bucket(k, c) :
     att[a].observed # 0 /\ att[a].bytes = "scanned" /\ ~att[a].invalid}

(* The folders both loops have looked at in vain because of their bytes.   *)
Drifted(k, c) ==
  {a \in Bucket(k, c) : att[a].observed # 0 /\ att[a].bytes = "altered"}

Row(k, c, state, a) ==
  run' = [run EXCEPT ![k].row[c] = state, ![k].at[c] = a, ![k].todo = @ \ {c}]

(* Reuse, else recover, else queue: the order of the two loops.  Folders   *)
(* that do not qualify are left as they are, for every reason alike.       *)
Choose(k, c) ==
  /\ phase[k] = "choose"
  /\ c \in run[k].todo
  /\ \/ /\ \E a \in Reusable(k, c) : Row(k, c, "REUSED", a)
        /\ UNCHANGED att
     \/ /\ Reusable(k, c) = {}
        /\ \E a \in Recoverable(k, c) : Row(k, c, "RECOVERING", a)
        /\ UNCHANGED att
     \/ /\ Reusable(k, c) = {}
        /\ Recoverable(k, c) = {}
        /\ Row(k, c, "QUEUED", NoAttempt)
        /\ att' = [a \in Attempts |->
             IF a \in Drifted(k, c) THEN [att[a] EXCEPT !.noticed = TRUE] ELSE att[a]]
  /\ UNCHANGED <<inputs, engine, lease, ledger, reports, phase, clock>>

EndChoose(k) ==
  /\ phase[k] = "choose"
  /\ run[k].todo = {}
  /\ Goto(k, "scan")
  /\ UNCHANGED <<inputs, engine, lease, att, ledger, reports, run, clock>>

-----------------------------------------------------------------------------
(* The scan loop.                                                          *)

(* A fresh folder, its request, and the process, still at its gate.  The   *)
(* interpreter loads the engine's code as it starts.                       *)
Launch(k, c) ==
  /\ phase[k] = "scan"
  /\ run[k].row[c] = "QUEUED"
  /\ Rows(k, {"STARTING"}) = {}
  /\ Cardinality(Rows(k, {"ACTIVE"})) < Jobs
  /\ \A a \in ActiveFolders(k) : att[a].gate
  /\ \E a \in Attempts \ Folders :
       /\ att' = [att EXCEPT ![a] =
            [case |-> c, cand |-> run[k].sel[c], eng |-> run[k].eng,
             worker |-> "waiting", gate |-> FALSE, orphan |-> FALSE, stray |-> FALSE,
             ran |-> {engine}, read |-> {}, bytes |-> "none", observed |-> 0,
             invalid |-> FALSE, receipt |-> "none", noticed |-> FALSE]]
       /\ run' = [run EXCEPT ![k].row[c] = "STARTING", ![k].at[c] = a]
  /\ UNCHANGED <<inputs, engine, lease, ledger, reports, phase, clock>>

(* The process is put on the list of those that are polled and closed.     *)
Register(k, c) ==
  /\ phase[k] = "scan"
  /\ run[k].row[c] = "STARTING"
  /\ run' = [run EXCEPT ![k].row[c] = "ACTIVE"]
  /\ UNCHANGED <<inputs, engine, lease, att, ledger, reports, phase, clock>>

(* start.json: the whole process family has an owner now. *)
OpenGate(k, c) ==
  /\ phase[k] = "scan"
  /\ run[k].row[c] = "ACTIVE"
  /\ ~att[run[k].at[c]].gate
  /\ att' = [att EXCEPT ![run[k].at[c]].gate = TRUE]
  /\ UNCHANGED <<inputs, engine, lease, ledger, reports, phase, run, clock>>

(* AnalysisProcess.close that returns: the process group is gone. *)
Close(folders) ==
  [a \in Attempts |->
     IF a \in folders /\ Live(a) THEN [att[a] EXCEPT !.worker = "failed"] ELSE att[a]]

(* The worker has exited with 0 in time and its response is readable: the  *)
(* completion record binds the artifacts.                                  *)
PollScanned(k, c) ==
  LET a == run[k].at[c] IN
  /\ phase[k] = "scan"
  /\ run[k].row[c] = "ACTIVE"
  /\ att[a].gate
  /\ att[a].worker = "exited"
  /\ att' = [att EXCEPT ![a].observed = clock]
  /\ run' = [run EXCEPT ![k].row[c] = "SCANNED"]
  /\ UNCHANGED <<inputs, engine, lease, ledger, reports, phase, clock>>

(* A non-zero exit, or an exit with 0 whose artifacts cannot be read. *)
PollFailed(k, c) ==
  LET a == run[k].at[c] IN
  /\ phase[k] = "scan"
  /\ run[k].row[c] = "ACTIVE"
  /\ att[a].gate
  /\ att[a].worker \in {"failed", "exited"}
  /\ run' = [run EXCEPT ![k].row[c] = "FAILED"]
  /\ UNCHANGED <<inputs, engine, lease, att, ledger, reports, phase, clock>>

(* Defect: a worker without an exit code is skipped, late or not. *)
PollTimeoutOfExited(k, c) ==
  /\ phase[k] = "scan"
  /\ run[k].row[c] = "ACTIVE"
  /\ att[run[k].at[c]].gate
  /\ ~Live(run[k].at[c])
  /\ run' = [run EXCEPT ![k].row[c] = "TIMEOUT"]
  /\ UNCHANGED <<inputs, engine, lease, att, ledger, reports, phase, clock>>

(* The time is up, whatever the exit code says: the answer comes too late. *)
PollTimeout(k, c) ==
  /\ phase[k] = "scan"
  /\ run[k].row[c] = "ACTIVE"
  /\ att[run[k].at[c]].gate
  /\ att' = Close({run[k].at[c]})
  /\ run' = [run EXCEPT ![k].row[c] = "TIMEOUT"]
  /\ UNCHANGED <<inputs, engine, lease, ledger, reports, phase, clock>>

EndScan(k) ==
  /\ phase[k] = "scan"
  /\ Rows(k, {"QUEUED", "STARTING", "ACTIVE"}) = {}
  /\ Goto(k, "postflight")
  /\ UNCHANGED <<inputs, engine, lease, att, ledger, reports, run, clock>>

(* Defect: the finally clause runs before the reason is known. *)
StopUnexplained(k, reason) ==
  /\ phase[k] = "scan"
  /\ att' = Close(ActiveFolders(k))
  /\ run' = [run EXCEPT ![k].row =
       [c \in Cases |-> IF @[c] = "ACTIVE" THEN "INTERRUPTED" ELSE @[c]]]
  /\ Goto(k, "postflight")
  /\ UNCHANGED <<inputs, engine, lease, ledger, reports, clock>>

(* Cancellation, Ctrl+C or the memory threshold: the loop ends, the        *)
(* finally clause closes every listed worker, open rows keep the reason.   *)
(* Ctrl+C may come between a process and its place on the list.            *)
Stop(k, reason) ==
  /\ phase[k] \in {"choose", "scan"}
  /\ reason = "MEMORY_STOP" =>
       /\ phase[k] = "scan"
       /\ Rows(k, {"STARTING"}) = {}
       /\ Rows(k, {"ACTIVE"}) # {}
       /\ \A a \in ActiveFolders(k) : att[a].gate
  /\ att' = Close(ActiveFolders(k))
  /\ run' = [run EXCEPT ![k].row =
       [c \in Cases |-> IF @[c] \in {"QUEUED", "STARTING", "ACTIVE"} THEN reason ELSE @[c]]]
  /\ Goto(k, "postflight")
  /\ UNCHANGED <<inputs, engine, lease, ledger, reports, clock>>

(* Defect: no finally clause around the scan loop. *)
RaiseUnclosed(k) ==
  /\ phase[k] \in Inside
  /\ Leave(k)
  /\ UNCHANGED <<inputs, engine, att, ledger, reports, clock>>

(* Any other exception, in any phase: what is listed is closed and it      *)
(* leaves.                                                                 *)
Raise(k) ==
  /\ phase[k] \in Inside
  /\ att' = Close(ActiveFolders(k))
  /\ Leave(k)
  /\ UNCHANGED <<inputs, engine, ledger, reports, clock>>

(* close() itself raises, of a worker that does not end or cannot be       *)
(* killed: that ends the loop of the finally clause, too, and whatever of  *)
(* the list still runs is left to itself, with the coordinator's process   *)
(* alive.                                                                  *)
CloseRaises(k) ==
  /\ phase[k] = "scan"
  /\ \E closed \in SUBSET ActiveFolders(k) :
       LET left == ActiveFolders(k) \ closed IN
       /\ left # {}
       /\ att' = [a \in Attempts |->
            IF a \in left /\ Live(a) THEN [att[a] EXCEPT !.stray = TRUE] ELSE Close(closed)[a]]
  /\ Leave(k)
  /\ UNCHANGED <<inputs, engine, ledger, reports, clock>>

(* The process dies, in any phase: the kernel releases the lease, and the  *)
(* workers are about to be killed by job, death signal or watcher.         *)
Crash(k) ==
  /\ phase[k] # "idle"
  /\ att' = [a \in Attempts |->
       IF a \in StartedFolders(k) THEN [att[a] EXCEPT !.orphan = TRUE] ELSE att[a]]
  /\ Leave(k)
  /\ UNCHANGED <<inputs, engine, ledger, reports, clock>>

-----------------------------------------------------------------------------
(* After the last worker.                                                  *)

(* Defect: only the engine is checked again. *)
PostflightEngineOnly(k) ==
  /\ phase[k] = "postflight"
  /\ run' = [run EXCEPT
       ![k].errors = IF engine # run[k].eng THEN Cases ELSE {},
       ![k].todo = Cases]
  /\ Goto(k, "publish")
  /\ UNCHANGED <<inputs, engine, lease, att, ledger, reports, clock>>

(* The second content check of inputs and engine. *)
Postflight(k) ==
  /\ phase[k] = "postflight"
  /\ run' = [run EXCEPT
       ![k].errors = Changed(k) \union (IF engine # run[k].eng THEN Cases ELSE {}),
       ![k].todo = Cases]
  /\ Goto(k, "publish")
  /\ UNCHANGED <<inputs, engine, lease, att, ledger, reports, clock>>

(* The rows that carry the digests of their artifacts, and whether the     *)
(* artifacts still have them.                                              *)
WithArtifacts == {"SCANNED", "RECOVERING", "REUSED"}
Intact(k, c) ==
  LET a == att[run[k].at[c]] IN
  CASE run[k].row[c] = "REUSED" -> a.bytes = a.receipt
    [] run[k].row[c] \in {"SCANNED", "RECOVERING"} -> a.bytes = "scanned"
    [] OTHER -> TRUE

(* The next row: it is found stale and its attempt marked, or it is        *)
(* cleared for its receipt, or there is nothing to do for it.              *)
CheckRow(k, c) ==
  LET stale == c \in run[k].errors \/ ~Intact(k, c)
      read == run[k].row[c] \in WithArtifacts
      a == run[k].at[c]
  IN
  /\ phase[k] = "publish"
  /\ c \in run[k].todo
  /\ run[k].cleared = {}
  /\ run[k].stored = {}
  /\ \/ /\ stale
        /\ run' = [run EXCEPT ![k].row[c] = "STALE", ![k].todo = @ \ {c}]
        /\ IF read THEN att' = [att EXCEPT ![a].invalid = TRUE] ELSE UNCHANGED att
     \/ /\ ~stale
        /\ run' = [run EXCEPT ![k].todo = @ \ {c},
             ![k].cleared = IF run[k].row[c] \in {"SCANNED", "RECOVERING"} THEN {c} ELSE {}]
        /\ UNCHANGED att
  /\ UNCHANGED <<inputs, engine, lease, ledger, reports, phase, clock>>

(* Defect: the time of publication instead of the time of completion. *)
ReceiptOfNow(a) ==
  [attempt |-> a, case |-> att[a].case, cand |-> att[a].cand, eng |-> att[a].eng,
   evidence |-> att[a].bytes, observed |-> clock]

(* make_receipt reads the evidence again and add_receipt stores the        *)
(* receipt (or raises: Raise).                                             *)
Receipt(a) ==
  [attempt |-> a, case |-> att[a].case, cand |-> att[a].cand, eng |-> att[a].eng,
   evidence |-> att[a].bytes, observed |-> att[a].observed]

(* Defect: a recovered row is taken to have its receipt in the store. *)
StoreReceiptOnce(k, c) ==
  /\ c \in run[k].cleared
  /\ ledger' = IF run[k].row[c] = "RECOVERING" THEN ledger
               ELSE ledger \union {Receipt(run[k].at[c])}
  /\ run' = [run EXCEPT ![k].cleared = {}, ![k].stored = {Receipt(run[k].at[c])}]
  /\ UNCHANGED <<inputs, engine, lease, att, reports, phase, clock>>

StoreReceipt(k, c) ==
  /\ c \in run[k].cleared
  /\ ledger' = ledger \union {Receipt(run[k].at[c])}
  /\ run' = [run EXCEPT ![k].cleared = {}, ![k].stored = {Receipt(run[k].at[c])}]
  /\ UNCHANGED <<inputs, engine, lease, att, reports, phase, clock>>

FileReceipt(k, r) ==
  /\ r \in run[k].stored
  /\ att' = [att EXCEPT ![r.attempt].receipt = r.evidence]
  /\ run' = [run EXCEPT ![k].stored = {},
       ![k].row[r.case] = IF @ = "RECOVERING" THEN "RECOVERED" ELSE "ANALYZED"]
  /\ UNCHANGED <<inputs, engine, lease, ledger, reports, phase, clock>>

(* Defect: COMPLETE is the absence of stale rows. *)
ReportUnlessStale(k) ==
  /\ phase[k] = "publish"
  /\ run[k].todo = {}
  /\ run[k].cleared = {}
  /\ run[k].stored = {}
  /\ reports' = reports \union
       {[sel |-> run[k].sel, eng |-> run[k].eng, complete |-> Rows(k, {"STALE"}) = {}]}
  /\ Leave(k)
  /\ UNCHANGED <<inputs, engine, att, ledger, clock>>

(* The run summary, the last thing a call writes. *)
Done == {"ANALYZED", "REUSED", "RECOVERED"}
Report(k) ==
  /\ phase[k] = "publish"
  /\ run[k].todo = {}
  /\ run[k].cleared = {}
  /\ run[k].stored = {}
  /\ reports' = reports \union
       {[sel |-> run[k].sel, eng |-> run[k].eng, complete |-> Rows(k, Done) = Cases]}
  /\ Leave(k)
  /\ UNCHANGED <<inputs, engine, att, ledger, clock>>

-----------------------------------------------------------------------------
(* The worker process (portfolio_worker.main).                             *)

(* The gate is open and the engine is the one of the request. *)
WorkerStart(a) ==
  /\ att[a].worker = "waiting"
  /\ att[a].gate
  /\ engine = att[a].eng
  /\ att' = [att EXCEPT ![a].worker = "started"]
  /\ UNCHANGED <<inputs, engine, lease, ledger, reports, phase, run, clock>>

(* evaluate_request reads the inputs and loads further code as it goes. *)
WorkerReads(a) ==
  /\ att[a].worker = "started"
  /\ att' = [att EXCEPT ![a].read = @ \union {inputs[att[a].case]},
                        ![a].ran = @ \union {engine}]
  /\ UNCHANGED <<inputs, engine, lease, ledger, reports, phase, run, clock>>

(* The engine is checked again; response.json, then metrics.json.          *)
WorkerWrites(a) ==
  /\ att[a].worker = "started"
  /\ att[a].read # {}
  /\ engine = att[a].eng
  /\ att' = [att EXCEPT ![a].worker = "wrote", ![a].bytes = "scanned"]
  /\ UNCHANGED <<inputs, engine, lease, ledger, reports, phase, run, clock>>

WorkerExits(a) ==
  /\ att[a].worker = "wrote"
  /\ att' = [att EXCEPT ![a].worker = "exited"]
  /\ UNCHANGED <<inputs, engine, lease, ledger, reports, phase, run, clock>>

(* An exception (a changed engine is one), the 30 seconds at the gate, or  *)
(* the end of an orphan.                                                   *)
WorkerFails(a) ==
  /\ Live(a)
  /\ att' = [att EXCEPT ![a].worker = "failed"]
  /\ UNCHANGED <<inputs, engine, lease, ledger, reports, phase, run, clock>>

-----------------------------------------------------------------------------
(* The world.                                                              *)

EditInputs(c) ==
  /\ inputs[c] < MaxVersion
  /\ inputs' = [inputs EXCEPT ![c] = @ + 1]
  /\ UNCHANGED <<engine, lease, att, ledger, reports, phase, run, clock>>

EditEngine ==
  /\ engine < MaxEngine
  /\ engine' = engine + 1
  /\ UNCHANGED <<inputs, lease, att, ledger, reports, phase, run, clock>>

(* Artifacts of a completed attempt are altered, or brought back. *)
Alter(a) ==
  /\ a \in Folders
  /\ att[a].observed # 0
  /\ att' = [att EXCEPT ![a].bytes = IF @ = "scanned" THEN "altered" ELSE "scanned"]
  /\ UNCHANGED <<inputs, engine, lease, ledger, reports, phase, run, clock>>

Step(k) ==
  \/ Arrive(k) \/ TakeLease(k) \/ LeaseRefused(k) \/ Preflight(k) \/ EndChoose(k)
  \/ EndScan(k) \/ Postflight(k) \/ Report(k)
  \/ \E c \in Cases :
       \/ Choose(k, c) \/ Launch(k, c) \/ Register(k, c) \/ OpenGate(k, c)
       \/ PollScanned(k, c) \/ PollFailed(k, c) \/ PollTimeout(k, c)
       \/ CheckRow(k, c) \/ StoreReceipt(k, c)
  \/ \E r \in run[k].stored : FileReceipt(k, r)

Interruption(k) ==
  \/ \E reason \in {"CANCELLED", "MEMORY_STOP"} : Stop(k, reason)
  \/ Raise(k)
  \/ CloseRaises(k)
  \/ Crash(k)

Worker(a) ==
  \/ WorkerStart(a) \/ WorkerReads(a) \/ WorkerWrites(a) \/ WorkerExits(a) \/ WorkerFails(a)

World ==
  \/ EditEngine
  \/ \E c \in Cases : EditInputs(c)
  \/ \E a \in Attempts : Alter(a)

Next ==
  \/ \E k \in Coordinators : Step(k) \/ Interruption(k)
  \/ \E a \in Attempts : Worker(a)
  \/ World

Spec == Init /\ [][Next]_vars

(* A coordinator that runs goes on: its loop polls every 25 ms, and the    *)
(* timeout of a worker does pass.  Nothing is assumed of the workers.      *)
FairSpec == Spec /\ \A k \in Coordinators : WF_vars(phase[k] # "idle" /\ Step(k))

-----------------------------------------------------------------------------
(* Properties.                                                             *)

TypeOK ==
  /\ inputs \in [Cases -> Versions]
  /\ engine \in Engines
  /\ lease \in Coordinators \union {Nobody}
  /\ att \in [Attempts -> AttemptRecords \union {NoFolder}]
  /\ ledger \subseteq ReceiptRecords
  /\ reports \subseteq ReportRecords
  /\ phase \in [Coordinators -> Phases]
  /\ run \in [Coordinators -> RunRecords]
  /\ clock \in Stamps

(* Exactly the holder of the kernel lock is past the lease: two            *)
(* coordinators never choose, scan or publish in one output directory.     *)
OneCoordinator ==
  \A k \in Coordinators : phase[k] \in Inside <=> lease = k

(* Every stored receipt says what happened: its attempt's worker ran code  *)
(* of the receipt's engine only and met no bytes but the candidate's,      *)
(* although inputs and engine can be edited between any two of its reads.  *)
Truthful ==
  \A r \in ledger :
    att[r.attempt].ran = {r.eng} /\ att[r.attempt].read = {r.cand}

(* An attempt has one receipt per content of its artifacts, however often  *)
(* its publication was interrupted and recovered: the time of the          *)
(* completion record is kept.                                              *)
OneReceipt ==
  \A r, s \in ledger : r.attempt = s.attempt /\ r.evidence = s.evidence => r = s

(* What a later run may reuse is in the case store: a receipt.json without *)
(* its stored record would make a COMPLETE portfolio nobody can look up.   *)
FiledIsStored ==
  \A a \in Folders :
    att[a].receipt # "none" =>
      \E r \in ledger : /\ r.attempt = a
                        /\ r.evidence = att[a].receipt
                        /\ r.case = att[a].case
                        /\ r.cand = att[a].cand
                        /\ r.eng = att[a].eng

(* A summary says COMPLETE only if every selected candidate has a receipt  *)
(* of that engine in the case store.                                       *)
CompleteIsAnalysed ==
  \A p \in reports : p.complete =>
    \A c \in Cases : \E r \in ledger : r.case = c /\ r.cand = p.sel[c] /\ r.eng = p.eng

(* What a coordinator takes for an attempt's result was finished by its    *)
(* worker: every row with artifacts, taken over from an earlier run or     *)
(* not, and every stored receipt names an attempt whose worker wrote both  *)
(* artifacts and left by itself with success, never one that was killed    *)
(* after it had written, and never one that still runs, past its time,     *)
(* past the death of its coordinator or past a close() that failed.        *)
EvidenceSettled ==
  /\ \A k \in Coordinators : \A c \in Rows(k, WithArtifacts \union {"ANALYZED", "RECOVERED"}) :
       att[run[k].at[c]].worker = "exited"
  /\ \A r \in ledger : att[r.attempt].worker = "exited"

(* No row is backed by an attempt with an invalidation marker.             *)
InvalidStaysOut ==
  \A k \in Coordinators : \A c \in Rows(k, WithArtifacts \union {"ANALYZED", "RECOVERED"}) :
    ~att[run[k].at[c]].invalid

(* "Workers wait at a gate until their entire launch family has an owner": *)
(* a worker past its gate is on the list of a coordinator that polls and   *)
(* closes it, unless that coordinator died (then job, death signal or      *)
(* watcher kill it) or its own close() failed.  A worker that an interrupt *)
(* kept off the list never passes the gate.                                *)
Owned ==
  \A a \in Folders : Live(a) /\ att[a].gate /\ ~att[a].orphan /\ ~att[a].stray =>
    \E k \in Coordinators : a \in ActiveFolders(k)

(* BOUND: a call with a worker to launch waits when no folder name is left. *)
OutOfFolders(k) == Rows(k, {"QUEUED"}) # {} /\ Attempts \subseteq Folders

(* Every call comes to its end, even if its workers hang for ever. *)
RunEnds ==
  \A k \in Coordinators : phase[k] # "idle" ~> phase[k] = "idle" \/ OutOfFolders(k)

(* docs/S2_PORTFOLIO_OPERATOR_GUIDE.md: "Observed input/engine/artifact    *)
(* drift invalidates that attempt even if its bytes are later restored."   *)
ObservedDriftInvalidates ==
  \A k \in Coordinators : \A c \in Rows(k, {"REUSED", "RECOVERING"}) :
    ~att[run[k].at[c]].noticed
=============================================================================
