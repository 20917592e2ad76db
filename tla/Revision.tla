------------------------------ MODULE Revision ------------------------------
(***************************************************************************)
(* A revised mod is tested as the bytes it is archived as (revise.py).     *)
(* `revise prepare` bumps the version and journals the candidate, a live   *)
(* run of it is recorded (live/live_trust.py), `revise finalize` archives  *)
(* it (archive.py), snapshots and saves the journal after each step; it    *)
(* may fail or die anywhere and is run again.  Meanwhile a person edits    *)
(* the working copy, plays other runs and archives the mod with other      *)
(* commands, which take no lock and run beside a prepare or finalize.      *)
(*                                                                         *)
(* Shipped bytes are mod_info.json, that is its version, and the rest.  A  *)
(* hash is the bytes themselves.                                           *)
(***************************************************************************)
EXTENDS Integers

CONSTANTS
  Bodies,     \* contents of everything but mod_info.json
  Delivered,  \* the one the working copy starts with
  Tests,      \* run ids
  Refused,    \* those with junk files or orphaned fixer backups
  MaxVersion, \* BOUND: the largest N of +bf.N
  MaxFaults,  \* BOUND: failures and crashes
  MaxEdits,   \* BOUND: edits of the working copy
  MaxRuns,    \* BOUND: games played
  MaxArchives, \* BOUND: archive commands beside revise
  Nothing     \* no journal, archive, run or file

ASSUME DeliveredAssumption == Delivered \in Bodies
ASSUME RefusedAssumption == Refused \subseteq Bodies
ASSUME MaxVersionAssumption == MaxVersion \in Nat
ASSUME MaxFaultsAssumption == MaxFaults \in Nat
ASSUME MaxEditsAssumption == MaxEdits \in Nat
ASSUME MaxRunsAssumption == MaxRuns \in Nat
ASSUME MaxArchivesAssumption == MaxArchives \in Nat

Versions == 0..MaxVersion
Bytes == [body : Bodies, version : Versions]
Runs == [test : Tests, bytes : Bytes]
States == {"PREPARED", "LIVE_ACCEPTED", "ARCHIVED", "SNAPSHOTTED", "COMPLETE"}
Journals == [state : States, candidate : Bytes, test : Tests \union {Nothing}]
(* An archive is whole when its note is there. *)
Archives ==
  [body : Bodies \union {Nothing}, version : Versions \union {Nothing}, note : BOOLEAN]

ASSUME NothingAssumption ==
  /\ Nothing \notin Bodies \union Tests \union Versions
  /\ Nothing \notin Bytes \union Runs \union Journals \union Archives

VARIABLES
  working,   \* the working copy
  staged,    \* the run being played: its id and the bytes the game loaded
  lines,     \* live_runs.jsonl: what the last line of each run id is bound to
  trusted,   \* live_runs.jsonl: the last line that is a bound PASS
  journal,   \* reports/revisions/<mod>-<version>.json
  lock,      \* reports/revisions/.lock exists
  done,      \* Done/<Mod>
  kept,      \* the whole archives in Done/_replaced-* and Done/_failed-*
  gates,     \* a licence decision is recorded and the content gates hold
  call,      \* the running prepare or finalize
  archiver,  \* the running archive_mod: finalize's, or a command of its own
  replaced,  \* history: a command of its own changed Done/<Mod> since the
             \* running finalize found its candidate there
  faults,    \* how many failures and crashes there were (for MaxFaults)
  edits,     \* how often the working copy was edited (for MaxEdits)
  runs,      \* how many games were played (for MaxRuns)
  archives,  \* how many archive commands there were (for MaxArchives)
  proven     \* history: bytes a game loaded in an acceptable, passing run

archive == <<done, kept>>
evidence == <<staged, lines, trusted, proven>>
bounds == <<faults, edits, runs, archives>>
shelving == <<archive, gates, archiver, replaced>>
vars == <<working, evidence, journal, lock, shelving, call, bounds>>

Idle == [pc |-> "idle"]
PreparePcs == {"opening", "pending", "version", "save"}
FinalizePcs ==
  {"finalize", "candidate", "run", "archive", "archiving", "written", "archived",
   "snapshot", "complete"}
ArchiverPcs == {"aside", "body", "info", "note", "log", "restore", "putback"}
PrepareCalls ==
  [pc : PreparePcs, keep : BOOLEAN, refresh : BOOLEAN, old : Versions,
   rev : Versions \union {Nothing}]
FinalizeCalls == [pc : FinalizePcs, rev : Versions, test : Tests]
Calls == {Idle} \union PrepareCalls \union FinalizeCalls
(* plain: not called by finalize. *)
ArchiverCalls ==
  [pc : ArchiverPcs, plain : BOOLEAN, moved : Archives \union {Nothing}, before : SUBSET Archives]
Archivers == {Idle} \union ArchiverCalls

Init ==
  /\ working = [body |-> Delivered, version |-> 0]
  /\ staged = Nothing
  /\ lines = [t \in Tests |-> Nothing]
  /\ trusted = Nothing
  /\ journal = [v \in Versions |-> Nothing]
  /\ lock = FALSE
  /\ done = Nothing
  /\ kept = {}
  /\ gates = TRUE
  /\ call = Idle
  /\ archiver = Idle
  /\ replaced = FALSE
  /\ faults = 0
  /\ edits = 0
  /\ runs = 0
  /\ archives = 0
  /\ proven = {}

Goto(pc) == call' = [call EXCEPT !.pc = pc]

(* A call returns or raises, and removes its lock file. *)
Return == call' = Idle /\ lock' = FALSE

Known == {v \in Versions : journal[v] # Nothing}
Pending == {v \in Known : journal[v].state # "COMPLETE"}

-----------------------------------------------------------------------------
(* revise prepare.                                                         *)

(* mod_info.json is read before the lock is taken.                         *)
(* BOUND: no version is bumped past MaxVersion.                            *)
Prepare(keep, refresh) ==
  /\ call = Idle
  /\ keep \/ working.version < MaxVersion
  /\ call' = [pc |-> "opening", keep |-> keep, refresh |-> refresh,
              old |-> working.version, rev |-> Nothing]
  /\ UNCHANGED <<working, evidence, journal, lock, shelving, bounds>>

(* The lock file is created exclusively, or the call is refused. *)
Lock ==
  /\ call.pc \in {"opening", "finalize"}
  /\ IF lock
       THEN call' = Idle /\ UNCHANGED lock
       ELSE /\ lock' = TRUE
            /\ Goto(IF call.pc = "opening" THEN "pending" ELSE "candidate")
  /\ UNCHANGED <<working, evidence, journal, shelving, bounds>>

(* Mutant: any pending revision is refreshed. *)
RefreshedAlways(v) ==
  IF call.refresh THEN [journal EXCEPT ![v].candidate = working] ELSE journal

(* A pending revision is returned, refused or, on request and before its   *)
(* test was accepted, given the candidate that is there now.               *)
Refreshed(v) ==
  IF call.refresh /\ journal[v].state = "PREPARED" /\ journal[v].candidate # working
    THEN [journal EXCEPT ![v].candidate = working]
    ELSE journal

ResumePending ==
  /\ call.pc = "pending"
  /\ Pending # {}
  /\ IF \E v \in Pending : Pending = {v}
       THEN journal' = Refreshed(CHOOSE v \in Pending : TRUE)
       ELSE UNCHANGED journal
  /\ Return
  /\ UNCHANGED <<working, evidence, shelving, bounds>>

(* Mutant: pending revisions of other versions are not looked for. *)
ChooseVersionAlways ==
  /\ call.pc = "pending"
  /\ call' = [call EXCEPT !.pc = "version",
                         !.rev = IF call.keep THEN call.old ELSE call.old + 1]
  /\ UNCHANGED <<working, evidence, journal, lock, shelving, bounds>>

(* The new version: refused when the present archive already carries it.   *)
ChooseVersion ==
  /\ call.pc = "pending"
  /\ Pending = {}
  /\ LET new == IF call.keep THEN call.old ELSE call.old + 1 IN
       IF done # Nothing /\ done.version = new
         THEN Return
         ELSE call' = [call EXCEPT !.pc = "version", !.rev = new] /\ UNCHANGED lock
  /\ UNCHANGED <<working, evidence, journal, shelving, bounds>>

(* The bump looks for the version it read before the lock. *)
WriteVersion ==
  /\ call.pc = "version"
  /\ IF call.keep \/ working.version = call.old
       THEN /\ working' = IF call.keep THEN working ELSE [working EXCEPT !.version = call.rev]
            /\ Goto("save")
            /\ UNCHANGED lock
       ELSE Return /\ UNCHANGED working
  /\ UNCHANGED <<evidence, journal, shelving, bounds>>

(* Mutant: the journal is saved before its state is set. *)
SavePreparedStateless ==
  /\ call.pc = "save"
  /\ journal' =
       IF journal[call.rev] = Nothing
         THEN [journal EXCEPT ![call.rev] = [candidate |-> working, test |-> Nothing]]
         ELSE journal
  /\ Return
  /\ UNCHANGED <<working, evidence, shelving, bounds>>

(* A version that was used for a revision before is refused, but only now. *)
SavePrepared ==
  /\ call.pc = "save"
  /\ journal' =
       IF journal[call.rev] = Nothing
         THEN [journal EXCEPT ![call.rev] =
                 [state |-> "PREPARED", candidate |-> working, test |-> Nothing]]
         ELSE journal
  /\ Return
  /\ UNCHANGED <<working, evidence, shelving, bounds>>

-----------------------------------------------------------------------------
(* Live runs.                                                              *)

(* A game is started with what is in the working copy. *)
Play(t) ==
  /\ staged = Nothing
  /\ runs < MaxRuns
  /\ runs' = runs + 1
  /\ staged' = [test |-> t, bytes |-> working]
  /\ UNCHANGED <<working, lines, trusted, proven, journal, lock, shelving, call, faults, edits, archives>>

(* Mutant: the hash is of now, the provenance of the run. *)
RecordUncompared(pass, acceptable) ==
  /\ staged # Nothing
  /\ staged' = Nothing
  /\ LET bound == pass /\ acceptable IN
       /\ lines' = [lines EXCEPT ![staged.test] = IF bound THEN working ELSE Nothing]
       /\ trusted' = IF bound THEN [test |-> staged.test, bytes |-> working] ELSE trusted
  /\ proven' = IF pass /\ acceptable THEN proven \union {staged.bytes} ELSE proven
  /\ UNCHANGED <<working, journal, lock, shelving, call, bounds>>

(* write_run_record, of a run whose verdict is PASS or not and whose       *)
(* evidence is acceptable or not: the line is bound to the hash of now     *)
(* only if the run loaded those bytes.  Of any other line no hash is read. *)
Record(pass, acceptable) ==
  /\ staged # Nothing
  /\ staged' = Nothing
  /\ LET bound == pass /\ acceptable /\ staged.bytes = working IN
       /\ lines' = [lines EXCEPT ![staged.test] = IF bound THEN working ELSE Nothing]
       /\ trusted' = IF bound THEN [test |-> staged.test, bytes |-> working] ELSE trusted
  /\ proven' = IF pass /\ acceptable THEN proven \union {staged.bytes} ELSE proven
  /\ UNCHANGED <<working, journal, lock, shelving, call, bounds>>

(* _bound_run, and live_status is CURRENT for that run. *)
Qualifies(v, t) ==
  /\ lines[t] = journal[v].candidate
  /\ lines[t].version = v
  /\ trusted = [test |-> t, bytes |-> working]

-----------------------------------------------------------------------------
(* revise finalize.                                                        *)

Finalize(v, t) ==
  /\ call = Idle
  /\ call' = [pc |-> "finalize", rev |-> v, test |-> t]
  /\ UNCHANGED <<working, evidence, journal, lock, shelving, bounds>>

Entry == journal[call.rev]
SetState(state) == journal' = [journal EXCEPT ![call.rev].state = state]

(* The journal is read; a complete one is reported, a changed working copy *)
(* refused.                                                                *)
CheckCandidate ==
  /\ call.pc = "candidate"
  /\ IF /\ Entry # Nothing
        /\ Entry.state # "COMPLETE"
        /\ Entry.candidate = working
       THEN Goto("run") /\ UNCHANGED lock
       ELSE Return
  /\ UNCHANGED <<working, evidence, journal, shelving, bounds>>

BoundRun ==
  /\ call.pc = "run"
  /\ Qualifies(call.rev, call.test)
  /\ Entry.state # "PREPARED" => Entry.test = call.test
  /\ journal' = IF Entry.state = "PREPARED"
                  THEN [journal EXCEPT ![call.rev].state = "LIVE_ACCEPTED",
                                       ![call.rev].test = call.test]
                  ELSE journal
  /\ Goto("archive")
  /\ UNCHANGED <<working, evidence, lock, shelving, bounds>>

(* The run does not qualify, or the audit, migration or content gates of a *)
(* first acceptance do not hold.                                           *)
RunRefused ==
  /\ call.pc = "run"
  /\ \/ ~Qualifies(call.rev, call.test)
     \/ Entry.state = "PREPARED"
     \/ Entry.test # call.test
  /\ Return
  /\ UNCHANGED <<working, evidence, journal, shelving, bounds>>

Whole(a) == a # Nothing /\ a.note
WholeOf(a) == {b \in {a} : Whole(b)}
Holds(a, bytes) == Whole(a) /\ a.body = bytes.body /\ a.version = bytes.version

(* What an earlier call archived is verified, and otherwise reconciled if  *)
(* it is there.                                                            *)
StepArchive ==
  /\ call.pc = "archive"
  /\ IF Holds(done, Entry.candidate)
       THEN /\ Goto(IF Entry.state = "LIVE_ACCEPTED" THEN "archived" ELSE "snapshot")
            /\ replaced' = FALSE
            /\ UNCHANGED lock
       ELSE /\ IF Entry.state = "LIVE_ACCEPTED" THEN Goto("archiving") /\ UNCHANGED lock ELSE Return
            /\ UNCHANGED replaced
  /\ UNCHANGED <<working, evidence, journal, archive, gates, archiver, bounds>>

(* Mutant: what was written is taken for what was tested. *)
VerifyNothing ==
  /\ call.pc = "written"
  /\ Goto("archived")
  /\ replaced' = FALSE
  /\ UNCHANGED <<working, evidence, journal, lock, archive, gates, archiver, bounds>>

(* What archive_mod wrote is compared with what was tested. *)
Verify ==
  /\ call.pc = "written"
  /\ IF Holds(done, Entry.candidate)
       THEN Goto("archived") /\ replaced' = FALSE /\ UNCHANGED lock
       ELSE Return /\ UNCHANGED replaced
  /\ UNCHANGED <<working, evidence, journal, archive, gates, archiver, bounds>>

SetArchived ==
  /\ call.pc = "archived"
  /\ SetState("ARCHIVED")
  /\ Goto("snapshot")
  /\ UNCHANGED <<working, evidence, lock, shelving, bounds>>

StepSnapshot ==
  /\ call.pc = "snapshot"
  /\ SetState("SNAPSHOTTED")
  /\ Goto("complete")
  /\ UNCHANGED <<working, evidence, lock, shelving, bounds>>

SetComplete ==
  /\ call.pc = "complete"
  /\ SetState("COMPLETE")
  /\ Return
  /\ UNCHANGED <<working, evidence, shelving, bounds>>

-----------------------------------------------------------------------------
(* archive_mod, for finalize and for a command of its own: `archive`, or   *)
(* the archiving of a recorded probe group.  Two of them on the mod at the *)
(* same time are not modelled: the second waits.                           *)

Started(plain) == [pc |-> "aside", plain |-> plain, moved |-> Nothing, before |-> {}]
Proceed(pc) == archiver' = [archiver EXCEPT !.pc = pc]
Touch == replaced' = (replaced \/ archiver.plain)

(* archive_mod raises, and with it the finalize that called it. *)
Raise ==
  /\ archiver' = Idle
  /\ IF archiver.plain THEN UNCHANGED <<call, lock>> ELSE Return

Archive ==
  /\ archiver = Idle
  /\ archives < MaxArchives
  /\ archives' = archives + 1
  /\ archiver' = Started(TRUE)
  /\ UNCHANGED <<working, evidence, journal, lock, archive, gates, replaced, call, faults, edits, runs>>

CallArchiveMod ==
  /\ call.pc = "archiving"
  /\ archiver = Idle
  /\ archiver' = Started(FALSE)
  /\ UNCHANGED <<working, evidence, journal, lock, archive, gates, replaced, call, bounds>>

(* Junk, orphaned backups, no licence decision or a content gate: refused  *)
(* before anything is moved.  A reason may open the content gates to a     *)
(* command of its own; finalize has asked for one before it accepted.      *)
Refuse ==
  /\ archiver.pc = "aside"
  /\ working.body \in Refused \/ ~gates
  /\ Raise
  /\ UNCHANGED <<working, evidence, journal, archive, gates, replaced, bounds>>

(* Mutants: what is there is deleted; what is there refuses the call. *)
MoveAsideDeleting ==
  /\ archiver.pc = "aside"
  /\ done' = Nothing
  /\ Touch
  /\ Proceed("body")
  /\ UNCHANGED <<working, evidence, journal, lock, kept, gates, call, bounds>>

MoveAsideRefusing ==
  /\ archiver.pc = "aside"
  /\ IF done = Nothing THEN Proceed("body") /\ UNCHANGED <<call, lock>> ELSE Raise
  /\ UNCHANGED <<working, evidence, journal, archive, gates, replaced, bounds>>

MoveAside ==
  /\ archiver.pc = "aside"
  /\ working.body \notin Refused
  /\ gates \/ archiver.plain
  /\ done' = Nothing
  /\ kept' = kept \union WholeOf(done)
  /\ archiver' = [archiver EXCEPT !.pc = "body", !.moved = done, !.before = kept]
  /\ Touch
  /\ UNCHANGED <<working, evidence, journal, lock, gates, call, bounds>>

(* The files are copied one after the other. *)
CopyBody ==
  /\ archiver.pc = "body"
  /\ done' = [body |-> working.body, version |-> Nothing, note |-> FALSE]
  /\ Proceed("info")
  /\ Touch
  /\ UNCHANGED <<working, evidence, journal, lock, kept, gates, call, bounds>>

CopyInfo ==
  /\ archiver.pc = "info"
  /\ done' = [done EXCEPT !.version = working.version]
  /\ Proceed("note")
  /\ Touch
  /\ UNCHANGED <<working, evidence, journal, lock, kept, gates, call, bounds>>

WriteNote ==
  /\ archiver.pc = "note"
  /\ done' = [done EXCEPT !.note = TRUE]
  /\ Proceed("log")
  /\ Touch
  /\ UNCHANGED <<working, evidence, journal, lock, kept, gates, call, bounds>>

(* The changelog and the master log, and archive_mod returns. *)
WriteLog ==
  /\ archiver.pc = "log"
  /\ archiver' = Idle
  /\ IF archiver.plain THEN UNCHANGED call ELSE Goto("written")
  /\ UNCHANGED <<working, evidence, journal, lock, archive, gates, replaced, bounds>>

(* An error after the earlier archive was moved aside: what there is of    *)
(* the new one goes to _failed, the earlier one comes back.                *)
MoveFailed ==
  /\ archiver.pc = "restore"
  /\ kept' = kept \union WholeOf(done)
  /\ done' = Nothing
  /\ archiver' = [archiver EXCEPT !.pc = "putback", !.before = @ \union WholeOf(done)]
  /\ Touch
  /\ UNCHANGED <<working, evidence, journal, lock, gates, call, bounds>>

PutBack ==
  /\ archiver.pc = "putback"
  /\ done' = archiver.moved
  /\ kept' = archiver.before
  /\ Raise
  /\ Touch
  /\ UNCHANGED <<working, evidence, journal, gates, bounds>>

-----------------------------------------------------------------------------
(* Failures, and everybody else.                                           *)

(* An error or an interrupt in revise, or in archive_mod, which undoes what *)
(* it did if it gets to; a failed restoration leaves everything where it   *)
(* is.                                                                     *)
Fails ==
  /\ faults < MaxFaults
  /\ faults' = faults + 1
  /\ \/ /\ call.pc \notin {"idle", "opening", "finalize", "archiving"}
        /\ Return
        /\ UNCHANGED archiver
     \/ archiver # Idle /\ Raise
     \/ /\ archiver.pc \in {"body", "info", "note", "log"}
        /\ archiver.moved # Nothing
        /\ Proceed("restore")
        /\ UNCHANGED <<call, lock>>
  /\ UNCHANGED <<working, evidence, journal, archive, gates, replaced, edits, runs, archives>>

(* A process dies: that of revise with its archive_mod, or that of another *)
(* archive command.  A revise call leaves its lock behind.                 *)
Crash ==
  /\ faults < MaxFaults
  /\ faults' = faults + 1
  /\ \/ /\ call # Idle
        /\ call' = Idle
        /\ archiver' = IF archiver # Idle /\ archiver.plain THEN archiver ELSE Idle
     \/ /\ archiver # Idle
        /\ archiver.plain
        /\ archiver' = Idle
        /\ UNCHANGED call
  /\ UNCHANGED <<working, evidence, journal, lock, archive, gates, replaced, edits, runs, archives>>

(* "delete the file if none is running" *)
RemoveLock ==
  /\ lock
  /\ call = Idle
  /\ lock' = FALSE
  /\ UNCHANGED <<working, evidence, journal, shelving, call, bounds>>

Edit ==
  /\ edits < MaxEdits
  /\ edits' = edits + 1
  /\ working' \in Bytes \ {working}
  /\ UNCHANGED <<evidence, journal, lock, shelving, call, faults, runs, archives>>

(* A licence decision is recorded, or what the content gates read changes. *)
Regate ==
  /\ gates' = ~gates
  /\ UNCHANGED <<working, evidence, journal, lock, archive, archiver, replaced, call, bounds>>

Step ==
  \/ Lock \/ ResumePending \/ ChooseVersion \/ WriteVersion \/ SavePrepared
  \/ CheckCandidate \/ BoundRun \/ RunRefused \/ StepArchive \/ CallArchiveMod
  \/ Refuse \/ MoveAside \/ CopyBody \/ CopyInfo \/ WriteNote \/ WriteLog
  \/ MoveFailed \/ PutBack
  \/ Verify \/ SetArchived \/ StepSnapshot \/ SetComplete

Next ==
  \/ Step \/ Fails \/ Crash \/ RemoveLock \/ Edit \/ Regate \/ Archive
  \/ \E keep, refresh \in BOOLEAN : Prepare(keep, refresh)
  \/ \E v \in Versions, t \in Tests : Finalize(v, t)
  \/ \E t \in Tests : Play(t)
  \/ \E pass, acceptable \in BOOLEAN : Record(pass, acceptable)

Spec == Init /\ [][Next]_vars

(* A running command goes on; as finalize's error message asks, somebody   *)
(* removes the lock of a dead one and runs finalize again, with the run    *)
(* the journal names.                                                      *)
Retry == \E v \in Pending : journal[v].test # Nothing /\ Finalize(v, journal[v].test)
RetrySpec == Spec /\ WF_vars(Step) /\ SF_vars(Retry) /\ SF_vars(RemoveLock)

-----------------------------------------------------------------------------
(* Properties.                                                             *)

TypeOK ==
  /\ working \in Bytes
  /\ staged \in Runs \union {Nothing}
  /\ lines \in [Tests -> Bytes \union {Nothing}]
  /\ trusted \in Runs \union {Nothing}
  /\ proven \subseteq Bytes
  /\ journal \in [Versions -> Journals \union {Nothing}]
  /\ lock \in BOOLEAN
  /\ done \in Archives \union {Nothing}
  /\ kept \subseteq Archives
  /\ gates \in BOOLEAN
  /\ call \in Calls
  /\ archiver \in Archivers
  /\ replaced \in BOOLEAN
  /\ faults \in 0..MaxFaults
  /\ edits \in 0..MaxEdits
  /\ runs \in 0..MaxRuns
  /\ archives \in 0..MaxArchives

(* "re-check from the run records (not from the journal's word) that the   *)
(* test was a PASS": a revision past PREPARED has a candidate that a game  *)
(* really loaded in an acceptable passing run, whatever was edited,        *)
(* refreshed and replayed before, and it carries the revision's version.   *)
AcceptedWasTested ==
  \A v \in Known :
    journal[v].state # "PREPARED" =>
      journal[v].candidate \in proven /\ journal[v].candidate.version = v

(* prepare never meets two pending revisions, the state it can only refuse *)
(* and a person would have to clean up.                                    *)
OnePending == \A u, v \in Pending : u = v

(* A revision is journalled as archived, and then as complete, only while  *)
(* Done/<Mod> is a whole archive of its candidate: edits while the files   *)
(* are copied, partial archives, and archives that other commands make     *)
(* meanwhile included.  The one thing that escapes finalize is such a      *)
(* command that changes Done/<Mod> after this very call found its          *)
(* candidate there.                                                        *)
ArchivedAsTested ==
  [][\A v \in Versions :
       journal'[v] # journal[v] /\ journal'[v].state \in {"ARCHIVED", "SNAPSHOTTED", "COMPLETE"}
         => Holds(done', journal'[v].candidate) \/ replaced]_journal

Rank(state) ==
  CASE state = "PREPARED" -> 0
    [] state = "LIVE_ACCEPTED" -> 1
    [] state = "ARCHIVED" -> 2
    [] state = "SNAPSHOTTED" -> 3
    [] state = "COMPLETE" -> 4

(* A journal is never removed and its state never goes back, however often *)
(* the commands are cut off and repeated; from the accepted run on its     *)
(* candidate and its run are fixed.                                        *)
JournalOnlyAdvances ==
  [][\A v \in Known :
       /\ journal'[v] # Nothing
       /\ Rank(journal[v].state) <= Rank(journal'[v].state)
       /\ journal[v].state # "PREPARED" =>
            /\ journal'[v].candidate = journal[v].candidate
            /\ journal'[v].test = journal[v].test]_journal

(* Done/ is a shelf of whole archives none of which is ever lost.          *)
Shelf == INSTANCE ArchiveShelf WITH
  Archives <- Archives,
  None <- Nothing,
  current <- IF Whole(done) THEN done ELSE Nothing,
  earlier <- kept
ShelfImplemented == Shelf!Spec

(* "run finalize again to resume": an accepted revision whose bytes, run   *)
(* and archive nobody changes becomes complete, if archive_mod does not    *)
(* refuse it.  (It may: its own gates are asked after the run is accepted, *)
(* and junk cannot be removed without changing the candidate.)             *)
Resumable(v) ==
  /\ journal[v] # Nothing
  /\ journal[v].test # Nothing
  /\ Qualifies(v, journal[v].test)
  /\ working = journal[v].candidate
  /\ journal[v].state = "LIVE_ACCEPTED" => gates /\ working.body \notin Refused
  /\ journal[v].state \in {"ARCHIVED", "SNAPSHOTTED"} => Holds(done, journal[v].candidate)
FinalizeCompletes ==
  \A v \in Versions :
    []<>(Resumable(v) => journal[v].state = "COMPLETE")
=============================================================================
