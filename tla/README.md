# BridgeForge: a verification project

TLA+ modules that model the parts of BridgeForge (`src/bridgeforge`) whose
correctness depends on interleaving, failure and order, the TLC configurations
that check them on small instances, and proofs, checked by TLAPS, that the
properties hold for every instance. Paths below are relative to
`src/bridgeforge` unless they say otherwise.

## 1. The system

BridgeForge revives game mods: it scans a mod, fixes a working copy of it, tries
it in a test copy of the game (the *rig*) and archives the result. Nearly all of
it is a set of command-line commands that are separate processes. They share no
memory and no server: what they share is directories of JSON files, a few lock
files, the rig and the working copies, which a person edits at the same time.
Most commands are functions of the files they read. The ones with state are:

| Part | State | Operations | Talks to | What is hard |
|---|---|---|---|---|
| Case store (`case_store.py`, `case_identity.py`) | case, candidate and receipt records; `.write.lock` | `create_case`, `add_candidate`, `add_receipt`; the capture of a candidate | working copies and evidence files it digests | concurrent writers, a writer that dies in the lock, edits while a capture reads |
| Portfolio (`portfolio.py`, `portfolio_process.py`, `portfolio_worker.py`, `cmd_portfolio.py`) | attempt folders, run reports, a lease on the output directory | `scan_portfolio`; worker processes | the case store, for candidates and receipts | processes that hang, fail, outlive their coordinator; interrupted publication; drift of inputs and engine |
| Case operations (`case_operations.py`, `case_qualification.py`) | plan, checkpoint journal, private copies, the archive | `prepare_case`, `finalize_case`, `prepare_case_run` | case store (its lock), the archiver, the qualification, a live run's files | crash between move and journal, retries, checks that are stale when used |
| Rig and run evidence (`run_manifest.py`, `launch.py`, `boot_test.py`, `live/live_run.py`, `rig/`, `probe/probe_group.py`) | staged mods, enabled list, `rig_up_state.json`, manifests, `run_owner.json`, completion records, logs | `prepare_run`, `release_run`, `evaluate_run`; `probe-group live`, `boot-test`, `rig-up`, `probe-group install`, `rig-reset` | working copies, the game | commands that stage, play and release in any order; a run that dies; evidence of the wrong bytes |
| Revisions (`revise.py`, `live/live_trust.py`) | revision journal, version in `mod_info.json`, lock, run records | `prepare`, `finalize`, `write_run_record` | archive, changelog, run records | crash between its steps, resumed steps, a candidate that changes after its test |
| Archive and promotion (`archive.py`, `promote.py`, `release.py`) | `Done/<Mod>`, `_replaced-*`, `_failed-*` | `archive_mod`, `release` | workspaces, revisions | failure half way through a replacement |
| Workspaces and migrations (`workspace.py`, `migrate.py`) | original, working copy, checkpoints, plan | `checkpoint`, `rollback`, `apply_plan` | the fixers | partial failure, records written after the files |
| Driving a live game (`live/live_run.py`, `launch.py`, `graceful_exit.py`, `exit_observation.py`, `window_watch.py`) and the probe in it (`src/probe-mod`) | launcher and game process, log offsets, round counter, done marker, exit file, pinned preferences | `running_game`, `drive`, `graceful_close`, `stop_game` | the game through its log, window and common files | time outs racing answers, files of an earlier run, retries that toggle |
| Live acceptance (`live/live_accept.py`, `live/live_trust.py`, `live/live_ledger.py`) | run records | `accept`, `live_status` | run evidence | records that go stale |
| Snapshots and moves (`snapshot_restore.py`, `move_machine.py`, `state_snapshot.py`) | copies | snapshot, restore | the rig | partial failure |
| Everything else: scanner, fixers, byte code, atlas, corpus, research, save readers, reports, translation, gates | files they are functions of | | | parsing and rules |

`PROJECT.json` lists all components with what is modelled of each, and under
`hazards` the places in the code where something can go wrong that a test would
hardly reach, each with the property that covers it or a note why none does.

What makes each part correct:

* **Case store**: a stored record is never replaced, removed or partial; every
  reference of a record resolves; a candidate is a state its workspace was in;
  writers are serialised; the lock goes away again unless its creator died or failed in its own
  cleanup.
* **Portfolio**: one coordinator per output directory; a stored receipt is true
  of what its worker did; COMPLETE means everything was analysed; interrupted
  publications converge to one receipt; no analysing process is left behind but
  by a `close()` that fails; every call ends even if the workers hang.
* **Case operations**: what is published is the tested candidate, once, under a
  report that held in that call; nothing that exists is overwritten; the journal
  only advances; a retry finishes what a crash interrupted.
* **Rig**: accepted evidence is about the bytes the game loaded; what a run
  recorded before launch is never rewritten; the rig is given back.
* **Revisions and archive**: a complete revision is the bytes that passed a live
  run; a mod has one pending revision; its journal only advances; an archive is
  published whole or not at all, and no earlier one is lost; a finalize that was
  cut off can be completed.
* **Driving a game**: a finished run has played the whole plan of this launch;
  an exit recorded as natural was one; a lost key press does not end a run;
  every run ends, with the preferences back and the game stopped, unless it runs
  a JDK outside the rig and its launcher left it behind.

## 2. Modules

| Module | Models | Role |
|---|---|---|
| `AppendOnlyRecords` | what the store promises its readers | abstract specification |
| `CaseStore` | `case_store.py`, the capture in `case_identity.py` | implements `AppendOnlyRecords` |
| `Portfolio` | coordinator, workers, receipts | uses the store's receipts as its `ledger` |
| `PublishOnce` | what publishing an archive promises: frozen once, promised once, shown once as promised, complete only when shown | abstract specification |
| `CaseOperations` | `prepare_case`, `finalize_case` | implements `PublishOnce`; runs one call at a time under the store's lock (`CaseStore_proofs!SerializedHolds`) |
| `Rig` | manifests, ownership, staging, evidence | |
| `CaseRun` | `prepare_case_run` on the rig | `EXTENDS Rig`; every behaviour of it is one of `Rig` (`CaseRun_proofs!ImplementsRig`) |
| `ArchiveShelf` | what replacing an archive promises: published whole, an earlier one never lost | abstract specification |
| `Revision` | `revise.prepare`, `finalize`, `archive_mod` | implements `ArchiveShelf`; its run records are what `Rig`'s evaluation leaves |
| `LiveRun` | `running_game`, `drive`, `stop_game`, `graceful_close` and the probe | the launch between `TakeOwnership` and `release_run` of `Rig` |
| `MC*` | `EXTENDS` one of these and names its symmetry | instances for TLC |
| `*_proofs` | theorems about the module they extend | TLAPS |

Three conventions hold in all of them. A digest is the value it is the digest
of: two contents are equal exactly when their hashes are. An atomic file write
(`safeio.atomic_write_*`) is one step, and a failure or a crash may come between
any two steps. Variables and record fields marked *history* are read by
properties only.

### CaseStore and AppendOnlyRecords

A workspace is `NFiles` files, each a version number; `EditWorking` gives a file
bytes it never had, at any time, also between two reads of a capture, which
reads every file twice (`Observe`, then `CheckCandidate`). `Acquire`,
`WriteToken`, `Publish`, `Release` are the steps of `_write_lock` and
`_publish`. `TokenFails` and `OperationFails` go to the finally clause, which is
`Release` or, when reading or unlinking the file raises, `ReleaseFails`; `Crash`
passes it by. A lock file is `abandoned` when the call that made it is over and
the file is still there: its creator died, or lives and could not write its token
or clean up. `RecoverLock` is the person who removes such a file; the model lets
them do so only then, as the store's message asks. The predecessor of a
candidate is any digest the caller names, stored or not.

*Simplified.* Reading the token and unlinking the lock are one step of
`Release`: nobody else may write that file. An unlink either removes the file or
raises, not both. A predecessor has no predecessor of
its own (`FirstCandidates`); the check of a predecessor looks one step back
only, so longer chains meet the same code.

### Portfolio

One action per step of `scan_portfolio`: lease, preflight, choosing a reusable
or recoverable attempt, launching workers behind a gate file, polling them,
checking inputs and engine again, publishing the receipt in its two writes, the
report. Workers are processes of their own that read the inputs one by one, write
their two artifacts before they exit, and may fail, hang, be killed, or go on
after their coordinator died until they notice it. `Launch` starts one and
`Register` puts it on the coordinator's list; an interrupt in between leaves a
process nobody polls, which waits at its gate and gives up there. `Stop`, `Raise`
and `Crash` are a cancellation, an error and a killed coordinator, between any two
steps. `Raise` closes every worker on the list (`Close`); `CloseRaises` is a
`close()` that raises in that loop, which leaves the workers after it (`stray`)
to themselves while the coordinator lives on.

*Simplified.* The two artifacts of an attempt are both there or count as not
there. Rows are
handled in any order, which includes the code's. Making a receipt and storing it
are one step, and a refusal by the store is `Raise`. A time out may fire whenever
the gate is open. Edits are monotone: contents that change and change back
between two comparisons are outside what comparing them can show. Artifacts are
altered only after the completion record was written.

### CaseOperations and PublishOnce

One call at a time: both functions run under the store's lock. A workspace state
and the candidate captured from it are one value. Everything the operation looks
at can change between any two of its reads, and change back: the source, the
evaluator's own files, the run's artifacts, and the directories it works in
(`Outside`). A call may fail or die between any two steps (`Interrupted`), and
may be made again at any time. `prepare_case_run`, which shares no step with the
rig's other users but `prepare_run`, is in `CaseRun`.

`PublishOnce` sees of an operation its private copy once the journal says
PREPARED (`frozen`), the archive the journal promises (`promised`), the
destination (`shown`), whether the journal says COMPLETE, and whether others
have changed the operation's directories since it last found the promised
archive in place (`disturbed`). Every step of the two commands, every failure,
death and retry is one step of that ledger or leaves it alone: nothing in it is
ever taken back, and what appears at an undisturbed destination is what was
promised.

*Simplified.* Each comparison is one read. The qualification is reduced to what
it reads, and to whether the artifacts pass. `archive_mod` builds the archive,
or leaves a partial one, or is cut off; the refusals of its gates are
`Interrupted`. Renaming onto an empty directory may succeed or fail, as it does
on different platforms.

### Rig

Every run id has at most one command at a time, but commands of different run
ids, staging commands and `rig-reset` interleave at each read and write. The
bytes of a mod are a version number; `EditWorking` and `Tamper` (the game or an
operator changing staged files) make versions not seen before, while `Sync`
copies a working copy's version into the rig, so the same bytes can come back by
staging. The enabled list may change to any list and back: `BootList`,
`Restore`, `Reset`, `WriteList`.

`prepare_run` is `CheckOwner`, `Observe`, `Bind`, `WriteManifest`,
`TakeOwnership`; `release_run` is `CheckDrift`, `Complete`, `Disown`, `Unlink`;
`rig_up` and `install_group` differ only in the order in which they write the
enabled list and the candidates. `Interrupted` is a command that dies, or the
errors of `running_game` between preparation and its try blocks
(`live/live_run.py:523-537`), which leave the rig owned. `Acceptable` is what
`evaluate_run` compares.

*Simplified.* All staged mods are hashed in one read, and so are the working
copies. The enabled list stands for all runtime configuration. The milestones of
a log, its age, the run file and the manifest id the probe echoes are left out:
they only make `evaluate_run` refuse more. `boot-test` holds the list it puts
back in memory; its backup file is never read by the code.

`Evidence` says what acceptance can be relied on for, and its two premises say
what it cannot: that the record of a release which found drift was not replaced
(finding `rig_rerelease`) and that no other command wrote into the rig between
launch and release. The second is needed because a comparison before and after
does not see a change that was undone in between, for instance a boot test's
enabled list; the code says as much ("it does not claim tamper-proof
execution"). Against changes of staged files by anybody else the theorem needs
no premise.

Two more behaviours follow from the code and are in the model, where a reader
may look for a promise that is not made. A run id that is prepared again after
its release gets its old manifest back without taking the rig
(`run_manifest.py:288-293`), so its second game plays on a rig nobody owns, and
the completion record of its first launch is still there. And a staging command
asks once, at its start, who owns the rig (`rig/rig_up.py:77`,
`probe/probe_group.py:611`): a run that takes the rig after that is staged
under, and its release then compares the manifest with what was staged.

### CaseRun

`prepare_case_run` looks at the same things three times: the rig before it calls
`prepare_run` (`CheckReference`, `CheckStaged`, `CallPrepareRun`), what
`prepare_run` returned (`CheckContext`), and the candidate once more
(`CheckCurrent`); then it writes a receipt (`WriteReceipt`). `PrepareRunStep` is
a step of `prepare_run` for the candidate's working copy, the same actions as
every other run's. Between any two steps the working copies, the staged files
and the enabled list change, other commands stage, reset and boot, and the call
may fail or die (`CaseFails`). An operation is its candidate: the target and the
bytes of it and of its dependencies when it was captured (`closure`).

`RunBound` needs all three looks. The manifest records what was staged, the
second look compares that with the dependencies as they are then, and only the
last look says that those are still the candidate's. It relies on versions that
only grow: a dependency that is edited, staged, and edited back to exactly the
earlier bytes between the looks is outside what comparing it can show.

*Simplified.* Expected context and staging state are one look. Core, runtime,
launcher, probe and Java are not told apart from the enabled mods: they only
refuse more. The store's lock, under which the call runs, keeps other calls on
the same store away but nobody who writes into the rig; it is left out.

A call that died between the manifest and the ownership
(`run_manifest.py:295-297`) is finished by the next one without taking the rig:
`prepare_run` returns the manifest it finds. Its receipt then names a run that
does not own the rig, in the code and in the model; what is accepted of that run
is evidence all the same.

### Revision and ArchiveShelf

One mod, one revising command at a time (the lock file `_Lock`, which a crash
leaves and an operator removes: `RemoveLock`), against an operator who edits the
working copy (`Edit`) and plays and records runs (`Play`, `Record`). `prepare` is `Prepare`, `Lock`,
`Refreshed` or `ResumePending` or `ChooseVersion`, `WriteVersion`,
`SavePrepared`; `finalize` is `Finalize`, `Lock`, `CheckCandidate`, `BoundRun`,
`StepArchive`, `CallArchiveMod`, `Verify`, `SetArchived`, `StepSnapshot`,
`SetComplete`. `Fails` and `Crash` may come between any two of them.

`archive_mod` is an actor of its own (`archiver`), which `finalize` calls and
waits for (`CallArchiveMod`, `WriteLog`) and which another command, `archive` or
the recording of a probe group, starts at any time (`Archive`), since it takes no
lock: its steps (`MoveAside`, `CopyBody`, `CopyInfo`, `WriteNote`, `MoveFailed`,
`PutBack`) fall between any two of a `prepare` or `finalize`. So such a command
can replace `Done/<Mod>` after `finalize` last compared it (`revise.py:323`,
`326`, `335`) and before it writes its journal (`342`, `360`, `279`). That is the exception in
`ArchivedAsTested` (`replaced`): what changed `Done` before that comparison is
noticed, what comes after it is not.

`archive_mod` asks gates of its own when the run has been accepted already
(`archive.py:209-230`). `Refuse` is their refusal: of junk and orphaned backups,
which are a property of the bytes (`Refused`), and of the licence and the content
gates, which others open and close (`gates`, `Regate`). A finalize refused for
the first kind is refused for ever: removing the junk changes the candidate, and
an accepted revision takes no other (`revise.py:161-162`, `253`).
`FinalizeCompletes` is about revisions the gates let pass.

A working copy is its bytes and its version (`Bytes`), so that the version bump
is an edit like another one: the revision's hash is taken after it, and a run
recorded before it is a run of other bytes.

*Simplified.* The changelog entry is left out: it is one append, which
`add_entry` makes idempotent. `evaluate_run` and `write_run_record` are one step
and read the working copy once. Log lines of the older format do not occur. An
archive is body, info and note; the note written last is what makes it whole;
zip and readme are part of the body. A move between folders is one step, also
where `shutil.move` copies. Two `archive_mod`s on the mod at the same time are
not followed: the second one waits in the model, while nothing in the code keeps
them apart. `archive` without `--refresh`, and with it on a partial archive, only
refuses what `MoveAside` does. A crash between the version's write and the journal's makes the next
`prepare` bump again, in the code and in the model; no property denies it.

### LiveRun

The command is `pc`, `opts` and a place in a wait (`step`, `left`): `Look` into
the log, `Ask` whether the game is alive (with the launch watchdog), `Tick`. The
launcher, the java it starts and the probe in it are processes of their own,
which only write: the log (`OpenLog`, `GameLogs`, `MissionEnds`), the round
counter (in `Play`, since `MissionDefinition.java` moves it on when a mission
starts) and the done marker (`WriteMarker`, `ProbeDone.java`). A run starts with
what an earlier one may have left: its log, its marker, which may resist its
removal and carry this very manifest's id (`resisted`,
`graceful_exit.py:27-32`), a counter anywhere in the plan. `StopGame` and what follows are `stop_game`; the order of observing,
recording and killing is the code's. `Raise`, `StopRaises` and `Crash` are an
exception in the body, one inside `stop_game`, and the death of the command.

*Simplified.* Times are ticks of the sleeps. A click step is done or finds the
window gone; what a click misses shows up as a line that never comes. A press of
SPACE may be lost, and otherwise toggles the pause. The launcher empties the log
within the 20 s before the New Game clicks (`drive`, line 415). `taskkill`
works, and the round counter can be written. The launcher does not end between
the list of javas and the kill of its own tree. A next launch waits until an
earlier game is gone. The second launch of `save_reload_run` and the capacity,
duel and raid runs are not modelled.

A launch runs the JDK of the rig or one outside it (`live/live_run.py:462-463`),
and `Listed` says which javas `launch.py` can see: those under the rig only. So
the game of an outside JDK is stopped with the tree of its launcher, or not at
all: when that launcher left by itself, the exit observation finds "no java",
may record NATURAL (`exit_observation.py:35-36`), and the game stays running.
`NaturalIsSeen` and `RunEnds` say what is promised of each kind of game, and
`EndsTidyHolds` that this is the only way anything stays.

`NaturalIsSeen` is about the launch that wrote the file. A run that ends stuck
without `--natural-exit` writes no exit file at all (`launch.py:128`), so the
file of an earlier launch with the same test id stays.

## 3. Runs

| Run | Checks | Instance |
|---|---|---|
| `store` | serialised writers, references, captures, immutability, refinement of `AppendOnlyRecords`, the lock is returned | two writers, one case with two files and one edit each, four calls |
| `portfolio_safety` | one coordinator, truthful receipts, one receipt per attempt, filed ones stored, only settled attempts are evidence, no row on an invalid attempt | two coordinators, one case, two attempts, one edit each of inputs and engine, three calls |
| `portfolio_jobs` | COMPLETE is analysed, workers are owned, every call ends | two coordinators, two cases, two workers at a time |
| `operations` | tested bytes, published archive, preservation, report of this call, refinement of `PublishOnce`, retries complete | two candidates, evaluators and run artifacts, faults anywhere |
| `revision` | tested bytes, one pending revision, archives as tested, journal, refinement of `ArchiveShelf`, a resumed finalize completes | one mod, prepare, refresh, play, finalize, gates that open and close, one archive command beside them, one edit, two faults |
| `rig_staged` | types, evidence, receipts of case runs | all commands of one run id and `prepare_case_run`, one staging command, one mod, one edit, one crash |
| `rig_release` | the rig is given back | commands of one run id and `prepare_case_run`, one staging command, two crashes, no edits |
| `live_run` | natural exits, whole plans, lost presses, every run ends | one launch with files of an earlier run, a JDK in the rig or outside it, two rounds, one death of the command |

The expected violations each refute a sentence of the repository; `PROJECT.json`
quotes it under `findings`:

| Run | What the code says | What the run shows |
|---|---|---|
| `portfolio_drift` | observed drift invalidates an attempt even if its bytes are restored | artifacts found altered once are reused after they are restored |
| `operations_evaluator` | evaluator rechecked before publication | an evaluator replaced between two checks ends up in the published report |
| `rig_rerelease` | nothing drifted "at completion and now" | a second release replaces the record of drift |
| `live_press` | a second SPACE never meets a running round | rounds as long as the configuration allows are paused by it |

Why these bounds are enough. Every property is about one case, one operation or
one run against everything else that happens; a second actor gives each race its
opponent, and a second case, candidate or engine the other value a check could
confuse it with. One edit separates before from after; comparisons cannot tell
two edits from one, except by returning to an earlier content, which
`CaseOperations` allows outright and `Rig` by staging and by the enabled list.
Calls and crashes are bounded so that a call can be cut off anywhere, retried,
cut off again and completed. The instances are the place where properties are
tried out; the theorems below do not depend on them. In particular the instances
of `Rig` and `CaseRun` have one run id and one mod; `Rig_proofs` and
`CaseRun_proofs` are about any number of runs racing for a rig, and about
candidates with any dependencies.

## 4. Fairness

Liveness is checked under what the code's own scheduling gives and no more.

* `LockIsReturned`: a process that is running goes on (`WF` on `Step`). Nothing
  is assumed of callers, editors or the person who recovers a lock.
* `RunEnds` of `Portfolio`: a coordinator that is running goes on: it polls every
  25 ms and its clock passes the time out. Nothing is assumed of the workers,
  which may hang.
* `RetryCompletes`: a running call goes on, and somebody retries `finalize_case`
  again and again (`SF`, since a running call disables the retry for a while),
  as the documentation asks: "retry the same API". Its premise is that source,
  evaluator and run stay as the operation needs them: after the source was lost
  at the last check an archive stays PACKAGED until it is back.
* `FinalizeCompletes`: a running call goes on, and somebody runs `finalize` again
  with the run the journal names and removes the lock of a dead command (`SF`
  on both, since a running call disables them for a while), as the error messages
  ask. Its premise is that bytes, run and archive stay what the revision needs,
  and until the archive is accepted that `archive_mod`'s gates let it pass.
* `GivenBack`: a running command or call goes on, and whoever is told that a run
  owns the rig releases it (`SF`), as the refusal's message asks.
* `RunEnds` of `LiveRun`: the command's own steps (`WF` on `Drives`: every wait of
  it is a loop with a time out) and the end of a running round. Nothing is
  assumed of the operator, and of the game only that: it need not start, log,
  react to a key or close. Interactive runs, which wait for a person, are
  excluded.

## 5. Proofs

The theorems hold for all values of the constants under the named assumptions in
each module, which say only that bounds are natural numbers and that the
`No...` values differ from real ones.

* **`CaseStore_proofs`**: `TypeCorrect`, `SerializedHolds`, `ResolvableHolds`,
  `RecordsImmutable`, and `Refinement`: `Spec => Implements`, the store with its
  lock, captures and crashes implements `AppendOnlyRecords`. The inductive
  invariant `IInv` adds what a process learned under the lock and may still rely
  on when it publishes (`Pending`); this is only inductive because nobody else
  can be inside, so serialisation and the records are proved together.
  `CapturedWholeHolds`: a file's versions only grow and a capture reads every
  file twice, so when the second pass finds what the first one found, all files
  had those versions together at the end of the first pass.
  `LockBackedHolds`: a lock that is not abandoned always has its creator inside,
  with its token in place while it works and what it needs for its next step; and
  `HolderFinishesHolds`: each step of it is nearer to the finally clause
  (`Nearer`: the place in the critical section, then the files still to be read),
  that clause removes a file that carries the token, nobody else's step moves the
  holder, and only that clause or a death leaves the file behind.
* **`Portfolio_proofs`**: types and all safety properties of the two runs. The
  argument for `TruthfulHolds` is that versions only grow: the coordinator sees
  the candidate's version before the worker starts and after it has exited, so
  every read in between met that version (`FolderFacts`), and the rows keep what
  was checked (`RowFacts`) until the receipt is stored (`LedgerFacts`).
  `EvidenceSettledHolds`: what a run, a reuse or a recovery takes for a result is
  of an attempt whose worker wrote everything and left by itself, not of one that
  outlived a dead coordinator. `OwnedHolds`: a worker past its gate has a
  coordinator that polls and closes it, unless that one died or its own `close()`
  raised; a worker that an interrupt kept off the list never passes the gate.
  `CallsShortenHolds`: every step and every interruption of a call brings it
  nearer to its end (`Nearer`: its phase, then the cases not chosen, the rows not
  settled and the way each has left to go, then the receipts not stored or
  filed), and no worker, edit or other coordinator sets it back (`StaysPut`).
* **`CaseOperations_proofs`**: types and all safety properties. `Phase` ties the
  program counter to the journal, `Watched` says the report a call holds was
  true while that call ran, and `Placed` follows the archive from its private
  directory to the published one, as far as nobody else touched it.
  `JournalHolds`: no journal goes back. `PublicationHolds`: the refinement of
  `PublishOnce`, one lemma per action. `UndisturbedCompletesHolds`: `Resumable`
  says what the directories of an operation hold as long as nobody else was
  there, wherever earlier calls were cut off; from it follows that a call which
  nobody disturbs never raises, that every step shortens what is left of it, and
  that a `finalize_case` ends with the operation complete.
* **`Rig_proofs`**: types, `ManifestsStayHolds`, `EvidenceHolds`. Three moments
  are linked (`Traced`): the rig as it is, the comparison at release, the
  completion record. They can be, because a version is never made twice
  (`Seen`): once a staged file of the manifest was changed by anything but a
  staging command, the rig is never again what that manifest says.

* **`CaseRun_proofs`**: `ImplementsRig` (`CaseSpec => Spec`: a step of a call is a
  step of `Rig` or changes nothing of it, so that `Rig_proofs` holds with calls
  too), types, `RunBoundHolds`. What the manifest records lies between the
  candidate's versions and those of the second look (`Looked`), no source is
  older than the candidate (`Grown`), and the last look closes the gap.
* **`Revision_proofs`**: types, `AcceptedWasTestedHolds`, `OnePendingHolds`,
  `ArchivedAsTestedHolds`, `JournalOnlyAdvancesHolds`, and `ShelfRefinement`:
  replacing an archive, cut off anywhere, implements `ArchiveShelf`.
  `ResumedCompletesHolds`: a `finalize` of an accepted revision, started with the
  run its journal names (`TestNamedHolds`) and left alone (`Undisturbed`), never
  refuses, comes nearer to its end with every step, and ends in COMPLETE,
  whichever lines of the journal an earlier one had written. Left alone includes
  that the gates of `archive_mod` hold, and the measure (`Nearer`, over `Place`)
  counts the steps of the archiver the call waits for.
  `CallsShortenHolds`: no call is ever set back, failing ones included. The
  invariant says what each line of the journal was true of when it was written
  (`LinesTrue`) and what a call has found out and may still rely on
  (`PrepareFacts`, `FinalizeFacts`, `ArchiverFacts`): there is only one
  call, because of the lock, but the working copy is edited under it and other
  archive commands run beside it. `ArchivedAsTestedHolds` therefore says what a
  finalize relies on from its last look at `Done` on, unless such a command has
  changed `Done` since (`replaced`).
* **`LiveRun_proofs`**: types; `NaturalIsSeenHolds` from what the exit observation
  has seen of this launch (`Observation`); `PlayedWholeHolds` from the part of
  the plan that was played before the current round (`PlayInv`) and the ways to
  the end (`Closing`). `NeverPausesHolds` holds under `ShortRounds`, a round
  shorter than the time between two presses, and `LostPressRecoveredHolds` under
  that and `RoomForARetry`: conditions on the numbers of a configuration, and
  `live_press` is what TLC finds without the first. `EndsTidyHolds`: a run that
  ends and was not cut off has stopped launcher and game and given the
  preferences back, because each way to the end passes the parts of `stop_game`
  in order (`Tidied`); a game stays only if its JDK is outside the rig and nothing
  of its launch was stopped. `RunShortensHolds`: every step of the command is nearer to the end
  (`Nearer`: the part of the run, the rounds left, the ticks left of the round
  (`Fuel`), the place in it, the ticks of the present wait), for which `Ahead`
  says that a wait is only begun with ticks left; what the game does in between
  cannot set it back.

Only model-checked: the liveness properties and the findings. A liveness property
here is a safety core and a conclusion by fairness. The cores are proved:

| Liveness property | Its safety core, proved | Left to TLC |
|---|---|---|
| `LockIsReturned` | `LockBackedHolds`, `HolderFinishesHolds` | the holder's step is enabled and taken |
| `RunEnds` of `Portfolio` | `CallsShortenHolds` | the coordinator goes on |
| `RetryCompletes` | `UndisturbedCompletesHolds` | the call goes on, somebody retries |
| `FinalizeCompletes` | `ResumedCompletesHolds`, `CallsShortenHolds` | the call goes on, somebody retries |
| `RunEnds` of `LiveRun` | `RunShortensHolds`, `EndsTidyHolds` | the command goes on, a round ends |
| `GivenBack` | none: that somebody releases the rig is all of it | all |

The last column is out of this prover's reach: `WF`, `SF` and `ENABLED`, and the
induction from "every step decreases the measure" to "there are finitely many
steps". The measures are tuples, compared in order, of natural numbers and of
finite sets, so that the second is plain to a reader.

## 6. Plan

The modules were written in the order in which one relies on the other: the case
store, the portfolio, case operations and the rig, then revisions, the driving
of a live run, and `prepare_case_run` on the rig. What would come next:

1. `LiveRun` composed with `Rig`: that the log `Acceptable` judges is the one this
   launch wrote, which both modules assume of each other now.
2. The second launch of `save_reload_run`.

Workspaces and `apply_plan` were planned as a module and dropped: they are one
process each, write their records after the files they are about, and have no
code that recovers from a failure in between. A model would restate that.

## 7. Not modelled

The scanner's rules, the fixers, byte code and Java tools, atlas, corpus,
research, save readers, translation and reports are functions of files: their
correctness is about parsing and rules, which their tests cover and a model
checker does not help with. They are most of the lines of the repository. Window
handling, key strokes and the registry are Windows I/O. `gates.py` and
`merge_train.py` are developer tooling over git. Of the probe mod only what a
live run takes of it is in `LiveRun`. `locks.py` only lists processes.
Workspaces (`workspace.py`), migration plans (`migrate.py`), snapshots and moves
are sequences of copies in one process that nothing interleaves with, retries or
recovers. `escalation` proposes steps; applying them automatically is switched
off. The second launch of `save_reload_run` and the capacity, duel and raid runs
repeat `LiveRun`'s waits with other scripts.
