-------------------------------- MODULE Rig --------------------------------
(***************************************************************************)
(* The test rig and the evidence of a run (run_manifest.py, with the       *)
(* commands that use it: probe-group live, boot-test, run-manifest, rig-up *)
(* and probe-group install, rig-reset).                                    *)
(*                                                                         *)
(* The rig holds staged mods and an enabled list.  A run records them in a *)
(* manifest, owns the rig, starts the game, and at release compares them   *)
(* again; evaluate_run then decides whether the run's log is evidence for  *)
(* a working copy.  Commands are separate processes: they interleave at    *)
(* every read and write below, and each may die between two of them.       *)
(* Nothing but run_owner.json keeps them apart.                            *)
(*                                                                         *)
(* The bytes of a mod are a version: every edit of a working copy, and     *)
(* every change of staged files that is not a sync, makes a version not    *)
(* seen before.  The enabled list stands for the runtime configuration.    *)
(***************************************************************************)
EXTENDS Integers

CONSTANTS
  Runs,       \* run ids; a run id is used by one command at a time
  Stagers,    \* rig-up and probe-group install processes
  Mods,       \* mods installed in the rig
  Targets,    \* those of them a queue workspace provides
  Given,      \* the commands given to run ids
  MaxEdits,   \* BOUND: edits of working copies and of staged files
  MaxCrashes, \* BOUND: run commands that die
  NoRun,      \* nobody
  NoManifest, NoLog

ASSUME TargetsAssumption == Targets \subseteq Mods
ASSUME GivenAssumption == Given \subseteq {"prepare", "case", "live", "boot", "bound boot", "release"}
ASSUME MaxEditsAssumption == MaxEdits \in Nat
ASSUME MaxCrashesAssumption == MaxCrashes \in Nat
ASSUME NoRunAssumption == NoRun \notin Runs

VARIABLES
  working,    \* the working copies
  staged,     \* the mods in the rig
  enabled,    \* mods/enabled_mods.json
  candidates, \* rig_up_state.json: mods staged from a working copy
  manifest,   \* logs/<run>.manifest.json
  owner,      \* logs/run_owner.json
  completed,  \* logs/<run>.completed.json
  games,      \* runs whose game is running
  log,        \* logs/<run>.stdout.log, as the last game of that run left it
  session,    \* the command of each run id
  stager,     \* the staging commands
  edits,      \* versions made so far
  crashes     \* run commands that died (for MaxCrashes)

rig == <<staged, enabled, candidates>>
records == <<manifest, owner, completed>>
counters == <<edits, crashes>>
vars == <<working, staged, enabled, candidates, manifest, owner, completed,
          games, log, session, stager, edits, crashes>>

Versions == 0..MaxEdits
PartialMaps(S) == UNION {[D -> Versions] : D \in SUBSET S}

(* What a manifest records: the enabled mods with their staged hashes, and *)
(* the hashes of the targets' working copies.                              *)
Manifests == [entries : PartialMaps(Mods), bound : PartialMaps(Targets)]

(* A log: the rig as its game loaded it.  As history since that launch:    *)
(* whether the run was released, and if so whether a release that found no *)
(* drift replaced the record of one that did; and whether no command other *)
(* than the run's wrote into the rig before the first release.             *)
Logs == [inputs : PartialMaps(Mods), release : {"no", "kept", "replaced"}, clean : BOOLEAN]

ASSUME DistinctAssumption == NoManifest \notin Manifests /\ NoLog \notin Logs

Points == {"idle", "list", "owner", "observe", "bind", "write", "own",
           "launch", "play", "drift", "complete", "disown", "unlink", "restore"}
Sessions ==
  [pc : Points, cmd : {"prepare", "case", "live", "boot", "bound boot", "release"},
   entries : PartialMaps(Mods), bound : PartialMaps(Targets),
   saved : SUBSET Mods, drift : BOOLEAN]
Staging ==
  [pc : {"idle", "sync", "list", "forget", "record"}, cmd : {"rig-up", "install"},
   group : SUBSET Targets, left : SUBSET Targets]

Empty == [m \in {} |-> 0]
NoSession == [pc |-> "idle", cmd |-> "live", entries |-> Empty, bound |-> Empty,
              saved |-> {}, drift |-> FALSE]
NoStaging == [pc |-> "idle", cmd |-> "rig-up", group |-> {}, left |-> {}]

Init ==
  /\ working = [m \in Targets |-> 0]
  /\ staged = [m \in Mods |-> 0]
  /\ enabled \in SUBSET Mods
  /\ candidates \in SUBSET Targets
  /\ manifest = [r \in Runs |-> NoManifest]
  /\ owner = NoRun
  /\ completed = [r \in Runs |-> "none"]
  /\ games = {}
  /\ log = [r \in Runs |-> NoLog]
  /\ session = [r \in Runs |-> NoSession]
  /\ stager = [s \in Stagers |-> NoStaging]
  /\ edits = 0
  /\ crashes = 0

-----------------------------------------------------------------------------
(* The commands of a run id.                                               *)

At(r, here) == session[r].pc = here

(* Going on to another point; what the earlier ones held in memory is      *)
(* dropped.                                                                *)
Goto(r, there) ==
  session' = [session EXCEPT
    ![r] = IF there = "idle" THEN NoSession
             ELSE [@ EXCEPT !.pc = there, !.entries = Empty, !.bound = Empty, !.drift = FALSE]]

(* Ends a command: a boot test puts the enabled list back first.           *)
BootTests == {"boot", "bound boot"}
End(r) == IF session[r].cmd \in BootTests THEN "restore" ELSE "idle"

(* _staged_entries: the enabled mods and their staged hashes.              *)
Entries == [m \in enabled |-> staged[m]]

(* Starting a command.  The game runs are refused while the rig's java is  *)
(* up; a release needs the run's manifest.  boot-test keeps a copy of the  *)
(* enabled list in its memory.                                             *)
Begin(r, cmd) ==
  /\ At(r, "idle")
  /\ cmd \in BootTests \union {"live"} => games = {}
  /\ cmd = "release" => manifest[r] # NoManifest
  /\ session' = [session EXCEPT ![r] =
       [@ EXCEPT !.pc = CASE cmd \in BootTests -> "list" [] cmd = "release" -> "drift"
                          [] OTHER -> "owner",
                 !.cmd = cmd,
                 !.saved = IF cmd \in BootTests THEN enabled ELSE {}]]
  /\ UNCHANGED <<working, rig, records, games, log, stager, counters>>

(* History: somebody other than the running game's harness changed what is *)
(* staged or enabled.                                                      *)
Disturb ==
  log' = [r \in Runs |-> IF log[r] # NoLog /\ log[r].release = "no"
                           THEN [log[r] EXCEPT !.clean = FALSE] ELSE log[r]]

(* run_boot_test writes its own enabled list before it asks who owns the   *)
(* rig, which it asks only when it binds a manifest.                       *)
BootList(r) ==
  /\ At(r, "list")
  /\ enabled' \in SUBSET Mods
  /\ Disturb
  /\ Goto(r, IF session[r].cmd = "boot" THEN "launch" ELSE "owner")
  /\ UNCHANGED <<working, staged, candidates, records, games, stager, counters>>

(* Mutant: the rig is owned as soon as nobody else does, before there is a *)
(* manifest.                                                               *)
CheckOwnerTaking(r) ==
  /\ At(r, "owner")
  /\ Goto(r, IF owner \in {NoRun, r} THEN "observe" ELSE End(r))
  /\ owner' = IF owner = NoRun THEN r ELSE owner
  /\ UNCHANGED <<working, rig, manifest, completed, games, log, stager, counters>>

(* prepare_run: refused while another run owns the rig ...                 *)
CheckOwner(r) ==
  /\ At(r, "owner")
  /\ Goto(r, IF owner \in {NoRun, r} THEN "observe" ELSE End(r))
  /\ UNCHANGED <<working, rig, records, games, log, stager, counters>>

(* ... hashes what is staged ...                                           *)
Observe(r) ==
  /\ At(r, "observe")
  /\ session' = [session EXCEPT ![r].pc = "bind", ![r].entries = Entries]
  /\ UNCHANGED <<working, rig, records, games, log, stager, counters>>

(* ... then the targets' working copies: a boot test has no target, a case *)
(* run one, others take every recorded candidate; they must be enabled ... *)
TargetsOf(r) ==
  CASE session[r].cmd = "bound boot" -> {{}}
    [] session[r].cmd = "case" -> {{m} : m \in Targets}
    [] OTHER -> {candidates}

BindTo(r, targets) ==
  /\ At(r, "bind")
  /\ IF targets \subseteq DOMAIN session[r].entries
       THEN session' = [session EXCEPT ![r].pc = "write",
                                       ![r].bound = [m \in targets |-> working[m]]]
       ELSE Goto(r, End(r))
  /\ UNCHANGED <<working, rig, records, games, log, stager, counters>>

Bind(r) == \E targets \in TargetsOf(r) : BindTo(r, targets)

Prepared(r) == IF session[r].cmd \in {"prepare", "case"} THEN "idle" ELSE "launch"

(* ... and writes the manifest, unless the run id has one: then an equal   *)
(* one is returned, and a different one refuses the run.                   *)
WriteManifest(r) ==
  LET body == [entries |-> session[r].entries, bound |-> session[r].bound]
  IN /\ At(r, "write")
     /\ \/ /\ manifest[r] = NoManifest
           /\ manifest' = [manifest EXCEPT ![r] = body]
           /\ Goto(r, "own")
        \/ /\ manifest[r] = body
           /\ Goto(r, Prepared(r))
           /\ UNCHANGED manifest
        \/ /\ manifest[r] \notin {NoManifest, body}
           /\ Goto(r, End(r))
           /\ UNCHANGED manifest
     /\ UNCHANGED <<working, rig, owner, completed, games, log, stager, counters>>

(* Only a new manifest goes on to the ownership.                           *)
TakeOwnership(r) ==
  /\ At(r, "own")
  /\ owner' = r
  /\ Goto(r, Prepared(r))
  /\ UNCHANGED <<working, rig, manifest, completed, games, log, stager, counters>>

(* The game loads the rig as it is now.  The log of an unbound boot test   *)
(* is no run's (its name is a time stamp).                                 *)
Launch(r) ==
  /\ At(r, "launch")
  /\ games' = games \union {r}
  /\ log' = IF session[r].cmd = "boot" THEN log
              ELSE [log EXCEPT ![r] = [inputs |-> Entries, release |-> "no", clean |-> TRUE]]
  /\ Goto(r, "play")
  /\ UNCHANGED <<working, rig, records, stager, counters>>

Played(r) == IF session[r].cmd = "boot" THEN "restore" ELSE "drift"

(* The launcher cannot be started: the run is released at once.            *)
LaunchFails(r) ==
  /\ At(r, "launch")
  /\ Goto(r, Played(r))
  /\ UNCHANGED <<working, rig, records, games, log, stager, counters>>

(* stop_game stops every java under the rig; a failure to do so is         *)
(* swallowed, and the run is released all the same.                        *)
Stop(r) ==
  /\ At(r, "play")
  /\ games' \in {{}, games}
  /\ Goto(r, Played(r))
  /\ UNCHANGED <<working, rig, records, log, stager, counters>>

(* Mutant: only the enabled ids are compared, not their hashes.            *)
StagedDriftOfIds(r) == DOMAIN manifest[r].entries # enabled

(* staged_drift: what differs between a manifest and the rig now.          *)
StagedDrift(r) == manifest[r].entries # Entries

(* release_run: compare, write the completion record, read who owns the    *)
(* rig, and give it back.                                                  *)
CheckDrift(r) ==
  /\ At(r, "drift")
  /\ session' = [session EXCEPT ![r].pc = "complete", ![r].drift = StagedDrift(r)]
  /\ UNCHANGED <<working, rig, records, games, log, stager, counters>>

Complete(r) ==
  /\ At(r, "complete")
  /\ completed' = [completed EXCEPT ![r] = IF session[r].drift THEN "drift" ELSE "clean"]
  /\ log' = IF log[r] = NoLog THEN log
              ELSE [log EXCEPT ![r].release =
                      IF @ = "no" \/ (@ = "kept" /\ (session[r].drift \/ completed[r] # "drift"))
                        THEN "kept" ELSE "replaced"]
  /\ Goto(r, "disown")
  /\ UNCHANGED <<working, rig, manifest, owner, games, stager, counters>>

(* Mutant: a run with drift keeps the rig.                                 *)
DisownClean(r) ==
  /\ At(r, "disown")
  /\ Goto(r, IF owner = r /\ completed[r] = "clean" THEN "unlink" ELSE End(r))
  /\ UNCHANGED <<working, rig, records, games, log, stager, counters>>

Disown(r) ==
  /\ At(r, "disown")
  /\ Goto(r, IF owner = r THEN "unlink" ELSE End(r))
  /\ UNCHANGED <<working, rig, records, games, log, stager, counters>>

Unlink(r) ==
  /\ At(r, "unlink")
  /\ owner' = NoRun
  /\ Goto(r, End(r))
  /\ UNCHANGED <<working, rig, manifest, completed, games, log, stager, counters>>

(* boot-test puts its copy of the enabled list back (or keeps its own).    *)
Restore(r) ==
  /\ At(r, "restore")
  /\ enabled' \in {session[r].saved, enabled}
  /\ Disturb
  /\ Goto(r, "idle")
  /\ UNCHANGED <<working, staged, candidates, records, games, stager, counters>>

(* The command dies, or an error outside its try blocks ends it: between   *)
(* preparation and launch nothing gives the rig back.                      *)
Interrupted(r) ==
  /\ ~At(r, "idle")
  /\ crashes < MaxCrashes
  /\ crashes' = crashes + 1
  /\ Goto(r, "idle")
  /\ UNCHANGED <<working, rig, records, games, log, stager, edits>>

RunStep(r) ==
  \/ BootList(r) \/ CheckOwner(r) \/ Observe(r) \/ Bind(r)
  \/ WriteManifest(r) \/ TakeOwnership(r)
  \/ Launch(r) \/ LaunchFails(r) \/ Stop(r)
  \/ CheckDrift(r) \/ Complete(r) \/ Disown(r) \/ Unlink(r) \/ Restore(r)

-----------------------------------------------------------------------------
(* Staging commands.                                                       *)

StagerGoto(s, there) ==
  stager' = [stager EXCEPT ![s] = IF there = "idle" THEN NoStaging ELSE [@ EXCEPT !.pc = there]]

(* rig-up and install ask once, at the start, whether the game is running  *)
(* and a run owns the rig.                                                 *)
BeginStaging(s, cmd, group) ==
  /\ stager[s].pc = "idle"
  /\ games = {}
  /\ owner = NoRun
  /\ stager' = [stager EXCEPT ![s] = [pc |-> "sync", cmd |-> cmd, group |-> group, left |-> group]]
  /\ UNCHANGED <<working, rig, records, games, log, session, counters>>

(* sync_working_copy, one working copy after the other.                    *)
Sync(s, m) ==
  /\ stager[s].pc = "sync"
  /\ m \in stager[s].left
  /\ staged' = [staged EXCEPT ![m] = working[m]]
  /\ IF staged[m] = working[m] THEN UNCHANGED log ELSE Disturb
  /\ stager' = [stager EXCEPT ![s].left = @ \ {m}]
  /\ UNCHANGED <<working, enabled, candidates, records, games, session, counters>>

(* rig-up then writes the enabled list, a state without candidates, and    *)
(* the candidates; install the candidates, then the enabled list.          *)
Synced(s) ==
  /\ stager[s].pc = "sync"
  /\ stager[s].left = {}
  /\ StagerGoto(s, IF stager[s].cmd = "rig-up" THEN "list" ELSE "record")
  /\ UNCHANGED <<working, rig, records, games, log, session, counters>>

WriteList(s) ==
  /\ stager[s].pc = "list"
  /\ enabled' \in {ids \in SUBSET Mods : stager[s].group \subseteq ids}
  /\ Disturb
  /\ StagerGoto(s, IF stager[s].cmd = "rig-up" THEN "forget" ELSE "idle")
  /\ UNCHANGED <<working, staged, candidates, records, games, session, counters>>

WriteState(s) ==
  /\ stager[s].pc = "forget"
  /\ candidates' = {}
  /\ StagerGoto(s, "record")
  /\ UNCHANGED <<working, staged, enabled, records, games, log, session, counters>>

RecordCandidates(s) ==
  /\ stager[s].pc = "record"
  /\ candidates' = stager[s].group
  /\ StagerGoto(s, IF stager[s].cmd = "rig-up" THEN "idle" ELSE "list")
  /\ UNCHANGED <<working, staged, enabled, records, games, log, session, counters>>

(* It fails or dies: what it has staged stays.                             *)
StagingFails(s) ==
  /\ stager[s].pc # "idle"
  /\ StagerGoto(s, "idle")
  /\ UNCHANGED <<working, rig, records, games, log, session, counters>>

StagerStep(s) ==
  \/ \E cmd \in {"rig-up", "install"}, group \in SUBSET Targets \ {{}} :
       BeginStaging(s, cmd, group)
  \/ \E m \in Targets : Sync(s, m)
  \/ Synced(s) \/ WriteList(s) \/ WriteState(s) \/ RecordCandidates(s) \/ StagingFails(s)

(* rig-reset --apply puts an earlier enabled list back and asks nobody.    *)
Reset ==
  /\ enabled' \in SUBSET Mods
  /\ Disturb
  /\ UNCHANGED <<working, staged, candidates, records, games, session, stager, counters>>

-----------------------------------------------------------------------------
(* The surroundings.                                                       *)

GameExits ==
  \E r \in games :
    /\ games' = games \ {r}
    /\ UNCHANGED <<working, rig, records, log, session, stager, counters>>

EditWorking ==
  \E m \in Targets :
    /\ edits < MaxEdits
    /\ edits' = edits + 1
    /\ working' = [working EXCEPT ![m] = edits + 1]
    /\ UNCHANGED <<rig, records, games, log, session, stager, crashes>>

(* Staged files change without a staging command: the game, an operator.   *)
Tamper ==
  \E m \in Mods :
    /\ edits < MaxEdits
    /\ edits' = edits + 1
    /\ staged' = [staged EXCEPT ![m] = edits + 1]
    /\ UNCHANGED <<working, enabled, candidates, records, games, log, session, stager, crashes>>

Surroundings ==
  \/ \E s \in Stagers : StagerStep(s)
  \/ Reset \/ GameExits \/ EditWorking \/ Tamper

Next ==
  \/ \E r \in Runs : (\E cmd \in Given : Begin(r, cmd)) \/ RunStep(r) \/ Interrupted(r)
  \/ Surroundings

Spec == Init /\ [][Next]_vars

-----------------------------------------------------------------------------
(* evaluate_run: the evidence of run r for target m.  (What the log has to *)
(* show besides, its milestones, its age and the manifest id the probe     *)
(* echoes, only refuses more.)                                             *)
Acceptable(r, m) ==
  /\ manifest[r] # NoManifest
  /\ log[r] # NoLog
  /\ completed[r] = "clean"
  /\ ~StagedDrift(r)
  /\ m \in DOMAIN manifest[r].bound
  /\ m \in DOMAIN manifest[r].entries
  /\ manifest[r].entries[m] = manifest[r].bound[m]
  /\ working[m] = manifest[r].bound[m]

-----------------------------------------------------------------------------
(* Properties.                                                             *)

(* Type correctness; a run that owns the rig, or is past its preparation,  *)
(* has a manifest.                                                         *)
TypeOK ==
  /\ working \in [Targets -> Versions]
  /\ staged \in [Mods -> Versions]
  /\ enabled \in SUBSET Mods
  /\ candidates \in SUBSET Targets
  /\ manifest \in [Runs -> Manifests \union {NoManifest}]
  /\ owner \in Runs \union {NoRun}
  /\ completed \in [Runs -> {"none", "clean", "drift"}]
  /\ games \in SUBSET Runs
  /\ log \in [Runs -> Logs \union {NoLog}]
  /\ session \in [Runs -> Sessions]
  /\ stager \in [Stagers -> Staging]
  /\ edits \in 0..MaxEdits
  /\ crashes \in 0..MaxCrashes
  /\ owner # NoRun => manifest[owner] # NoManifest
  /\ \A r \in Runs :
       session[r].pc \in {"own", "drift", "complete"} => manifest[r] # NoManifest

(* "A log plus today's hash of the working files does not prove the run    *)
(* used those bytes": an acceptable run does.  If it was released since    *)
(* its game started, no record of drift was replaced, and no other command *)
(* wrote into the rig between launch and release, then its game loaded     *)
(* exactly the mods the manifest enables and, of the target, exactly the   *)
(* bytes its working copy holds now, whatever else happened to the staged  *)
(* files, before or since.                                                 *)
Evidence ==
  \A r \in Runs, m \in Targets :
    Acceptable(r, m) /\ log[r].release = "kept" /\ log[r].clean =>
      /\ DOMAIN log[r].inputs = DOMAIN manifest[r].entries
      /\ log[r].inputs[m] = working[m]

(* "It never invents a manifest", and a run id keeps the one it has: no    *)
(* retry, second preparation or other run ever changes what was recorded   *)
(* before launch.                                                          *)
KeepsManifests ==
  \A r \in Runs : manifest[r] # NoManifest => manifest'[r] = manifest[r]

ManifestsStay == [][KeepsManifests]_vars

(* The rig does not stay owned by one run for ever: also a run that was    *)
(* cut off between preparation and launch, or found drift, is off it once  *)
(* it is released.                                                         *)
GivenBack == \A r \in Runs : owner = r ~> owner # r

(* evaluate_run: ACCEPTABLE only when "nothing staged or configured        *)
(* drifted (at completion and now)".  But a second release, when the rig   *)
(* has been put back, replaces the record of the drift the first one found.*)
DriftStands ==
  \A r \in Runs, m \in Targets : Acceptable(r, m) => log[r].release # "replaced"
=============================================================================
