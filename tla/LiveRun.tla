------------------------------ MODULE LiveRun -------------------------------
(***************************************************************************)
(* One command that plays the live run of a rig: it starts the launcher,   *)
(* waits for the probe's lines in the game's log, clicks on, plays the     *)
(* probe's combat mission once per round, and then stops the game          *)
(* (live/live_run.py, launch.py, graceful_exit.py, exit_observation.py).   *)
(* The game is a process of its own: the launcher (cmd.exe), the java it   *)
(* starts, and the probe inside it, which only speaks through files.       *)
(*                                                                         *)
(* Time is counted in ticks of the command's sleeps.  Clicks, screens and  *)
(* page flows are left out: a click step either is done or finds the game  *)
(* window gone.  One command runs on a rig at a time (module Rig).         *)
(***************************************************************************)
EXTENDS Integers

CONSTANTS MaxLaunches,      \* launches of the rig that are followed
          MaxCrashes,       \* deaths of the command that are followed
          Rounds,           \* rounds of the probe's combat plan
          MissionTime,      \* ticks after which a running round has ended
          ManifestIds, NoId,
          MenuTimeout, Grace, CampaignTimeout, CombatTimeout, UnpauseRetry,
          Watchdog, ExitWait, DoneWait, CloseWait

Times == {MissionTime, MenuTimeout, Grace, CampaignTimeout, CombatTimeout,
          UnpauseRetry, Watchdog, ExitWait, DoneWait, CloseWait}

ASSUME LiveAssumption ==
  /\ {MaxLaunches, MaxCrashes} \subseteq Nat
  /\ Rounds \in Nat \ {0}
  /\ Times \subseteq Nat \ {0}
  /\ NoId \notin ManifestIds

VARIABLES
  pc, opts,                 \* the command's place, and how it was called
  step, left, rest,         \* place in a wait's loop, ticks to its deadline;
                            \* ticks left of the combat timeout
  seen, age,                \* the watchdog: java was seen, ticks since launch
  mark, round, total,       \* the round being played, what the log had before
  verdict, stage, await,    \* the LiveResult, and outcome["await_exit"]
  kept,                     \* the launcher preferences to restore
  cmd, java, opened,        \* launcher, java; whether this launch has its log
  mission, progress, fighting, combatDone, written,      \* game and probe
  log,                      \* <TESTID>.stdout.log
  pos,                      \* bf_probe_combat_round
  marker,                   \* bf_probe_done
  exit,                     \* <TESTID>.exit.json
  prefs,                    \* the machine's launcher preferences
  id, launch, crashes,      \* this launch's manifest id, and counters
  outside, resisted,        \* its JDK is outside the rig; a marker of its
                            \* manifest that could not be removed
  fought, lost, excuse, asked, marked, killed, cut       \* history

command == <<pc, opts, step, left, rest, seen, age, mark, round, total, verdict, stage, await, kept>>
processes == <<cmd, java, opened, mission, progress, fighting, combatDone, written>>
files == <<log, pos, marker, exit, prefs>>
counters == <<id, launch, crashes, outside, resisted>>
history == <<fought, lost, excuse, asked, marked, killed, cut>>
vars == <<command, processes, files, counters, history>>

-----------------------------------------------------------------------------
Slices == 0..(Rounds - 1)
EmptyLog == [menu |-> FALSE, campaign |-> FALSE, saved |-> FALSE, ended |-> 0, told |-> 0]
OldLog == [menu |-> TRUE, campaign |-> TRUE, saved |-> TRUE, ended |-> Rounds, told |-> Rounds]

\* interactive implies natural exit (live_run), which leaves graceful unread;
\* `fallback` says that the generic New Game flow may follow the fixed one
Options == {o \in [natural : BOOLEAN, graceful : BOOLEAN, reload : BOOLEAN,
                   interactive : BOOLEAN, fallback : BOOLEAN] :
              /\ o.interactive => o.natural /\ ~o.reload /\ ~o.fallback
              /\ o.natural => o.graceful}

Default == [natural |-> FALSE, graceful |-> TRUE, reload |-> FALSE,
            interactive |-> FALSE, fallback |-> TRUE]

Waits == {"menu", "campaign", "again", "save", "combat", "watch"}   \* wait_for, while alive()
Settling == {"marker", "settle"}                                    \* wait_for_done, settle_exit
Clicking == {"newgame", "generic", "list", "play", "press"}         \* need the game window
Body == Waits \union Clicking \union {"silent"}
Stopping == Settling \union {"stop", "close", "killjava", "killtree", "restore"}

\* _running_java_under: the java processes with the rig's path
Listed == java = "running" /\ ~outside

\* hands.alive, java_started and the clicks look at the launcher's descendants
\* too.  The bat starts java itself, so a game outside the rig is found by its
\* parent's id, whether the launcher is still there or not.
Alive == java = "running" \/ cmd = "running"
Smaller(a, b) == IF a < b THEN a ELSE b

\* grace: the fixed flow has the whole campaign timeout when nothing follows it
FlowTime == IF opts.fallback THEN Smaller(Grace, CampaignTimeout) ELSE CampaignTimeout
\* Mutant of Slice: the combat is waited for in one piece
SliceWhole(r) == r

Slice(r) == Smaller(UnpauseRetry, r)

\* Mutant of Observed: lines logged before the round was started count too
ObservedWithoutOffset == CASE pc = "menu" -> log.menu
                           [] pc \in {"campaign", "again"} -> log.campaign
                           [] pc = "save" -> log.saved
                           [] pc = "combat" -> log.ended > 0
                           [] OTHER -> FALSE

Observed == CASE pc = "menu" -> log.menu
              [] pc \in {"campaign", "again"} -> log.campaign
              [] pc = "save" -> log.saved
              [] pc = "combat" -> log.ended > mark
              [] OTHER -> FALSE

\* go to a place; a wait starts with a look and `n` ticks
Go(p, n) == pc' = p /\ step' = "look" /\ left' = n

\* the body ends: running_game's finally clause comes next
End(v, s) ==
  /\ Go("stop", 0)
  /\ verdict' = v
  /\ stage' = s
  /\ await' = (v = "LIVE_DONE")

\* The rig may hold what an earlier run left: its log under the same name, its
\* marker, and the counter of rounds anywhere in the plan.
Init ==
  /\ pc = "idle" /\ opts = Default
  /\ step = "look" /\ left = 0 /\ rest = 0
  /\ seen = FALSE /\ age = 0
  /\ mark = 0 /\ round = 0 /\ total = 1
  /\ verdict = "none" /\ stage = "none" /\ await = FALSE
  /\ kept = "owner" /\ prefs = "owner"
  /\ cmd = "none" /\ java = "none" /\ opened = FALSE
  /\ mission = "none" /\ progress = 0 /\ fighting = 0
  /\ combatDone = FALSE /\ written = FALSE
  /\ log \in {EmptyLog, OldLog}
  /\ pos \in Slices
  /\ marker \in ManifestIds \union {NoId}
  /\ exit = [by |-> 0, natural |-> FALSE]
  /\ id = NoId /\ launch = 0 /\ crashes = 0 /\ outside = FALSE /\ resisted = FALSE
  /\ fought = {} /\ lost = 0 /\ excuse = FALSE
  /\ asked = FALSE /\ marked = FALSE /\ killed = {} /\ cut = FALSE

-----------------------------------------------------------------------------
(***************************************************************************)
(* The command: start.                                                     *)
(***************************************************************************)
\* running_game up to the launch: no java under the rig, a manifest (the same
\* id again when nothing changed), clear_done, which a marker may resist,
\* pinned preferences.  The launcher's bat names a JDK in the rig or outside.
Prepare ==
  /\ pc = "idle" /\ launch < MaxLaunches
  /\ cmd # "running" /\ java # "running"
  /\ launch' = launch + 1
  /\ opts' \in Options
  /\ id' \in ManifestIds
  /\ marker' \in {NoId, marker}
  /\ resisted' = (marker' = id')
  /\ outside' \in BOOLEAN
  /\ kept' = prefs
  /\ prefs' = IF opts'.interactive THEN prefs ELSE "pinned"
  /\ Go("start", 0)
  /\ verdict' = "none" /\ stage' = "none" /\ await' = FALSE
  /\ mark' = 0 /\ round' = 0 /\ total' = 1 /\ rest' = 0
  /\ seen' = FALSE /\ age' = 0
  /\ cmd' = "none" /\ java' = "none" /\ opened' = FALSE
  /\ mission' = "none" /\ progress' = 0 /\ combatDone' = FALSE /\ written' = FALSE
  /\ fought' = {} /\ lost' = 0 /\ excuse' = FALSE
  /\ asked' = FALSE /\ marked' = FALSE
  /\ UNCHANGED <<fighting, log, pos, exit, crashes, killed, cut>>

\* launch.start_game; drive's first wait, or the operator's own run
Start ==
  /\ pc = "start"
  /\ cmd' = "running"
  /\ IF opts.interactive THEN Go("watch", 0) ELSE Go("menu", MenuTimeout)
  /\ UNCHANGED <<opts, rest, seen, age, mark, round, total, verdict, stage, await, kept,
                 java, opened, mission, progress, fighting, combatDone, written,
                 files, counters, history>>

\* Popen raised: the preferences are put back and the run is released
StartFails ==
  /\ pc = "start"
  /\ Go("idle", 0)
  /\ prefs' = kept
  /\ UNCHANGED <<opts, rest, seen, age, mark, round, total, verdict, stage, await, kept,
                 processes, log, pos, marker, exit, counters, history>>

(***************************************************************************)
(* The command: waits.  wait_for looks into the log, asks whether the game *)
(* is alive, sleeps and looks again; at its deadline it looks once more.   *)
(***************************************************************************)
\* the wait saw what it waited for, and drive goes on
Arrived ==
  \/ /\ pc = "menu" /\ Go("newgame", 0)
     /\ UNCHANGED <<round, total, verdict, stage, await>>
  \/ /\ pc \in {"campaign", "again"}
     /\ IF opts.reload THEN Go("save", CampaignTimeout) ELSE Go("list", 0)
     /\ UNCHANGED <<round, total, verdict, stage, await>>
  \/ /\ pc = "save" /\ Go("list", 0)
     /\ UNCHANGED <<round, total, verdict, stage, await>>
  \/ /\ pc = "combat"
     /\ round' = round + 1
     /\ total' = IF log.told > total THEN log.told ELSE total
     /\ IF round' < total'
          THEN Go("play", 0) /\ UNCHANGED <<verdict, stage, await>>
          ELSE End("LIVE_DONE", "none")

\* the wait returned False
Missed ==
  \/ pc = "campaign" /\ FlowTime < CampaignTimeout /\ Go("generic", 0) /\ UNCHANGED <<verdict, stage, await>>
  \/ pc = "campaign" /\ FlowTime = CampaignTimeout /\ End("LIVE_STUCK", "campaign")
  \/ pc \in {"menu", "again", "save"} /\ End("LIVE_STUCK", pc)
  \/ pc = "combat" /\ Go("silent", 0) /\ UNCHANGED <<verdict, stage, await>>

Look ==
  /\ pc \in Waits /\ step = "look"
  /\ \/ Observed /\ Arrived
     \/ ~Observed /\ left = 0 /\ pc # "watch" /\ Missed /\ UNCHANGED <<round, total>>
     \/ /\ ~Observed /\ (left > 0 \/ pc = "watch")
        /\ step' = "ask"
        /\ UNCHANGED <<pc, left, round, total, verdict, stage, await>>
  /\ UNCHANGED <<opts, rest, seen, age, mark, kept, processes, files, counters, history>>

\* hands.alive() with the launch watchdog: LaunchNoProcess when no java came
\* in time.  The operator's own run is done once the game is gone.
Ask ==
  /\ pc \in Waits /\ step = "ask"
  /\ seen' = (seen \/ java = "running")
  /\ \/ /\ ~seen' /\ age >= Watchdog
        /\ End("LIVE_STUCK", "LAUNCH_NO_PROCESS")
     \/ /\ seen' \/ age < Watchdog
        /\ ~Alive
        /\ IF pc = "watch" THEN End("LIVE_DONE", "none") ELSE Missed
     \/ /\ seen' \/ age < Watchdog
        /\ Alive
        /\ step' = "sleep"
        /\ UNCHANGED <<pc, left, verdict, stage, await>>
  /\ UNCHANGED <<opts, rest, age, mark, round, total, kept, processes, files, counters, history>>

\* Mutant of Tick: a wait without a deadline counts below zero
TickBelowZero ==
  /\ step = "sleep"
  /\ mission = "running" => progress < MissionTime
  /\ step' = "look"
  /\ left' = left - 1
  /\ age' = Smaller(age + 1, Watchdog)
  /\ progress' = IF mission = "running" THEN progress + 1 ELSE progress
  /\ UNCHANGED <<pc, opts, rest, seen, mark, round, total, verdict, stage, await, kept,
                 cmd, java, opened, mission, fighting, combatDone, written,
                 files, counters, history>>

\* One tick of a sleep.  A round that runs has ended after MissionTime ticks.
Tick ==
  /\ step = "sleep"
  /\ mission = "running" => progress < MissionTime
  /\ step' = "look"
  /\ left' = IF left > 0 THEN left - 1 ELSE 0
  /\ age' = Smaller(age + 1, Watchdog)
  /\ progress' = IF mission = "running" THEN progress + 1 ELSE progress
  /\ UNCHANGED <<pc, opts, rest, seen, mark, round, total, verdict, stage, await, kept,
                 cmd, java, opened, mission, fighting, combatDone, written,
                 files, counters, history>>

-----------------------------------------------------------------------------
(***************************************************************************)
(* The command: clicks.  Each needs the game's window.                     *)
(***************************************************************************)
\* hands.sleep(20) first: by then the launcher has emptied the log
NewGame ==
  /\ pc = "newgame" /\ java = "running" /\ opened
  /\ Go("campaign", FlowTime)
  /\ UNCHANGED <<opts, rest, seen, age, mark, round, total, verdict, stage, await, kept,
                 processes, files, counters, history>>

\* generic_new_game goes on from the page the fixed flow stopped at
GenericNewGame ==
  /\ pc = "generic" /\ java = "running"
  /\ Go("again", CampaignTimeout - FlowTime)
  /\ UNCHANGED <<opts, rest, seen, age, mark, round, total, verdict, stage, await, kept,
                 processes, files, counters, history>>

\* to_mission_list, unless the probe's row cannot be reached in the list
ToMissionList ==
  /\ pc = "list" /\ java = "running"
  /\ \/ Go("play", 0) /\ UNCHANGED <<verdict, stage, await>>
     \/ End("LIVE_STUCK", "mission-list")
  /\ UNCHANGED <<opts, rest, seen, age, mark, round, total, kept,
                 processes, files, counters, history>>

\* play_probe_combat.  The click may miss the mission.  A mission that starts
\* logs its round and moves the counter on (MissionDefinition.java); the
\* first SPACE may come before it takes input, and leave it paused.
Play ==
  /\ pc = "play" /\ java = "running"
  /\ mark' = log.ended
  /\ rest' = CombatTimeout
  /\ Go("combat", Slice(CombatTimeout))
  /\ \/ /\ excuse' = TRUE /\ lost' = 0
        /\ UNCHANGED <<mission, progress, fighting, pos, log>>
     \/ /\ excuse' = FALSE
        /\ fighting' = pos
        /\ pos' = IF pos = Rounds - 1 THEN 0 ELSE pos + 1
        /\ log' = [log EXCEPT !.told = Rounds]
        /\ progress' = 0
        /\ \/ mission' = "running" /\ lost' = 0
           \/ mission' = "paused" /\ lost' = 1
  /\ UNCHANGED <<opts, seen, age, round, total, verdict, stage, await, kept,
                 cmd, java, opened, combatDone, written,
                 marker, exit, prefs, counters, fought, asked, marked, killed, cut>>

\* wait_for_combat_end between two slices
Silent ==
  /\ pc = "silent"
  /\ rest' = rest - Slice(rest)
  /\ IF rest' <= 0 \/ ~Alive
       THEN End("LIVE_STUCK", "combat")
       ELSE Go("press", 0) /\ UNCHANGED <<verdict, stage, await>>
  /\ UNCHANGED <<opts, seen, age, mark, round, total, kept, processes, files, counters, history>>

\* SPACE again: it starts a paused round and pauses a running one
Press ==
  /\ pc = "press" /\ java = "running"
  /\ Go("combat", Slice(rest))
  /\ \/ mission = "paused" /\ mission' = "running" /\ lost' = lost
     \/ mission = "running" /\ mission' = "paused" /\ lost' = lost
     \/ mission \notin {"paused", "running"} /\ UNCHANGED <<mission, lost>>
     \/ mission \in {"paused", "running"} /\ mission' = mission /\ lost' = Smaller(lost + 1, 2)
  /\ UNCHANGED <<opts, rest, seen, age, mark, round, total, verdict, stage, await, kept,
                 cmd, java, opened, progress, fighting, combatDone, written,
                 files, counters, fought, excuse, asked, marked, killed, cut>>

\* geometry() raises when no window of the game is found
WindowGone ==
  /\ pc \in Clicking /\ java # "running"
  /\ End("raised", pc)
  /\ UNCHANGED <<opts, rest, seen, age, mark, round, total, kept,
                 processes, files, counters, history>>

\* any other exception in the body, Ctrl+C too
Raise ==
  /\ pc \in Body
  /\ End("raised", pc)
  /\ UNCHANGED <<opts, rest, seen, age, mark, round, total, kept,
                 processes, files, counters, history>>

-----------------------------------------------------------------------------
(***************************************************************************)
(* The command: stop_game, then what running_game gives back.              *)
(***************************************************************************)
Record(natural) == exit' = [by |-> launch, natural |-> natural]

StopGame ==
  /\ pc = "stop"
  /\ \/ opts.natural /\ await /\ Go("settle", ExitWait) /\ UNCHANGED exit
     \/ opts.natural /\ ~await /\ Go("killjava", 0) /\ Record(FALSE)
     \/ ~opts.natural /\ opts.graceful /\ await /\ Go("marker", DoneWait) /\ UNCHANGED exit
     \/ ~opts.natural /\ ~(opts.graceful /\ await) /\ Go("killjava", 0) /\ UNCHANGED exit
  /\ UNCHANGED <<opts, rest, seen, age, mark, round, total, verdict, stage, await, kept,
                 processes, log, pos, marker, prefs, counters, history>>

\* one look of wait_for_done
WaitForDone ==
  /\ pc = "marker" /\ step = "look"
  /\ \/ marker = id /\ Go("close", 0) /\ UNCHANGED exit
     \/ marker # id /\ left = 0 /\ Go("killjava", 0) /\ Record(FALSE)
     \/ marker # id /\ left > 0 /\ step' = "sleep" /\ UNCHANGED <<pc, left, exit>>
  /\ UNCHANGED <<opts, rest, seen, age, mark, round, total, verdict, stage, await, kept,
                 processes, log, pos, marker, prefs, counters, history>>

\* post_close: WM_CLOSE to the game's window, when there is one
PostClose ==
  /\ pc = "close"
  /\ \/ java = "running" /\ Go("settle", CloseWait) /\ asked' = TRUE /\ UNCHANGED exit
     \/ java # "running" /\ Go("killjava", 0) /\ Record(FALSE) /\ UNCHANGED asked
  /\ UNCHANGED <<opts, rest, seen, age, mark, round, total, verdict, stage, await, kept,
                 processes, log, pos, marker, prefs, counters, fought, lost, excuse, marked, killed, cut>>

\* Mutant of ObservedExit: the launcher's exit stands for the game's
ObservedExitLauncher == TRUE

\* observed_exit, of a launcher that has exited: no java is left under the rig
ObservedExit == ~Listed

\* one look of settle_exit
SettleExit ==
  /\ pc = "settle" /\ step = "look"
  /\ \/ cmd # "running" /\ Go("killjava", 0) /\ Record(ObservedExit)
     \/ cmd = "running" /\ left = 0 /\ Go("killjava", 0) /\ Record(FALSE)
     \/ cmd = "running" /\ left > 0 /\ step' = "sleep" /\ UNCHANGED <<pc, left, exit>>
  /\ UNCHANGED <<opts, rest, seen, age, mark, round, total, verdict, stage, await, kept,
                 processes, log, pos, marker, prefs, counters, history>>

Kill(here, next) ==
  /\ pc = here /\ Go(next, 0)
  /\ UNCHANGED <<opts, rest, seen, age, mark, round, total, verdict, stage, await, kept,
                 opened, progress, fighting, combatDone, written,
                 files, counters, fought, lost, excuse, asked, marked, cut>>

\* every java under the rig, then the launcher's tree if the launcher is there
KillJava ==
  /\ Kill("killjava", "killtree")
  /\ IF Listed
       THEN java' = "exited" /\ mission' = "none" /\ killed' = killed \union {launch}
       ELSE UNCHANGED <<java, mission, killed>>
  /\ UNCHANGED cmd

\* Mutant of KillTree: the launcher is only stopped together with a java
KillTreeWithJava ==
  /\ Kill("killtree", "restore")
  /\ IF java = "running"
       THEN cmd' = "exited" /\ java' = "exited" /\ mission' = "none" /\ killed' = killed \union {launch}
       ELSE UNCHANGED <<cmd, java, mission, killed>>

KillTree ==
  /\ Kill("killtree", "restore")
  /\ IF cmd = "running"
       THEN /\ cmd' = "exited" /\ killed' = killed \union {launch}
            /\ IF java = "running" THEN java' = "exited" /\ mission' = "none" ELSE UNCHANGED <<java, mission>>
       ELSE UNCHANGED <<cmd, java, mission, killed>>

\* the preferences and the rig are given back, whatever stop_game raised
Restore ==
  /\ pc = "restore"
  /\ Go("idle", 0)
  /\ prefs' = IF opts.interactive THEN prefs ELSE kept
  /\ UNCHANGED <<opts, rest, seen, age, mark, round, total, verdict, stage, await, kept,
                 processes, log, pos, marker, exit, counters, history>>

\* Ctrl+C inside stop_game leaves the game as it is
StopRaises ==
  /\ pc \in Stopping \ {"restore"} /\ crashes < MaxCrashes
  /\ Go("restore", 0)
  /\ crashes' = crashes + 1 /\ cut' = TRUE
  /\ UNCHANGED <<opts, rest, seen, age, mark, round, total, verdict, stage, await, kept,
                 processes, files, id, launch, outside, resisted, fought, lost, excuse, asked, marked, killed>>

\* the command dies: nothing is stopped and nothing is given back
Crash ==
  /\ pc # "idle" /\ crashes < MaxCrashes
  /\ Go("idle", 0)
  /\ crashes' = crashes + 1 /\ cut' = TRUE
  /\ UNCHANGED <<opts, rest, seen, age, mark, round, total, verdict, stage, await, kept,
                 processes, files, id, launch, outside, resisted, fought, lost, excuse, asked, marked, killed>>

Command == \/ Prepare \/ Start \/ StartFails \/ Look \/ Ask \/ Tick
           \/ NewGame \/ GenericNewGame \/ ToMissionList \/ Play \/ Silent \/ Press
           \/ WindowGone \/ Raise
           \/ StopGame \/ WaitForDone \/ PostClose \/ SettleExit
           \/ KillJava \/ KillTree \/ Restore \/ StopRaises \/ Crash

-----------------------------------------------------------------------------
(***************************************************************************)
(* The game and the probe in it.                                           *)
(***************************************************************************)
\* cmd.exe opens the log for the redirection of its bat
OpenLog ==
  /\ cmd = "running" /\ ~opened
  /\ opened' = TRUE /\ log' = EmptyLog
  /\ UNCHANGED <<command, cmd, java, mission, progress, fighting, combatDone, written,
                 pos, marker, exit, prefs, counters, history>>

\* Play was pressed in the launcher
JavaStarts ==
  /\ cmd = "running" /\ opened /\ java = "none"
  /\ java' = "running"
  /\ UNCHANGED <<command, cmd, opened, mission, progress, fighting, combatDone, written,
                 files, counters, history>>

\* the lines that the game and the campaign probe log, each in its time
GameLogs ==
  /\ java = "running"
  /\ \/ ~log.menu /\ log' = [log EXCEPT !.menu = TRUE]
     \/ /\ ~log.campaign /\ log.menu
        /\ pc \in {"campaign", "generic", "again", "watch"}
        /\ log' = [log EXCEPT !.campaign = TRUE]
     \/ ~log.saved /\ log.campaign /\ pc = "save" /\ log' = [log EXCEPT !.saved = TRUE]
  /\ UNCHANGED <<command, processes, pos, marker, exit, prefs, counters, history>>

\* BfProbeCombatPlugin.advance ends a round in its time, or early (runaway)
MissionEnds ==
  /\ mission = "running"
  /\ mission' = "none" /\ progress' = 0
  /\ log' = [log EXCEPT !.ended = @ + 1]
  /\ fought' = fought \union {fighting}
  /\ combatDone' = (combatDone \/ fighting = Rounds - 1)
  /\ UNCHANGED <<command, cmd, java, opened, fighting, written,
                 pos, marker, exit, prefs, counters, lost, excuse, asked, marked, killed, cut>>

MissionHangs ==
  /\ mission = "running"
  /\ mission' = "hung" /\ progress' = 0 /\ excuse' = TRUE
  /\ UNCHANGED <<command, cmd, java, opened, fighting, combatDone, written,
                 files, counters, fought, lost, asked, marked, killed, cut>>

\* ProbeDone.writeIfComplete
WriteMarker ==
  /\ java = "running" /\ ~written /\ log.campaign /\ combatDone
  /\ written' = TRUE /\ marker' = id /\ marked' = TRUE
  /\ UNCHANGED <<command, cmd, java, opened, mission, progress, fighting, combatDone,
                 log, pos, exit, prefs, counters, fought, lost, excuse, asked, killed, cut>>

\* the game is quit, asked to close, or dies
GameExits ==
  /\ java = "running"
  /\ java' = "exited" /\ mission' = "none" /\ progress' = 0 /\ excuse' = TRUE
  /\ UNCHANGED <<command, cmd, opened, fighting, combatDone, written,
                 files, counters, fought, lost, asked, marked, killed, cut>>

\* the launcher ends after the game, or before it when its bat detaches or its
\* console is closed; nobody does that in the moment of the kill
LauncherExits ==
  /\ cmd = "running" /\ pc # "killtree"
  /\ cmd' = "exited"
  /\ UNCHANGED <<command, java, opened, mission, progress, fighting, combatDone, written,
                 files, counters, history>>

Game == \/ OpenLog \/ JavaStarts \/ GameLogs \/ MissionEnds \/ MissionHangs
        \/ WriteMarker \/ GameExits \/ LauncherExits

Next == Command \/ Game
Spec == Init /\ [][Next]_vars

\* The command goes on by itself, a running round ends; the operator need not
\* call, raise or crash anything, nor the game answer.
Drives == \/ Start \/ Look \/ Ask \/ Tick \/ NewGame \/ GenericNewGame \/ ToMissionList
          \/ Play \/ Silent \/ Press \/ WindowGone \/ StopGame \/ WaitForDone \/ PostClose
          \/ SettleExit \/ KillJava \/ KillTree \/ Restore
FairSpec == Spec /\ WF_vars(Drives) /\ WF_vars(MissionEnds)

-----------------------------------------------------------------------------
(***************************************************************************)
(* Properties.                                                             *)
(***************************************************************************)
Stages == Waits \union Clicking \union {"silent", "none", "mission-list", "LAUNCH_NO_PROCESS"}

Places == {"idle", "start"} \union Body \union Stopping
Logs == [menu : BOOLEAN, campaign : BOOLEAN, saved : BOOLEAN, ended : Nat, told : {0, Rounds}]
Ids == ManifestIds \union {NoId}

CommandTypes ==
  /\ pc \in Places /\ opts \in Options
  /\ step \in {"look", "ask", "sleep"}
  /\ left \in Nat /\ rest \in 0..CombatTimeout
  /\ age \in 0..Watchdog /\ mark \in Nat /\ round \in Nat /\ total \in Nat
  /\ verdict \in {"none", "raised", "LIVE_STUCK", "LIVE_DONE"}
  /\ stage \in Stages /\ kept \in {"owner", "pinned"}

GameTypes ==
  /\ cmd \in {"none", "running", "exited"} /\ java \in {"none", "running", "exited"}
  /\ mission \in {"none", "paused", "running", "hung"} /\ progress \in 0..MissionTime
  /\ fighting \in Slices

FileTypes ==
  /\ log \in Logs /\ pos \in Slices /\ marker \in Ids
  /\ exit \in [by : Nat, natural : BOOLEAN]
  /\ prefs \in {"owner", "pinned"}

HistoryTypes ==
  /\ id \in Ids /\ launch \in Nat /\ crashes \in Nat
  /\ fought \subseteq Slices /\ lost \in 0..2 /\ killed \subseteq Nat

Flags ==
  /\ seen \in BOOLEAN /\ await \in BOOLEAN
  /\ opened \in BOOLEAN /\ combatDone \in BOOLEAN /\ written \in BOOLEAN
  /\ excuse \in BOOLEAN /\ asked \in BOOLEAN /\ marked \in BOOLEAN /\ cut \in BOOLEAN
  /\ outside \in BOOLEAN /\ resisted \in BOOLEAN

\* Type invariant: every variable, the files and the history among them.
TypeOK == CommandTypes /\ GameTypes /\ FileTypes /\ HistoryTypes /\ Flags

\* An exit file says NATURAL only of a launch whose game left by itself: no
\* process of that launch was ever stopped, before or after the file was
\* written, and a game of the rig's own JDK is gone (exit_observation.py: a
\* code is never inferred).  Of a JDK outside the rig it says the first only.
NaturalIsSeen ==
  exit.natural =>
    /\ exit.by \notin killed
    /\ exit.by = launch /\ ~outside => java # "running"

\* LIVE_DONE means that this launch's campaign checks ended and that every
\* slice of the combat plan was fought to its end, wherever the counter of
\* rounds stood; and the game is asked to close only after that, once the
\* probe of this launch wrote its marker, unless one of the same manifest
\* could not be removed before it (live_run.drive, graceful_close).
PlayedWhole ==
  /\ verdict = "LIVE_DONE" /\ ~opts.interactive =>
       fought = Slices /\ log.campaign /\ (opts.reload => log.saved)
  /\ asked => verdict = "LIVE_DONE" /\ (marked \/ resisted)

\* One lost SPACE does not end a run: a round that is given up while the game
\* lives and its mission was started and does not hang lost two presses or
\* more (live_run.wait_for_combat_end).
LostPressRecovered ==
  verdict = "LIVE_STUCK" /\ stage = "combat" /\ ~excuse => lost = 2

\* A repeated SPACE never pauses a round that runs (the comment on
\* COMBAT_UNPAUSE_RETRY, live_run.py:384).
NeverPauses == [][mission = "running" => mission' # "paused"]_vars

\* Every run that the command drives itself ends, with the game stopped and
\* the owner's launcher preferences back, unless the command was cut off
\* (running_game's finally clause, stop_game).  One game may stay: that of a
\* JDK outside the rig whose launcher left by itself, which stop_game neither
\* lists nor reaches through the launcher.
Stray == outside /\ launch \notin killed
Tidy == cmd # "running" /\ (java = "running" => Stray) /\ prefs = "owner"
RunEnds == pc # "idle" /\ ~opts.interactive ~> pc = "idle" /\ (cut \/ Tidy)

\* What the last two need of the numbers: a round is shorter than the time
\* between two presses, and a retry leaves time for a whole round.
ShortRounds == MissionTime < UnpauseRetry
RoomForARetry == UnpauseRetry + MissionTime < CombatTimeout
=============================================================================
