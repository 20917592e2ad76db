--------------------------- MODULE LiveRun_proofs ---------------------------
(***************************************************************************)
(* Proofs about LiveRun, for every number of rounds, every time out and    *)
(* every bound: types, what an exit file may say, what a finished run has  *)
(* played, and what the repeated SPACE does when rounds are short.         *)
(***************************************************************************)
EXTENDS LiveRun, TLAPS

(* The numbers of the configuration.                                       *)
LEMMA Numbers ==
  /\ MaxLaunches \in Nat /\ MaxCrashes \in Nat
  /\ Rounds \in Nat /\ MissionTime \in Nat /\ CombatTimeout \in Nat
  /\ UnpauseRetry \in Nat /\ Watchdog \in Nat
  /\ Rounds > 0 /\ MissionTime > 0 /\ CombatTimeout > 0 /\ UnpauseRetry > 0
  /\ MenuTimeout \in Nat /\ Grace \in Nat /\ CampaignTimeout \in Nat
  /\ ExitWait \in Nat /\ DoneWait \in Nat /\ CloseWait \in Nat
BY LiveAssumption DEF Times

(* A slice of what is left of the combat timeout is within both.           *)
LEMMA SliceIsSmaller ==
  \A r \in Nat : /\ Slice(r) \in Nat /\ Slice(r) <= r /\ Slice(r) <= UnpauseRetry
                 /\ Slice(r) = r \/ Slice(r) = UnpauseRetry
                 /\ r - Slice(r) \in 0..r
BY Numbers DEF Slice, Smaller

(* The fixed flow has at most the campaign's time.                         *)
LEMMA FlowIsSmaller ==
  FlowTime \in Nat /\ CampaignTimeout - FlowTime \in Nat
BY Numbers DEF FlowTime, Smaller

(* The places of the command, and the ticks it starts a wait with.         *)
LEMMA PlacesAre ==
  /\ Places = {"idle", "start", "menu", "campaign", "again", "save", "combat", "watch",
               "newgame", "generic", "list", "play", "press", "silent", "marker", "settle",
               "stop", "close", "killjava", "killtree", "restore"}
  /\ Stages = {"menu", "campaign", "again", "save", "combat", "watch", "newgame", "generic",
               "list", "play", "press", "silent", "none", "mission-list", "LAUNCH_NO_PROCESS"}
BY DEF Places, Stages, Body, Stopping, Waits, Clicking, Settling

-----------------------------------------------------------------------------
(* Types.                                                                  *)
(* The two logs that a rig may start with.                                 *)
LEMMA OldLogs == EmptyLog \in Logs /\ OldLog \in Logs
<1>1. EmptyLog \in Logs
  BY DEF EmptyLog, Logs
<1>2. OldLog \in Logs
  BY Numbers DEF OldLog, Logs
<1>. QED
  BY <1>1, <1>2

(* The initial states have the types.                                      *)
LEMMA InitTypes == Init => TypeOK
<1> SUFFICES ASSUME Init PROVE TypeOK
  OBVIOUS
<1>1. CommandTypes
  BY Numbers, PlacesAre DEF Init, CommandTypes, Options, Default
<1>2. GameTypes
  BY Numbers DEF Init, GameTypes, Slices
<1>3. FileTypes
  BY Numbers, OldLogs DEF Init, FileTypes, Slices, Ids
<1>4. HistoryTypes
  BY Numbers DEF Init, HistoryTypes, Slices, Ids
<1>5. Flags
  BY DEF Init, Flags
<1>. QED
  BY <1>1, <1>2, <1>3, <1>4, <1>5 DEF TypeOK

(* What is written of an exit has its type.                                *)
LEMMA RecordTypes ==
  ASSUME TypeOK, NEW b \in BOOLEAN, Record(b)
  PROVE  exit' \in [by : Nat, natural : BOOLEAN]
BY DEF TypeOK, HistoryTypes, Record

(* Every step keeps the types.                                             *)
LEMMA StepTypes == TypeOK /\ [Next]_vars => TypeOK'
<1> SUFFICES ASSUME TypeOK, [Next]_vars PROVE TypeOK'
  OBVIOUS
<1> USE Numbers DEF TypeOK
<1>1. CASE Prepare
  <2>1. CommandTypes'
    BY <1>1, PlacesAre DEF Prepare, Go, CommandTypes, Waits, Clicking, Body, Stopping,
         Settling, FileTypes, Logs
  <2>2. GameTypes'
    BY <1>1 DEF Prepare, Go, GameTypes
  <2>3. FileTypes'
    BY <1>1 DEF Prepare, Go, FileTypes, Ids, HistoryTypes, CommandTypes
  <2>4. HistoryTypes'
    BY <1>1 DEF Prepare, Go, HistoryTypes, Ids, GameTypes
  <2>5. Flags'
    BY <1>1 DEF Prepare, Go, Flags
  <2>. QED
    BY <2>1, <2>2, <2>3, <2>4, <2>5
<1>2. CASE Start
  <2>1. CommandTypes'
    BY <1>2, PlacesAre DEF Start, Go, files, counters, history, CommandTypes, Waits,
         Clicking, Body, Stopping, Settling
  <2>2. GameTypes'
    BY <1>2 DEF Start, Go, files, counters, history, GameTypes
  <2>3. FileTypes'
    BY <1>2 DEF Start, files, counters, history, FileTypes
  <2>4. HistoryTypes'
    BY <1>2 DEF Start, files, counters, history, HistoryTypes
  <2>5. Flags'
    BY <1>2 DEF Start, files, counters, history, Flags
  <2>. QED
    BY <2>1, <2>2, <2>3, <2>4, <2>5
<1>3. CASE StartFails
  <2>1. CommandTypes'
    BY <1>3, PlacesAre DEF StartFails, Go, processes, counters, history, CommandTypes,
         Waits, Clicking, Body, Stopping, Settling
  <2>2. GameTypes'
    BY <1>3 DEF StartFails, processes, counters, history, GameTypes
  <2>3. FileTypes'
    BY <1>3 DEF StartFails, Go, processes, counters, history, FileTypes, CommandTypes
  <2>4. HistoryTypes'
    BY <1>3 DEF StartFails, processes, counters, history, HistoryTypes
  <2>5. Flags'
    BY <1>3 DEF StartFails, processes, counters, history, Flags
  <2>. QED
    BY <2>1, <2>2, <2>3, <2>4, <2>5
<1>4. CASE Look
  <2>1. CommandTypes'
    BY <1>4, PlacesAre, FlowIsSmaller DEF Look, Arrived, Go, End, Missed, processes, files,
         counters, history, Waits, CommandTypes, Clicking, Body, Stopping, Settling, FileTypes,
         Logs
  <2>2. GameTypes'
    BY <1>4 DEF Look, processes, files, counters, history, GameTypes
  <2>3. FileTypes'
    BY <1>4 DEF Look, processes, files, counters, history, FileTypes
  <2>4. HistoryTypes'
    BY <1>4 DEF Look, processes, files, counters, history, HistoryTypes
  <2>5. Flags'
    BY <1>4 DEF Look, Arrived, Go, End, Missed, Observed, processes, files, counters,
         history, Waits, Flags
  <2>. QED
    BY <2>1, <2>2, <2>3, <2>4, <2>5
<1>5. CASE Ask
  <2>1. CommandTypes'
    BY <1>5, PlacesAre, FlowIsSmaller DEF Ask, End, Go, Missed, processes, files, counters,
         history, Waits, CommandTypes, Clicking, Body, Stopping, Settling
  <2>2. GameTypes'
    BY <1>5 DEF Ask, processes, files, counters, history, GameTypes
  <2>3. FileTypes'
    BY <1>5 DEF Ask, processes, files, counters, history, FileTypes
  <2>4. HistoryTypes'
    BY <1>5 DEF Ask, processes, files, counters, history, HistoryTypes
  <2>5. Flags'
    BY <1>5 DEF Ask, End, Go, Missed, Alive, processes, files, counters, history, Waits,
         Flags
  <2>. QED
    BY <2>1, <2>2, <2>3, <2>4, <2>5
<1>6. CASE Tick
  <2>1. CommandTypes'
    BY <1>6, PlacesAre DEF Tick, Smaller, files, counters, history, CommandTypes, Waits,
         Clicking, Body, Stopping, Settling
  <2>2. GameTypes'
    BY <1>6 DEF Tick, Smaller, files, counters, history, GameTypes
  <2>3. FileTypes'
    BY <1>6 DEF Tick, files, counters, history, FileTypes
  <2>4. HistoryTypes'
    BY <1>6 DEF Tick, files, counters, history, HistoryTypes
  <2>5. Flags'
    BY <1>6 DEF Tick, files, counters, history, Flags
  <2>. QED
    BY <2>1, <2>2, <2>3, <2>4, <2>5
<1>7. CASE NewGame
  <2>1. CommandTypes'
    BY <1>7, PlacesAre, FlowIsSmaller DEF NewGame, Go, processes, files, counters, history,
         CommandTypes, Waits, Clicking, Body, Stopping, Settling
  <2>2. GameTypes'
    BY <1>7 DEF NewGame, processes, files, counters, history, GameTypes
  <2>3. FileTypes'
    BY <1>7 DEF NewGame, processes, files, counters, history, FileTypes
  <2>4. HistoryTypes'
    BY <1>7 DEF NewGame, processes, files, counters, history, HistoryTypes
  <2>5. Flags'
    BY <1>7 DEF NewGame, processes, files, counters, history, Flags
  <2>. QED
    BY <2>1, <2>2, <2>3, <2>4, <2>5
<1>8. CASE GenericNewGame
  <2>1. CommandTypes'
    BY <1>8, PlacesAre, FlowIsSmaller DEF GenericNewGame, Go, processes, files, counters,
         history, CommandTypes, Waits, Clicking, Body, Stopping, Settling
  <2>2. GameTypes'
    BY <1>8 DEF GenericNewGame, processes, files, counters, history, GameTypes
  <2>3. FileTypes'
    BY <1>8 DEF GenericNewGame, processes, files, counters, history, FileTypes
  <2>4. HistoryTypes'
    BY <1>8 DEF GenericNewGame, processes, files, counters, history, HistoryTypes
  <2>5. Flags'
    BY <1>8 DEF GenericNewGame, processes, files, counters, history, Flags
  <2>. QED
    BY <2>1, <2>2, <2>3, <2>4, <2>5
<1>9. CASE ToMissionList
  <2>1. CommandTypes'
    BY <1>9, PlacesAre DEF ToMissionList, Go, End, processes, files, counters, history,
         CommandTypes, Waits, Clicking, Body, Stopping, Settling
  <2>2. GameTypes'
    BY <1>9 DEF ToMissionList, processes, files, counters, history, GameTypes
  <2>3. FileTypes'
    BY <1>9 DEF ToMissionList, processes, files, counters, history, FileTypes
  <2>4. HistoryTypes'
    BY <1>9 DEF ToMissionList, processes, files, counters, history, HistoryTypes
  <2>5. Flags'
    BY <1>9 DEF ToMissionList, Go, End, processes, files, counters, history, Flags
  <2>. QED
    BY <2>1, <2>2, <2>3, <2>4, <2>5
<1>10. CASE Play
  <2>1. CommandTypes'
    BY <1>10, PlacesAre, SliceIsSmaller DEF Play, Go, counters, CommandTypes, Waits,
         Clicking, Body, Stopping, Settling, FileTypes, Logs
  <2>2. GameTypes'
    BY <1>10 DEF Play, Go, counters, GameTypes, FileTypes
  <2>3. FileTypes'
    BY <1>10, OldLogs DEF Play, Go, counters, FileTypes, Logs, Slices
  <2>4. HistoryTypes'
    BY <1>10 DEF Play, Go, counters, HistoryTypes
  <2>5. Flags'
    BY <1>10 DEF Play, Go, counters, Flags
  <2>. QED
    BY <2>1, <2>2, <2>3, <2>4, <2>5
<1>11. CASE Silent
  <2>1. CommandTypes'
    <3>1. rest' \in 0..CombatTimeout
      BY <1>11, SliceIsSmaller DEF Silent, CommandTypes
    <3>. QED
      BY <1>11, <3>1, PlacesAre DEF Silent, Go, End, CommandTypes
  <2>2. GameTypes'
    BY <1>11 DEF Silent, processes, files, counters, history, GameTypes
  <2>3. FileTypes'
    BY <1>11 DEF Silent, processes, files, counters, history, FileTypes
  <2>4. HistoryTypes'
    BY <1>11 DEF Silent, processes, files, counters, history, HistoryTypes
  <2>5. Flags'
    BY <1>11 DEF Silent, Go, End, Alive, processes, files, counters, history, Flags
  <2>. QED
    BY <2>1, <2>2, <2>3, <2>4, <2>5
<1>12. CASE Press
  <2>1. CommandTypes'
    BY <1>12, PlacesAre, SliceIsSmaller DEF Press, Go, Smaller, files, counters,
         CommandTypes, Waits, Clicking, Body, Stopping, Settling
  <2>2. GameTypes'
    BY <1>12 DEF Press, Go, Smaller, files, counters, GameTypes
  <2>3. FileTypes'
    BY <1>12 DEF Press, files, counters, FileTypes
  <2>4. HistoryTypes'
    BY <1>12 DEF Press, Go, Smaller, files, counters, HistoryTypes
  <2>5. Flags'
    BY <1>12 DEF Press, files, counters, Flags
  <2>. QED
    BY <2>1, <2>2, <2>3, <2>4, <2>5
<1>13. CASE WindowGone
  <2>1. CommandTypes'
    BY <1>13, PlacesAre DEF WindowGone, End, Go, processes, files, counters, history,
         Clicking, CommandTypes, Waits, Body, Stopping, Settling
  <2>2. GameTypes'
    BY <1>13 DEF WindowGone, processes, files, counters, history, GameTypes
  <2>3. FileTypes'
    BY <1>13 DEF WindowGone, processes, files, counters, history, FileTypes
  <2>4. HistoryTypes'
    BY <1>13 DEF WindowGone, processes, files, counters, history, HistoryTypes
  <2>5. Flags'
    BY <1>13 DEF WindowGone, End, Go, processes, files, counters, history, Clicking, Flags
  <2>. QED
    BY <2>1, <2>2, <2>3, <2>4, <2>5
<1>14. CASE Raise
  <2>1. CommandTypes'
    BY <1>14, PlacesAre DEF Raise, End, Go, processes, files, counters, history, Body,
         Waits, Clicking, CommandTypes, Stopping, Settling
  <2>2. GameTypes'
    BY <1>14 DEF Raise, processes, files, counters, history, GameTypes
  <2>3. FileTypes'
    BY <1>14 DEF Raise, processes, files, counters, history, FileTypes
  <2>4. HistoryTypes'
    BY <1>14 DEF Raise, processes, files, counters, history, HistoryTypes
  <2>5. Flags'
    BY <1>14 DEF Raise, End, Go, processes, files, counters, history, Body, Waits, Clicking,
         Flags
  <2>. QED
    BY <2>1, <2>2, <2>3, <2>4, <2>5
<1>15. CASE StopGame
  <2>1. CommandTypes'
    BY <1>15, PlacesAre DEF StopGame, Go, Record, processes, counters, history,
         CommandTypes, Waits, Clicking, Body, Stopping, Settling
  <2>2. GameTypes'
    BY <1>15 DEF StopGame, processes, counters, history, GameTypes
  <2>3. FileTypes'
    <3>1. exit' \in [by : Nat, natural : BOOLEAN]
      <4>1. UNCHANGED exit \/ \E b \in BOOLEAN : Record(b)
        BY <1>15 DEF StopGame
      <4>2. CASE UNCHANGED exit
        BY <4>2 DEF FileTypes
      <4>. QED
        BY <4>1, <4>2, RecordTypes
    <3>. QED
      BY <1>15, <3>1 DEF StopGame, FileTypes
  <2>4. HistoryTypes'
    BY <1>15 DEF StopGame, processes, counters, history, HistoryTypes
  <2>5. Flags'
    BY <1>15 DEF StopGame, processes, counters, history, Flags
  <2>. QED
    BY <2>1, <2>2, <2>3, <2>4, <2>5
<1>16. CASE WaitForDone
  <2>1. CommandTypes'
    BY <1>16, PlacesAre DEF WaitForDone, Go, Record, processes, counters, history,
         CommandTypes, Waits, Clicking, Body, Stopping, Settling
  <2>2. GameTypes'
    BY <1>16 DEF WaitForDone, processes, counters, history, GameTypes
  <2>3. FileTypes'
    <3>1. exit' \in [by : Nat, natural : BOOLEAN]
      <4>1. UNCHANGED exit \/ \E b \in BOOLEAN : Record(b)
        BY <1>16 DEF WaitForDone
      <4>2. CASE UNCHANGED exit
        BY <4>2 DEF FileTypes
      <4>. QED
        BY <4>1, <4>2, RecordTypes
    <3>. QED
      BY <1>16, <3>1 DEF WaitForDone, FileTypes
  <2>4. HistoryTypes'
    BY <1>16 DEF WaitForDone, processes, counters, history, HistoryTypes
  <2>5. Flags'
    BY <1>16 DEF WaitForDone, processes, counters, history, Flags
  <2>. QED
    BY <2>1, <2>2, <2>3, <2>4, <2>5
<1>17. CASE PostClose
  <2>1. CommandTypes'
    BY <1>17, PlacesAre DEF PostClose, Go, Record, processes, counters, CommandTypes, Waits,
         Clicking, Body, Stopping, Settling
  <2>2. GameTypes'
    BY <1>17 DEF PostClose, processes, counters, GameTypes
  <2>3. FileTypes'
    <3>1. exit' \in [by : Nat, natural : BOOLEAN]
      <4>1. UNCHANGED exit \/ \E b \in BOOLEAN : Record(b)
        BY <1>17 DEF PostClose
      <4>2. CASE UNCHANGED exit
        BY <4>2 DEF FileTypes
      <4>. QED
        BY <4>1, <4>2, RecordTypes
    <3>. QED
      BY <1>17, <3>1 DEF PostClose, FileTypes
  <2>4. HistoryTypes'
    BY <1>17 DEF PostClose, processes, counters, HistoryTypes
  <2>5. Flags'
    BY <1>17 DEF PostClose, Go, Record, processes, counters, Flags
  <2>. QED
    BY <2>1, <2>2, <2>3, <2>4, <2>5
<1>18. CASE SettleExit
  <2>1. CommandTypes'
    BY <1>18, PlacesAre DEF SettleExit, Go, Record, ObservedExit, Listed, processes, counters,
         history, CommandTypes, Waits, Clicking, Body, Stopping, Settling
  <2>2. GameTypes'
    BY <1>18 DEF SettleExit, processes, counters, history, GameTypes
  <2>3. FileTypes'
    <3>1. exit' \in [by : Nat, natural : BOOLEAN]
      <4>1. UNCHANGED exit \/ \E b \in BOOLEAN : Record(b)
        BY <1>18 DEF SettleExit, ObservedExit, Listed
      <4>2. CASE UNCHANGED exit
        BY <4>2 DEF FileTypes
      <4>. QED
        BY <4>1, <4>2, RecordTypes
    <3>. QED
      BY <1>18, <3>1 DEF SettleExit, FileTypes
  <2>4. HistoryTypes'
    BY <1>18 DEF SettleExit, processes, counters, history, HistoryTypes
  <2>5. Flags'
    BY <1>18 DEF SettleExit, processes, counters, history, Flags
  <2>. QED
    BY <2>1, <2>2, <2>3, <2>4, <2>5
<1>19. CASE KillJava
  <2>1. CommandTypes'
    BY <1>19, PlacesAre DEF KillJava, Kill, Go, files, counters, CommandTypes, Waits,
         Clicking, Body, Stopping, Settling
  <2>2. GameTypes'
    BY <1>19 DEF KillJava, Kill, Go, files, counters, GameTypes
  <2>3. FileTypes'
    BY <1>19 DEF KillJava, Kill, files, counters, FileTypes
  <2>4. HistoryTypes'
    BY <1>19 DEF KillJava, Kill, Go, files, counters, HistoryTypes
  <2>5. Flags'
    BY <1>19 DEF KillJava, Kill, files, counters, Flags
  <2>. QED
    BY <2>1, <2>2, <2>3, <2>4, <2>5
<1>20. CASE KillTree
  <2>1. CommandTypes'
    BY <1>20, PlacesAre DEF KillTree, Kill, Go, files, counters, CommandTypes, Waits,
         Clicking, Body, Stopping, Settling
  <2>2. GameTypes'
    BY <1>20 DEF KillTree, Kill, Go, files, counters, GameTypes
  <2>3. FileTypes'
    BY <1>20 DEF KillTree, Kill, files, counters, FileTypes
  <2>4. HistoryTypes'
    BY <1>20 DEF KillTree, Kill, Go, files, counters, HistoryTypes
  <2>5. Flags'
    BY <1>20 DEF KillTree, Kill, files, counters, Flags
  <2>. QED
    BY <2>1, <2>2, <2>3, <2>4, <2>5
<1>21. CASE Restore
  <2>1. CommandTypes'
    BY <1>21, PlacesAre DEF Restore, Go, processes, counters, history, CommandTypes, Waits,
         Clicking, Body, Stopping, Settling
  <2>2. GameTypes'
    BY <1>21 DEF Restore, processes, counters, history, GameTypes
  <2>3. FileTypes'
    BY <1>21 DEF Restore, Go, processes, counters, history, FileTypes, CommandTypes
  <2>4. HistoryTypes'
    BY <1>21 DEF Restore, processes, counters, history, HistoryTypes
  <2>5. Flags'
    BY <1>21 DEF Restore, processes, counters, history, Flags
  <2>. QED
    BY <2>1, <2>2, <2>3, <2>4, <2>5
<1>22. CASE StopRaises
  <2>1. CommandTypes'
    BY <1>22, PlacesAre DEF StopRaises, Go, processes, files, Stopping, Settling,
         CommandTypes, Waits, Clicking, Body
  <2>2. GameTypes'
    BY <1>22 DEF StopRaises, processes, files, GameTypes
  <2>3. FileTypes'
    BY <1>22 DEF StopRaises, processes, files, FileTypes
  <2>4. HistoryTypes'
    BY <1>22 DEF StopRaises, Go, processes, files, Stopping, Settling, HistoryTypes
  <2>5. Flags'
    BY <1>22 DEF StopRaises, Go, processes, files, Stopping, Settling, Flags
  <2>. QED
    BY <2>1, <2>2, <2>3, <2>4, <2>5
<1>23. CASE Crash
  <2>1. CommandTypes'
    BY <1>23, PlacesAre DEF Crash, Go, processes, files, CommandTypes, Waits, Clicking,
         Body, Stopping, Settling
  <2>2. GameTypes'
    BY <1>23 DEF Crash, processes, files, GameTypes
  <2>3. FileTypes'
    BY <1>23 DEF Crash, processes, files, FileTypes
  <2>4. HistoryTypes'
    BY <1>23 DEF Crash, Go, processes, files, HistoryTypes
  <2>5. Flags'
    BY <1>23 DEF Crash, Go, processes, files, Flags
  <2>. QED
    BY <2>1, <2>2, <2>3, <2>4, <2>5
<1>24. CASE OpenLog
  <2>1. CommandTypes'
    BY <1>24 DEF OpenLog, command, counters, history, CommandTypes
  <2>2. GameTypes'
    BY <1>24 DEF OpenLog, command, counters, history, GameTypes
  <2>3. FileTypes'
    BY <1>24, OldLogs DEF OpenLog, command, counters, history, FileTypes, Logs
  <2>4. HistoryTypes'
    BY <1>24 DEF OpenLog, command, counters, history, HistoryTypes
  <2>5. Flags'
    BY <1>24 DEF OpenLog, command, counters, history, EmptyLog, Flags
  <2>. QED
    BY <2>1, <2>2, <2>3, <2>4, <2>5
<1>25. CASE JavaStarts
  <2>1. CommandTypes'
    BY <1>25 DEF JavaStarts, command, files, counters, history, CommandTypes
  <2>2. GameTypes'
    BY <1>25 DEF JavaStarts, command, files, counters, history, GameTypes
  <2>3. FileTypes'
    BY <1>25 DEF JavaStarts, command, files, counters, history, FileTypes
  <2>4. HistoryTypes'
    BY <1>25 DEF JavaStarts, command, files, counters, history, HistoryTypes
  <2>5. Flags'
    BY <1>25 DEF JavaStarts, command, files, counters, history, Flags
  <2>. QED
    BY <2>1, <2>2, <2>3, <2>4, <2>5
<1>26. CASE GameLogs
  <2>1. CommandTypes'
    BY <1>26 DEF GameLogs, command, processes, counters, history, CommandTypes
  <2>2. GameTypes'
    BY <1>26 DEF GameLogs, command, processes, counters, history, GameTypes
  <2>3. FileTypes'
    BY <1>26, OldLogs DEF GameLogs, command, processes, counters, history, FileTypes, Logs
  <2>4. HistoryTypes'
    BY <1>26 DEF GameLogs, command, processes, counters, history, HistoryTypes
  <2>5. Flags'
    BY <1>26 DEF GameLogs, command, processes, counters, history, Flags
  <2>. QED
    BY <2>1, <2>2, <2>3, <2>4, <2>5
<1>27. CASE MissionEnds
  <2>1. CommandTypes'
    BY <1>27 DEF MissionEnds, command, counters, CommandTypes
  <2>2. GameTypes'
    BY <1>27 DEF MissionEnds, command, counters, GameTypes
  <2>3. FileTypes'
    BY <1>27, OldLogs DEF MissionEnds, command, counters, FileTypes, Logs
  <2>4. HistoryTypes'
    BY <1>27 DEF MissionEnds, command, counters, HistoryTypes, GameTypes
  <2>5. Flags'
    BY <1>27 DEF MissionEnds, command, counters, Flags
  <2>. QED
    BY <2>1, <2>2, <2>3, <2>4, <2>5
<1>28. CASE MissionHangs
  <2>1. CommandTypes'
    BY <1>28 DEF MissionHangs, command, files, counters, CommandTypes
  <2>2. GameTypes'
    BY <1>28 DEF MissionHangs, command, files, counters, GameTypes
  <2>3. FileTypes'
    BY <1>28 DEF MissionHangs, command, files, counters, FileTypes
  <2>4. HistoryTypes'
    BY <1>28 DEF MissionHangs, command, files, counters, HistoryTypes
  <2>5. Flags'
    BY <1>28 DEF MissionHangs, command, files, counters, Flags
  <2>. QED
    BY <2>1, <2>2, <2>3, <2>4, <2>5
<1>29. CASE WriteMarker
  <2>1. CommandTypes'
    BY <1>29 DEF WriteMarker, command, counters, CommandTypes
  <2>2. GameTypes'
    BY <1>29 DEF WriteMarker, command, counters, GameTypes
  <2>3. FileTypes'
    BY <1>29 DEF WriteMarker, command, counters, FileTypes, Ids, HistoryTypes
  <2>4. HistoryTypes'
    BY <1>29 DEF WriteMarker, command, counters, HistoryTypes
  <2>5. Flags'
    BY <1>29 DEF WriteMarker, command, counters, Flags
  <2>. QED
    BY <2>1, <2>2, <2>3, <2>4, <2>5
<1>30. CASE GameExits
  <2>1. CommandTypes'
    BY <1>30 DEF GameExits, command, files, counters, CommandTypes
  <2>2. GameTypes'
    BY <1>30 DEF GameExits, command, files, counters, GameTypes
  <2>3. FileTypes'
    BY <1>30 DEF GameExits, command, files, counters, FileTypes
  <2>4. HistoryTypes'
    BY <1>30 DEF GameExits, command, files, counters, HistoryTypes
  <2>5. Flags'
    BY <1>30 DEF GameExits, command, files, counters, Flags
  <2>. QED
    BY <2>1, <2>2, <2>3, <2>4, <2>5
<1>31. CASE LauncherExits
  <2>1. CommandTypes'
    BY <1>31 DEF LauncherExits, command, files, counters, history, CommandTypes
  <2>2. GameTypes'
    BY <1>31 DEF LauncherExits, command, files, counters, history, GameTypes
  <2>3. FileTypes'
    BY <1>31 DEF LauncherExits, command, files, counters, history, FileTypes
  <2>4. HistoryTypes'
    BY <1>31 DEF LauncherExits, command, files, counters, history, HistoryTypes
  <2>5. Flags'
    BY <1>31 DEF LauncherExits, command, files, counters, history, Flags
  <2>. QED
    BY <2>1, <2>2, <2>3, <2>4, <2>5
<1>32. CASE UNCHANGED vars
  BY <1>32 DEF vars, command, processes, files, counters, history, CommandTypes, GameTypes,
       FileTypes, HistoryTypes, Flags
<1>. QED
  BY <1>1, <1>2, <1>3, <1>4, <1>5, <1>6, <1>7, <1>8, <1>9, <1>10, <1>11, <1>12, <1>13,
       <1>14, <1>15, <1>16, <1>17, <1>18, <1>19, <1>20, <1>21, <1>22, <1>23, <1>24, <1>25, <1>26,
       <1>27, <1>28, <1>29, <1>30, <1>31, <1>32 DEF Next, Command, Game

(* Every variable keeps to its type (TypeOK).                              *)
THEOREM TypeCorrect == Spec => []TypeOK
<1>1. Init => TypeOK
  BY InitTypes
<1>2. TypeOK /\ [Next]_vars => TypeOK'
  BY StepTypes
<1>. QED
  BY <1>1, <1>2, PTL DEF Spec

-----------------------------------------------------------------------------
(* What an exit file says of its launch.                                   *)
(* A launch is stopped late in its life, and one that was seen to have     *)
(* left has nothing that could be stopped.                                 *)
Observation ==
  /\ exit.by <= launch
  /\ \A k \in killed : k <= launch
  /\ pc = "start" => exit.by < launch
  /\ launch \in killed => pc \in {"killtree", "restore", "idle"}
  /\ exit.natural /\ exit.by = launch => cmd # "running" /\ ~Listed

(* Every step keeps what the exit file says true.                          *)
LEMMA StepObservation ==
  TypeOK /\ Observation /\ NaturalIsSeen /\ [Next]_vars => Observation' /\ NaturalIsSeen'
<1> SUFFICES ASSUME TypeOK, Observation, NaturalIsSeen, [Next]_vars
             PROVE  Observation' /\ NaturalIsSeen'
  OBVIOUS
<1>0. launch \in Nat /\ killed \subseteq Nat /\ exit.by \in Nat
  BY DEF TypeOK, HistoryTypes, FileTypes
<1> USE DEF Observation, NaturalIsSeen, Listed
<1>1. CASE Prepare
  BY <1>0, <1>1 DEF Prepare, Go
<1>2. CASE Start
  BY <1>0, <1>2 DEF Start, Go, files, counters, history
<1>3. CASE StartFails
  BY <1>0, <1>3 DEF StartFails, Go, processes, counters, history
<1>4. CASE Look
  <2>1. UNCHANGED <<exit, launch, killed, cmd, java, outside>>
    BY <1>4 DEF Look, processes, files, counters, history
  <2>2. pc \notin {"killtree", "restore", "idle"} /\ pc' # "start"
    BY <1>4 DEF Look, Arrived, Missed, Go, End, Waits
  <2>. QED
    BY <2>1, <2>2
<1>5. CASE Ask
  <2>1. UNCHANGED <<exit, launch, killed, cmd, java, outside>>
    BY <1>5 DEF Ask, processes, files, counters, history
  <2>2. pc \notin {"killtree", "restore", "idle"} /\ pc' # "start"
    BY <1>5 DEF Ask, Missed, Go, End, Waits
  <2>. QED
    BY <2>1, <2>2
<1>6. CASE Tick
  BY <1>0, <1>6 DEF Tick, files, counters, history
<1>7. CASE NewGame
  BY <1>0, <1>7 DEF NewGame, Go, processes, files, counters, history
<1>8. CASE GenericNewGame
  BY <1>0, <1>8 DEF GenericNewGame, Go, processes, files, counters, history
<1>9. CASE ToMissionList
  BY <1>0, <1>9 DEF ToMissionList, Go, End, processes, files, counters, history
<1>10. CASE Play
  BY <1>0, <1>10 DEF Play, Go, counters
<1>11. CASE Silent
  BY <1>0, <1>11 DEF Silent, Go, End, processes, files, counters, history
<1>12. CASE Press
  BY <1>0, <1>12 DEF Press, Go, files, counters
<1>13. CASE WindowGone
  BY <1>0, <1>13 DEF WindowGone, End, Go, processes, files, counters, history, Clicking
<1>14. CASE Raise
  BY <1>0, <1>14 DEF Raise, End, Go, processes, files, counters, history, Body, Waits,
       Clicking
<1>15. CASE StopGame
  BY <1>0, <1>15 DEF StopGame, Go, Record, processes, counters, history
<1>16. CASE WaitForDone
  BY <1>0, <1>16 DEF WaitForDone, Go, Record, processes, counters, history
<1>17. CASE PostClose
  BY <1>0, <1>17 DEF PostClose, Go, Record, processes, counters
<1>18. CASE SettleExit
  <2>1. pc = "settle" /\ pc' # "start" /\ UNCHANGED <<launch, killed, cmd, java, outside>>
    BY <1>18 DEF SettleExit, Go, processes, counters, history
  <2>2. \/ UNCHANGED exit
        \/ exit'.by = launch /\ ~exit'.natural
        \/ exit'.by = launch /\ cmd # "running" /\ ~Listed
    <3>1. CASE exit' = [by |-> launch, natural |-> ~Listed] /\ cmd # "running"
      BY <3>1
    <3>2. CASE exit' = [by |-> launch, natural |-> FALSE]
      BY <3>2
    <3>. QED
      BY <1>18, <3>1, <3>2 DEF SettleExit, Record, ObservedExit
  <2>3. launch \notin killed
    BY <2>1
  <2>. QED
    BY <1>0, <2>1, <2>2, <2>3
<1>19. CASE KillJava
  <2>1. pc' = "killtree" /\ UNCHANGED <<exit, launch, cmd, outside>>
    BY <1>19 DEF KillJava, Kill, Go, files, counters
  <2>2. \/ UNCHANGED <<killed, java>>
        \/ Listed /\ killed' = killed \union {launch} /\ java' = "exited"
    BY <1>19 DEF KillJava
  <2>3. NaturalIsSeen'
    BY <2>1, <2>2
  <2>4. \A k \in killed' : k <= launch'
    <3>1. \A k \in killed \union {launch} : k <= launch
      BY <1>0
    <3>2. killed' \subseteq killed \union {launch} /\ launch' = launch
      BY <2>1, <2>2
    <3>. QED
      BY <3>1, <3>2
  <2>5. exit'.natural /\ exit'.by = launch' => cmd' # "running" /\ ~Listed'
    BY <2>1, <2>2
  <2>. QED
    BY <1>0, <2>1, <2>3, <2>4, <2>5
<1>20. CASE KillTree
  <2>1. pc' = "restore" /\ UNCHANGED <<exit, launch, outside>>
    BY <1>20 DEF KillTree, Kill, Go, files, counters
  <2>2. \/ UNCHANGED <<killed, cmd, java>>
        \/ /\ cmd = "running" /\ cmd' = "exited" /\ java' # "running"
           /\ killed' = killed \union {launch}
    BY <1>20 DEF KillTree
  <2>3. NaturalIsSeen'
    BY <2>1, <2>2
  <2>4. \A k \in killed' : k <= launch'
    <3>1. \A k \in killed \union {launch} : k <= launch
      BY <1>0
    <3>2. killed' \subseteq killed \union {launch} /\ launch' = launch
      BY <2>1, <2>2
    <3>. QED
      BY <3>1, <3>2
  <2>5. exit'.natural /\ exit'.by = launch' => cmd' # "running" /\ ~Listed'
    BY <2>1, <2>2
  <2>. QED
    BY <1>0, <2>1, <2>3, <2>4, <2>5
<1>21. CASE Restore
  BY <1>0, <1>21 DEF Restore, Go, processes, counters, history
<1>22. CASE StopRaises
  BY <1>0, <1>22 DEF StopRaises, Go, processes, files, Stopping
<1>23. CASE Crash
  BY <1>0, <1>23 DEF Crash, Go, processes, files
<1>24. CASE OpenLog
  BY <1>0, <1>24 DEF OpenLog, command, counters, history
<1>25. CASE JavaStarts
  BY <1>0, <1>25 DEF JavaStarts, command, files, counters, history
<1>26. CASE GameLogs
  BY <1>0, <1>26 DEF GameLogs, command, processes, counters, history
<1>27. CASE MissionEnds
  BY <1>0, <1>27 DEF MissionEnds, command, counters
<1>28. CASE MissionHangs
  BY <1>0, <1>28 DEF MissionHangs, command, files, counters
<1>29. CASE WriteMarker
  BY <1>0, <1>29 DEF WriteMarker, command, counters
<1>30. CASE GameExits
  BY <1>0, <1>30 DEF GameExits, command, files, counters
<1>31. CASE LauncherExits
  BY <1>0, <1>31 DEF LauncherExits, command, files, counters, history
<1>32. CASE UNCHANGED vars
  BY <1>32 DEF vars, command, processes, files, counters, history
<1>. QED
  BY <1>1, <1>2, <1>3, <1>4, <1>5, <1>6, <1>7, <1>8, <1>9, <1>10, <1>11, <1>12, <1>13,
       <1>14, <1>15, <1>16, <1>17, <1>18, <1>19, <1>20, <1>21, <1>22, <1>23, <1>24, <1>25, <1>26,
       <1>27, <1>28, <1>29, <1>30, <1>31, <1>32 DEF Next, Command, Game

(* An exit file says NATURAL only of a launch whose game left by itself    *)
(* (NaturalIsSeen), whatever is stopped afterwards.                        *)
THEOREM NaturalIsSeenHolds == Spec => []NaturalIsSeen
<1>1. Init => Observation /\ NaturalIsSeen
  BY DEF Init, Observation, NaturalIsSeen, Listed
<1>2. TypeOK /\ Observation /\ NaturalIsSeen /\ [Next]_vars => Observation' /\ NaturalIsSeen'
  BY StepObservation
<1>. QED
  BY <1>1, <1>2, TypeCorrect, PTL DEF Spec

-----------------------------------------------------------------------------
(* What a finished run has played.                                         *)
(* The n slices before slice p of the plan, which starts again at its end. *)
Before(p, n) == {k \in Slices : (IF k < p THEN p - k ELSE p + Rounds - k) <= n}
After(p) == IF p = Rounds - 1 THEN 0 ELSE p + 1

(* The slice that is fought next joins those before it.                    *)
LEMMA BeforeGrows ==
  ASSUME NEW p \in Slices, NEW n \in Nat, n < Rounds
  PROVE  After(p) \in Slices /\ Before(After(p), n + 1) = Before(p, n) \union {p}
BY Numbers DEF Slices, Before, After

(* No slices, and all of them.                                             *)
LEMMA BeforeEnds ==
  \A p \in Slices : Before(p, 0) = {} /\ Before(p, Rounds) = Slices
BY Numbers DEF Slices, Before

InMission == {"combat", "silent", "press"}
AfterLoad == {"campaign", "generic", "again", "save", "list", "play"} \union InMission
AtList == {"list", "play"} \union InMission

(* Where the run stands: the log is of this launch since the New Game      *)
(* clicks, its lines are those of this launch's campaign, and nothing was  *)
(* fought before the mission list.                                         *)
Loaded ==
  /\ pc \in {"menu", "newgame"} \union AfterLoad => ~opts.interactive
  /\ pc \in AfterLoad => opened
  /\ pc = "watch" => opts.interactive
  /\ pc \in {"save"} \union AtList => log.campaign
  /\ pc \in AtList => (opts.reload => log.saved)
  /\ pc \in {"start", "menu", "newgame", "campaign", "generic", "again", "save", "list"} =>
       mission = "none" /\ round = 0 /\ total = 1 /\ fought = {}

(* Between two rounds, the slices before the counter were fought; in a     *)
(* round, those before the one that is fought, until its end is logged.    *)
Counted ==
  /\ pc \in {"play"} \union InMission => round < Rounds /\ ((round = 0 /\ total = 1) \/ total = Rounds)
  /\ pc = "play" => mission = "none" /\ fought = Before(pos, round)
  /\ pc \in InMission =>
       \/ /\ log.ended = mark
          /\ mission # "none" =>
               pos = After(fighting) /\ log.told = Rounds /\ fought = Before(fighting, round)
       \/ /\ log.ended = mark + 1 /\ log.told = Rounds
          /\ mission = "none" /\ fought = Before(pos, round + 1)

(* The first half of PlayedWhole, and why a later step keeps it.           *)
Finished ==
  verdict = "LIVE_DONE" /\ ~opts.interactive =>
    opened /\ fought = Slices /\ log.campaign /\ (opts.reload => log.saved)

PlayInv == Loaded /\ Counted /\ Finished

(* Every step keeps the account of what was fought.                        *)
LEMMA StepPlay == TypeOK /\ PlayInv /\ [Next]_vars => PlayInv'
<1> SUFFICES ASSUME TypeOK, PlayInv, [Next]_vars PROVE PlayInv'
  OBVIOUS
<1>0. /\ round \in Nat /\ total \in Nat /\ mark \in Nat /\ pos \in Slices /\ fighting \in Slices
      /\ fought \subseteq Slices /\ log \in Logs /\ log.ended \in Nat
  BY DEF TypeOK, CommandTypes, GameTypes, FileTypes, HistoryTypes, Logs
<1> USE DEF PlayInv, Loaded, Counted, Finished, InMission, AfterLoad, AtList
<1>1. CASE Prepare
  BY <1>0, <1>1 DEF Prepare, Go
<1>2. CASE Start
  BY <1>0, <1>2 DEF Start, Go, files, counters, history
<1>3. CASE StartFails
  BY <1>0, <1>3 DEF StartFails, Go, processes, counters, history
<1>4. CASE Look
  <2>0. UNCHANGED <<opts, mark, opened, mission, fighting, fought, log, pos>>
    BY <1>4 DEF Look, processes, files, history
  <2>1. CASE pc # "combat" /\ Observed /\ Arrived
    BY <1>0, <2>0, <2>1 DEF Arrived, Observed, Go
  <2>2. CASE pc = "combat" /\ Observed /\ Arrived
    <3>1. /\ log.ended = mark + 1 /\ mission = "none" /\ log.told = Rounds
          /\ fought = Before(pos, round + 1)
      BY <1>0, <2>2 DEF Observed
    <3>2. round' = round + 1 /\ total' = Rounds
      BY <1>0, <2>2, <3>1, Numbers DEF Arrived
    <3>3. CASE round' < total'
      BY <1>0, <2>0, <2>2, <3>1, <3>2, <3>3 DEF Arrived, Go
    <3>4. CASE ~(round' < total')
      <4>1. round + 1 = Rounds
        BY <1>0, <2>2, <3>2, <3>4, Numbers
      <4>2. fought = Slices
        BY <1>0, <3>1, <4>1, BeforeEnds
      <4>. QED
        BY <1>0, <2>0, <2>2, <3>4, <4>2 DEF Arrived, End, Go
    <3>. QED
      BY <3>3, <3>4
  <2>3. CASE UNCHANGED <<round, total>> /\ Missed
    BY <1>0, <2>0, <2>3 DEF Missed, End, Go
  <2>4. CASE UNCHANGED <<pc, round, total, verdict>>
    BY <2>0, <2>4
  <2>. QED
    BY <1>4, <2>1, <2>2, <2>3, <2>4 DEF Look
<1>5. CASE Ask
  BY <1>0, <1>5 DEF Ask, End, Go, Missed, processes, files, counters, history, Waits
<1>6. CASE Tick
  BY <1>0, <1>6 DEF Tick, files, counters, history
<1>7. CASE NewGame
  BY <1>0, <1>7 DEF NewGame, Go, processes, files, counters, history
<1>8. CASE GenericNewGame
  BY <1>0, <1>8 DEF GenericNewGame, Go, processes, files, counters, history
<1>9. CASE ToMissionList
  <2>1. CASE Go("play", 0) /\ UNCHANGED <<verdict, stage, await>>
    <3>1. UNCHANGED <<opts, mark, round, total, opened, mission, fighting, fought, log, pos>>
      BY <1>9 DEF ToMissionList, processes, files, history
    <3>2. pc = "list" /\ pc' = "play" /\ verdict' = verdict
      BY <1>9, <2>1 DEF ToMissionList, Go
    <3>3. fought = Before(pos, 0) /\ round = 0 /\ total = 1 /\ mission = "none"
      BY <1>0, <3>2, BeforeEnds
    <3>. QED
      BY <1>0, <3>1, <3>2, <3>3, Numbers
  <2>2. CASE End("LIVE_STUCK", "mission-list")
    BY <1>0, <1>9, <2>2 DEF ToMissionList, End, Go, processes, files, history
  <2>. QED
    BY <1>9, <2>1, <2>2 DEF ToMissionList
<1>10. CASE Play
  <2>1. /\ pc = "play" /\ pc' = "combat" /\ mark' = log.ended
        /\ UNCHANGED <<opts, round, total, opened, fought, verdict>>
    BY <1>10 DEF Play, Go
  <2>2. CASE UNCHANGED <<mission, fighting, pos, log>>
    BY <1>0, <2>1, <2>2
  <2>3. CASE /\ fighting' = pos /\ pos' = After(pos)
             /\ log' = [log EXCEPT !.told = Rounds]
    <3>1. /\ log'.ended = log.ended /\ log'.told = Rounds
          /\ log'.campaign = log.campaign /\ log'.saved = log.saved
      BY <1>0, <2>3 DEF Logs
    <3>. QED
      BY <1>0, <2>1, <2>3, <3>1
  <2>. QED
    BY <1>10, <2>2, <2>3 DEF Play, After
<1>11. CASE Silent
  BY <1>0, <1>11 DEF Silent, Go, End, processes, files, counters, history
<1>12. CASE Press
  BY <1>0, <1>12 DEF Press, Go, files, counters
<1>13. CASE WindowGone
  BY <1>0, <1>13 DEF WindowGone, End, Go, processes, files, counters, history, Clicking
<1>14. CASE Raise
  BY <1>0, <1>14 DEF Raise, End, Go, processes, files, counters, history, Body, Waits,
       Clicking
<1>15. CASE StopGame
  BY <1>0, <1>15 DEF StopGame, Go, Record, processes, counters, history
<1>16. CASE WaitForDone
  BY <1>0, <1>16 DEF WaitForDone, Go, Record, processes, counters, history
<1>17. CASE PostClose
  BY <1>0, <1>17 DEF PostClose, Go, Record, processes, counters
<1>18. CASE SettleExit
  BY <1>0, <1>18 DEF SettleExit, Go, Record, ObservedExit, processes, counters, history
<1>19. CASE KillJava
  BY <1>0, <1>19 DEF KillJava, Kill, Go, files, counters
<1>20. CASE KillTree
  BY <1>0, <1>20 DEF KillTree, Kill, Go, files, counters
<1>21. CASE Restore
  BY <1>0, <1>21 DEF Restore, Go, processes, counters, history
<1>22. CASE StopRaises
  BY <1>0, <1>22 DEF StopRaises, Go, processes, files, Stopping
<1>23. CASE Crash
  BY <1>0, <1>23 DEF Crash, Go, processes, files
<1>24. CASE OpenLog
  BY <1>0, <1>24 DEF OpenLog, command, counters, history, EmptyLog
<1>25. CASE JavaStarts
  BY <1>0, <1>25 DEF JavaStarts, command, files, counters, history
<1>26. CASE GameLogs
  <2>1. UNCHANGED <<pc, opts, mark, round, total, verdict, opened, mission, fighting, fought, pos>>
    BY <1>26 DEF GameLogs, command, processes, history
  <2>2. /\ log'.ended = log.ended /\ log'.told = log.told
        /\ log.campaign => log'.campaign
        /\ log.saved => log'.saved
    BY <1>0, <1>26 DEF GameLogs, Logs
  <2>. QED
    BY <2>1, <2>2
<1>27. CASE MissionEnds
  <2>1. /\ UNCHANGED <<pc, opts, mark, round, total, verdict, opened, fighting, pos>>
        /\ mission = "running" /\ mission' = "none" /\ fought' = fought \union {fighting}
    BY <1>27 DEF MissionEnds, command
  <2>2. /\ log'.ended = log.ended + 1 /\ log'.told = log.told
        /\ log'.campaign = log.campaign /\ log'.saved = log.saved
    BY <1>0, <1>27 DEF MissionEnds, Logs
  <2>3. Loaded'
    BY <2>1, <2>2
  <2>4. Counted'
    <3> SUFFICES ASSUME pc \in InMission
                 PROVE  /\ log'.ended = mark + 1 /\ log'.told = Rounds
                        /\ fought' = Before(pos, round + 1)
      BY <2>1
    <3>1. pos = After(fighting) /\ log.told = Rounds /\ fought = Before(fighting, round)
      BY <1>0, <2>1
    <3>2. fought' = Before(pos, round + 1)
      BY <1>0, <2>1, <3>1, BeforeGrows
    <3>. QED
      BY <1>0, <2>1, <2>2, <3>1, <3>2
  <2>5. Finished'
    BY <1>0, <2>1, <2>2
  <2>. QED
    BY <2>3, <2>4, <2>5
<1>28. CASE MissionHangs
  BY <1>0, <1>28 DEF MissionHangs, command, files, counters
<1>29. CASE WriteMarker
  BY <1>0, <1>29 DEF WriteMarker, command, counters
<1>30. CASE GameExits
  BY <1>0, <1>30 DEF GameExits, command, files, counters
<1>31. CASE LauncherExits
  BY <1>0, <1>31 DEF LauncherExits, command, files, counters, history
<1>32. CASE UNCHANGED vars
  BY <1>32 DEF vars, command, processes, files, counters, history
<1>. QED
  BY <1>1, <1>2, <1>3, <1>4, <1>5, <1>6, <1>7, <1>8, <1>9, <1>10, <1>11, <1>12, <1>13,
       <1>14, <1>15, <1>16, <1>17, <1>18, <1>19, <1>20, <1>21, <1>22, <1>23, <1>24, <1>25, <1>26,
       <1>27, <1>28, <1>29, <1>30, <1>31, <1>32 DEF Next, Command, Game

(* What graceful_close rests on: a marker of this launch's manifest was     *)
(* written by this launch's game, or could not be removed before it, and   *)
(* only a finished run waits for it.                                       *)
Closing ==
  /\ pc # "idle" => id # NoId
  /\ id # NoId /\ marker = id => marked \/ resisted
  /\ await => verdict = "LIVE_DONE"
  /\ pc = "marker" => await
  /\ pc = "close" => verdict = "LIVE_DONE" /\ (marked \/ resisted)
  /\ asked => /\ verdict = "LIVE_DONE" /\ (marked \/ resisted)
              /\ pc \in {"settle", "killjava", "killtree", "restore", "idle"}

(* The end of the body keeps it, with whatever verdict.                    *)
LEMMA EndClosing ==
  ASSUME Flags, Closing, NEW v, NEW s, pc # "idle", ~asked, End(v, s), UNCHANGED <<id, marker, asked, marked, resisted>>
  PROVE  Closing'
<1>1. pc' = "stop" /\ verdict' = v
  BY DEF End, Go
<1>2. await' => v = "LIVE_DONE"
  <2>1. await' = (v = "LIVE_DONE")
    BY DEF End
  <2>. QED
    BY <2>1
<1>. QED
  BY <1>1, <1>2 DEF Closing

(* Every step keeps it.                                                    *)
LEMMA StepClosing == TypeOK /\ Closing /\ [Next]_vars => Closing'
<1> SUFFICES ASSUME TypeOK, Closing, [Next]_vars PROVE Closing'
  OBVIOUS
<1>0. NoId \notin ManifestIds /\ Flags
  BY LiveAssumption DEF TypeOK
<1> USE DEF Closing
<1>1. CASE Prepare
  BY <1>0, <1>1 DEF Prepare, Go
<1>2. CASE Start
  BY <1>0, <1>2 DEF Start, Go, files, counters, history
<1>3. CASE StartFails
  BY <1>0, <1>3 DEF StartFails, Go, processes, counters, history
<1>4. CASE Look
  <2>0. UNCHANGED <<id, marker, asked, marked, resisted>> /\ pc \in Waits /\ ~asked
    BY <1>4 DEF Look, files, counters, history, Waits
  <2>1. CASE \E v, s : End(v, s)
    BY <1>0, <2>0, <2>1, EndClosing DEF Waits
  <2>2. CASE pc' \notin {"marker", "close"} /\ UNCHANGED <<verdict, await>>
    BY <2>0, <2>2 DEF Waits
  <2>3. Arrived \/ Missed \/ UNCHANGED <<pc, verdict, await>>
    BY <1>4 DEF Look
  <2>4. CASE Arrived
    BY <2>1, <2>2, <2>4 DEF Arrived, Go
  <2>5. CASE Missed
    BY <2>1, <2>2, <2>5 DEF Missed, Go
  <2>. QED
    BY <2>0, <2>2, <2>3, <2>4, <2>5 DEF Waits
<1>5. CASE Ask
  <2>0. UNCHANGED <<id, marker, asked, marked, resisted>> /\ pc \in Waits /\ ~asked
    BY <1>5 DEF Ask, files, counters, history, Waits
  <2>1. CASE \E v, s : End(v, s)
    BY <1>0, <2>0, <2>1, EndClosing DEF Waits
  <2>2. CASE pc' \notin {"marker", "close"} /\ UNCHANGED <<verdict, await>>
    BY <2>0, <2>2 DEF Waits
  <2>3. Missed \/ UNCHANGED <<pc, verdict, await>> \/ \E v, s : End(v, s)
    BY <1>5 DEF Ask
  <2>5. CASE Missed
    BY <2>1, <2>2, <2>5 DEF Missed, Go
  <2>. QED
    BY <2>0, <2>1, <2>2, <2>3, <2>5 DEF Waits
<1>6. CASE Tick
  BY <1>0, <1>6 DEF Tick, files, counters, history
<1>7. CASE NewGame
  BY <1>0, <1>7 DEF NewGame, Go, processes, files, counters, history
<1>8. CASE GenericNewGame
  BY <1>0, <1>8 DEF GenericNewGame, Go, processes, files, counters, history
<1>9. CASE ToMissionList
  <2>1. UNCHANGED <<id, marker, asked, marked, resisted>> /\ pc = "list" /\ ~asked
    BY <1>9 DEF ToMissionList, files, counters, history
  <2>2. CASE End("LIVE_STUCK", "mission-list")
    BY <1>0, <2>1, <2>2, EndClosing
  <2>. QED
    BY <2>1, <2>2, <1>9 DEF ToMissionList, Go
<1>10. CASE Play
  BY <1>0, <1>10 DEF Play, Go, counters
<1>11. CASE Silent
  BY <1>0, <1>11 DEF Silent, Go, End, processes, files, counters, history
<1>12. CASE Press
  BY <1>0, <1>12 DEF Press, Go, files, counters
<1>13. CASE WindowGone
  BY <1>0, <1>13 DEF WindowGone, End, Go, processes, files, counters, history, Clicking
<1>14. CASE Raise
  BY <1>0, <1>14 DEF Raise, End, Go, processes, files, counters, history, Body, Waits,
       Clicking
<1>15. CASE StopGame
  BY <1>0, <1>15 DEF StopGame, Go, Record, processes, counters, history
<1>16. CASE WaitForDone
  BY <1>0, <1>16 DEF WaitForDone, Go, Record, processes, counters, history
<1>17. CASE PostClose
  BY <1>0, <1>17 DEF PostClose, Go, Record, processes, counters
<1>18. CASE SettleExit
  BY <1>0, <1>18 DEF SettleExit, Go, Record, ObservedExit, processes, counters, history
<1>19. CASE KillJava
  BY <1>0, <1>19 DEF KillJava, Kill, Go, files, counters
<1>20. CASE KillTree
  BY <1>0, <1>20 DEF KillTree, Kill, Go, files, counters
<1>21. CASE Restore
  BY <1>0, <1>21 DEF Restore, Go, processes, counters, history
<1>22. CASE StopRaises
  BY <1>0, <1>22 DEF StopRaises, Go, processes, files, Stopping, Settling
<1>23. CASE Crash
  BY <1>0, <1>23 DEF Crash, Go, processes, files
<1>24. CASE OpenLog
  BY <1>0, <1>24 DEF OpenLog, command, counters, history
<1>25. CASE JavaStarts
  BY <1>0, <1>25 DEF JavaStarts, command, files, counters, history
<1>26. CASE GameLogs
  BY <1>0, <1>26 DEF GameLogs, command, processes, counters, history
<1>27. CASE MissionEnds
  BY <1>0, <1>27 DEF MissionEnds, command, counters
<1>28. CASE MissionHangs
  BY <1>0, <1>28 DEF MissionHangs, command, files, counters
<1>29. CASE WriteMarker
  BY <1>0, <1>29 DEF WriteMarker, command, counters
<1>30. CASE GameExits
  BY <1>0, <1>30 DEF GameExits, command, files, counters
<1>31. CASE LauncherExits
  BY <1>0, <1>31 DEF LauncherExits, command, files, counters, history
<1>32. CASE UNCHANGED vars
  BY <1>32 DEF vars, command, processes, files, counters, history
<1>. QED
  BY <1>1, <1>2, <1>3, <1>4, <1>5, <1>6, <1>7, <1>8, <1>9, <1>10, <1>11, <1>12, <1>13,
       <1>14, <1>15, <1>16, <1>17, <1>18, <1>19, <1>20, <1>21, <1>22, <1>23, <1>24, <1>25, <1>26,
       <1>27, <1>28, <1>29, <1>30, <1>31, <1>32 DEF Next, Command, Game

(* LIVE_DONE means that this launch's checks ended and that every slice of *)
(* the plan was fought, wherever the counter of rounds stood; and a close  *)
(* is asked for only after that and after this launch's marker             *)
(* (PlayedWhole).                                                          *)
THEOREM PlayedWholeHolds == Spec => []PlayedWhole
<1>1. Init => PlayInv /\ Closing
  BY DEF Init, PlayInv, Loaded, Counted, Finished, Closing, InMission, AfterLoad, AtList
<1>2. TypeOK /\ PlayInv /\ [Next]_vars => PlayInv'
  BY StepPlay
<1>3. TypeOK /\ Closing /\ [Next]_vars => Closing'
  BY StepClosing
<1>4. PlayInv /\ Closing => PlayedWhole
  BY DEF PlayInv, Finished, Closing, PlayedWhole
<1>. QED
  BY <1>1, <1>2, <1>3, <1>4, TypeCorrect, PTL DEF Spec

-----------------------------------------------------------------------------
(* What the repeated SPACE does.                                           *)
NotPlaying == {"start", "menu", "newgame", "campaign", "generic", "again", "save", "list", "play"}

(* A round that runs lets time pass at the pace of the slice, so a slice   *)
(* of full length outlasts a short round.                                  *)
Paced ==
  /\ mission # "none" => java = "running"
  /\ pc \in NotPlaying => mission = "none"
  /\ pc = "combat" /\ step # "look" => left > 0
  /\ pc = "combat" /\ mission = "running" => progress + left >= Slice(rest)
  /\ pc = "silent" /\ mission = "running" => rest < UnpauseRetry
  /\ pc = "press" => mission # "running"

(* Every step keeps the pace.                                              *)
LEMMA StepPaced ==
  ASSUME ShortRounds, TypeOK, PlayInv, Paced, [Next]_vars
  PROVE  Paced'
<1>0. /\ left \in Nat /\ rest \in 0..CombatTimeout /\ progress \in 0..MissionTime
      /\ MissionTime \in Nat /\ UnpauseRetry \in Nat /\ CombatTimeout \in Nat
      /\ MissionTime < UnpauseRetry
  BY Numbers DEF TypeOK, CommandTypes, GameTypes, ShortRounds
<1>s. /\ Slice(rest) \in Nat
      /\ Slice(rest) = rest \/ Slice(rest) = UnpauseRetry
      /\ Slice(CombatTimeout) \in Nat
  <2>1. rest \in Nat
    BY <1>0
  <2>. QED
    BY <1>0, <2>1, SliceIsSmaller
<1> USE DEF Paced, NotPlaying
<1>1. CASE Prepare
  BY <1>0, <1>1 DEF Prepare, Go
<1>2. CASE Start
  BY <1>0, <1>2 DEF Start, Go, files, counters, history
<1>3. CASE StartFails
  BY <1>0, <1>3 DEF StartFails, Go, processes, counters, history
<1>4. CASE Look
  <2>0. UNCHANGED <<rest, mission, progress, java>> /\ pc \in Waits /\ step = "look"
    BY <1>4 DEF Look, processes
  <2>1. CASE Observed /\ Arrived
    <3>1. pc = "combat" => mission = "none"
      BY <1>0, <2>1 DEF Observed, PlayInv, Counted, InMission, TypeOK, CommandTypes, FileTypes, Logs
    <3>. QED
      BY <2>0, <2>1, <3>1 DEF Arrived, Go, End, Waits
  <2>2. CASE left = 0 /\ Missed
    <3>1. pc = "combat" /\ mission = "running" => rest < UnpauseRetry
      BY <1>0, <1>s, <2>2
    <3>2. /\ pc' \notin {"combat", "press"}
          /\ pc' \in NotPlaying => pc \in NotPlaying
          /\ pc' = "silent" => pc = "combat"
      BY <2>0, <2>2 DEF Missed, Go, End, Waits
    <3>. QED
      BY <2>0, <3>1, <3>2
  <2>3. CASE (left > 0 \/ pc = "watch") /\ step' = "ask" /\ UNCHANGED <<pc, left>>
    BY <2>0, <2>3
  <2>. QED
    BY <1>4, <1>0, <2>1, <2>2, <2>3 DEF Look
<1>5. CASE Ask
  <2>0. UNCHANGED <<rest, mission, progress, java>> /\ pc \in Waits /\ step = "ask"
    BY <1>5 DEF Ask, processes
  <2>1. CASE \E v, s : End(v, s)
    BY <2>0, <2>1 DEF End, Go, Waits
  <2>2. CASE java # "running" /\ Missed
    <3>1. /\ pc' \notin {"combat", "press"}
          /\ pc' \in NotPlaying => pc \in NotPlaying
      BY <2>0, <2>2 DEF Missed, Go, End, Waits
    <3>. QED
      BY <2>0, <2>2, <3>1
  <2>3. CASE step' = "sleep" /\ UNCHANGED <<pc, left>>
    BY <2>0, <2>3
  <2>. QED
    BY <1>5, <2>1, <2>2, <2>3 DEF Ask, Alive
<1>6. CASE Tick
  BY <1>0, <1>6 DEF Tick, files, counters, history
<1>7. CASE NewGame
  BY <1>0, <1>7 DEF NewGame, Go, processes, files, counters, history
<1>8. CASE GenericNewGame
  BY <1>0, <1>8 DEF GenericNewGame, Go, processes, files, counters, history
<1>9. CASE ToMissionList
  BY <1>0, <1>9 DEF ToMissionList, Go, End, processes, files, counters, history
<1>10. CASE Play
  <2>1. pc = "play" /\ pc' = "combat" /\ step' = "look" /\ UNCHANGED java /\ java = "running"
    BY <1>10 DEF Play, Go
  <2>2. rest' = CombatTimeout /\ left' = Slice(CombatTimeout) /\ mission = "none"
    BY <1>10 DEF Play, Go
  <2>3. mission' = "none" \/ progress' = 0
    BY <1>10, <2>2 DEF Play
  <2>. QED
    BY <1>0, <1>s, <2>1, <2>2, <2>3
<1>11. CASE Silent
  <2>1. pc = "silent" /\ UNCHANGED <<mission, progress, java>> /\ rest' = rest - Slice(rest)
    BY <1>11 DEF Silent, processes
  <2>2. CASE End("LIVE_STUCK", "combat")
    BY <2>1, <2>2 DEF End, Go
  <2>3. CASE rest' > 0 /\ Go("press", 0)
    <3>1. mission # "running"
      BY <1>0, <1>s, <2>1, <2>3
    <3>. QED
      BY <2>1, <2>3, <3>1 DEF Go
  <2>. QED
    BY <1>0, <2>1, <2>2, <2>3, <1>11 DEF Silent
<1>12. CASE Press
  <2>1. /\ pc' = "combat" /\ step' = "look" /\ left' = Slice(rest)
        /\ java = "running" /\ UNCHANGED <<java, progress, rest>>
    BY <1>12 DEF Press, Go
  <2>. QED
    BY <1>0, <1>s, <2>1
<1>13. CASE WindowGone
  BY <1>0, <1>13 DEF WindowGone, End, Go, processes, files, counters, history, Clicking
<1>14. CASE Raise
  BY <1>0, <1>14 DEF Raise, End, Go, processes, files, counters, history, Body, Waits,
       Clicking
<1>15. CASE StopGame
  BY <1>0, <1>15 DEF StopGame, Go, Record, processes, counters, history
<1>16. CASE WaitForDone
  BY <1>0, <1>16 DEF WaitForDone, Go, Record, processes, counters, history
<1>17. CASE PostClose
  BY <1>0, <1>17 DEF PostClose, Go, Record, processes, counters
<1>18. CASE SettleExit
  BY <1>0, <1>18 DEF SettleExit, Go, Record, ObservedExit, processes, counters, history
<1>19. CASE KillJava
  BY <1>0, <1>19 DEF KillJava, Kill, Go, files, counters
<1>20. CASE KillTree
  BY <1>0, <1>20 DEF KillTree, Kill, Go, files, counters
<1>21. CASE Restore
  BY <1>0, <1>21 DEF Restore, Go, processes, counters, history
<1>22. CASE StopRaises
  BY <1>0, <1>22 DEF StopRaises, Go, processes, files, Stopping
<1>23. CASE Crash
  BY <1>0, <1>23 DEF Crash, Go, processes, files
<1>24. CASE OpenLog
  BY <1>0, <1>24 DEF OpenLog, command, counters, history
<1>25. CASE JavaStarts
  BY <1>0, <1>25 DEF JavaStarts, command, files, counters, history
<1>26. CASE GameLogs
  BY <1>0, <1>26 DEF GameLogs, command, processes, counters, history
<1>27. CASE MissionEnds
  BY <1>0, <1>27 DEF MissionEnds, command, counters
<1>28. CASE MissionHangs
  BY <1>0, <1>28 DEF MissionHangs, command, files, counters
<1>29. CASE WriteMarker
  BY <1>0, <1>29 DEF WriteMarker, command, counters
<1>30. CASE GameExits
  BY <1>0, <1>30 DEF GameExits, command, files, counters
<1>31. CASE LauncherExits
  BY <1>0, <1>31 DEF LauncherExits, command, files, counters, history
<1>32. CASE UNCHANGED vars
  BY <1>32 DEF vars, command, processes, files, counters, history
<1>. QED
  BY <1>1, <1>2, <1>3, <1>4, <1>5, <1>6, <1>7, <1>8, <1>9, <1>10, <1>11, <1>12, <1>13,
       <1>14, <1>15, <1>16, <1>17, <1>18, <1>19, <1>20, <1>21, <1>22, <1>23, <1>24, <1>25, <1>26,
       <1>27, <1>28, <1>29, <1>30, <1>31, <1>32 DEF Next, Command, Game

(* When a round is shorter than the time between two presses, no press     *)
(* pauses it (NeverPauses): what the comment on COMBAT_UNPAUSE_RETRY says, *)
(* and what it silently needs.                                             *)
THEOREM NeverPausesHolds == ASSUME ShortRounds PROVE Spec => NeverPauses
<1>1. Init => PlayInv /\ Paced
  BY DEF Init, PlayInv, Loaded, Counted, Finished, InMission, AfterLoad, AtList, Paced, NotPlaying
<1>2. TypeOK /\ PlayInv /\ [Next]_vars => PlayInv'
  BY StepPlay
<1>3. TypeOK /\ PlayInv /\ Paced /\ [Next]_vars => Paced'
  BY StepPaced
<1>4. Paced /\ [Next]_vars => [mission = "running" => mission' # "paused"]_vars
  <2> SUFFICES ASSUME Paced, Next, mission = "running" PROVE mission' # "paused"
    OBVIOUS
  <2>1. ~Play /\ ~Press
    BY DEF Play, Press, Paced, NotPlaying
  <2>2. CASE Command
    BY <2>1, <2>2 DEF Command, Prepare, Start, StartFails, Look, Ask, Tick, NewGame,
         GenericNewGame, ToMissionList, Silent, WindowGone, Raise, StopGame, WaitForDone,
         PostClose, SettleExit, KillJava, KillTree, Restore, StopRaises, Crash, Kill,
         processes
  <2>3. CASE Game
    BY <2>3 DEF Game, OpenLog, JavaStarts, GameLogs, MissionEnds, MissionHangs, WriteMarker,
            GameExits, LauncherExits, processes
  <2>. QED
    BY <2>2, <2>3 DEF Next
<1>. QED
  BY <1>1, <1>2, <1>3, <1>4, TypeCorrect, PTL DEF Spec, NeverPauses

-----------------------------------------------------------------------------
(* What one lost press costs.                                              *)
(* While a mission was started and neither hung nor lost its game, fewer   *)
(* than two lost presses leave it in one of these places: it runs since    *)
(* the first press or since the second, or it waits for the second.        *)
Early ==
  /\ pc = "combat" =>
       \/ log.ended # mark
       \/ lost = 0 /\ mission = "running" /\ rest = CombatTimeout
       \/ lost = 1 /\ mission = "paused" /\ rest = CombatTimeout
       \/ lost = 1 /\ mission = "running" /\ rest = CombatTimeout - UnpauseRetry
  /\ pc = "silent" => lost = 1 /\ mission = "paused" /\ rest = CombatTimeout
  /\ pc = "press" => lost = 1 /\ mission = "paused" /\ rest = CombatTimeout - UnpauseRetry

Recovering ==
  /\ pc \in {"start"} \union Body => verdict = "none"
  /\ pc \in InMission /\ ~excuse => java = "running"
  /\ pc \in InMission /\ ~excuse /\ lost < 2 => Early

(* Every step keeps it.                                                    *)
LEMMA StepRecovering ==
  ASSUME ShortRounds, RoomForARetry, TypeOK, PlayInv, Paced, Recovering, LostPressRecovered,
         [Next]_vars
  PROVE  Recovering' /\ LostPressRecovered'
<1>0. /\ left \in Nat /\ rest \in Nat /\ progress \in 0..MissionTime /\ lost \in 0..2
      /\ MissionTime \in Nat /\ UnpauseRetry \in Nat /\ CombatTimeout \in Nat
      /\ MissionTime < UnpauseRetry /\ UnpauseRetry + MissionTime < CombatTimeout
      /\ UnpauseRetry > 0
  BY Numbers DEF TypeOK, CommandTypes, GameTypes, HistoryTypes, ShortRounds, RoomForARetry
<1>f. Flags
  BY DEF TypeOK
<1>s. /\ Slice(rest) \in Nat
      /\ Slice(rest) = IF rest < UnpauseRetry THEN rest ELSE UnpauseRetry
  BY <1>0 DEF Slice, Smaller
<1> USE DEF Recovering, Early, LostPressRecovered, InMission, Body, Waits, Clicking
<1>1. CASE Prepare
  BY <1>0, <1>f, <1>1 DEF Prepare, Go
<1>2. CASE Start
  BY <1>0, <1>f, <1>2 DEF Start, Go, files, counters, history
<1>3. CASE StartFails
  BY <1>0, <1>f, <1>3 DEF StartFails, Go, processes, counters, history
<1>4. CASE Look
  <2>0. /\ UNCHANGED <<rest, mission, progress, java, log, mark, lost, excuse>>
        /\ pc \in Waits /\ step = "look"
    BY <1>4 DEF Look, processes, files, history
  <2>1. CASE Observed /\ Arrived
    BY <2>0, <2>1 DEF Arrived, Go, End
  <2>2. CASE ~Observed /\ left = 0 /\ Missed
    <3>1. CASE pc # "combat"
      BY <2>0, <2>2, <3>1 DEF Missed, Go, End
    <3>2. CASE pc = "combat"
      <4>1. pc' = "silent" /\ verdict' = verdict
        BY <2>2, <3>2 DEF Missed, Go
      <4>2. ~(log.ended > mark)
        BY <2>2, <3>2 DEF Observed
      <4>3. log.ended = mark
        BY <3>2, <4>2 DEF PlayInv, Counted, TypeOK, CommandTypes, FileTypes, Logs
      <4>4. mission = "running" => progress >= Slice(rest)
        BY <1>0, <1>s, <2>2, <3>2 DEF Paced
      <4>5. ~excuse /\ lost < 2 => lost = 1 /\ mission = "paused" /\ rest = CombatTimeout
        BY <1>0, <1>s, <3>2, <4>3, <4>4
      <4>. QED
        BY <2>0, <3>2, <4>1, <4>5
    <3>. QED
      BY <3>1, <3>2
  <2>3. CASE step' = "ask" /\ UNCHANGED <<pc, verdict, stage>>
    BY <2>0, <2>3
  <2>. QED
    BY <1>4, <2>1, <2>2, <2>3 DEF Look
<1>5. CASE Ask
  <2>0. /\ UNCHANGED <<rest, mission, progress, java, log, mark, lost, excuse>>
        /\ pc \in Waits
    BY <1>5 DEF Ask, processes, files, history
  <2>1. CASE \E s : s # "combat" /\ \E v : End(v, s)
    BY <2>0, <2>1 DEF End, Go
  <2>2. CASE java # "running" /\ Missed
    <3>1. CASE pc # "combat"
      BY <2>0, <2>2, <3>1 DEF Missed, Go, End
    <3>2. CASE pc = "combat"
      BY <1>f, <2>0, <2>2, <3>2 DEF Missed, Go
    <3>. QED
      BY <3>1, <3>2
  <2>3. CASE UNCHANGED <<pc, verdict, stage>>
    BY <2>0, <2>3
  <2>. QED
    BY <1>5, <2>1, <2>2, <2>3 DEF Ask, Alive
<1>6. CASE Tick
  BY <1>0, <1>f, <1>6 DEF Tick, files, counters, history
<1>7. CASE NewGame
  BY <1>0, <1>f, <1>7 DEF NewGame, Go, processes, files, counters, history
<1>8. CASE GenericNewGame
  BY <1>0, <1>f, <1>8 DEF GenericNewGame, Go, processes, files, counters, history
<1>9. CASE ToMissionList
  BY <1>0, <1>f, <1>9 DEF ToMissionList, Go, End, processes, files, counters, history
<1>10. CASE Play
  BY <1>0, <1>f, <1>10 DEF Play, Go, counters
<1>11. CASE Silent
  <2>0. /\ UNCHANGED <<mission, java, log, mark, lost, excuse>>
        /\ pc = "silent" /\ rest' = rest - Slice(rest)
    BY <1>11 DEF Silent, processes, files, history
  <2>1. ~excuse /\ lost < 2 =>
          /\ java = "running" /\ lost = 1 /\ mission = "paused"
          /\ rest' = CombatTimeout - UnpauseRetry /\ rest' > 0
    BY <1>0, <1>s, <2>0
  <2>2. CASE (rest' <= 0 \/ ~Alive) /\ End("LIVE_STUCK", "combat")
    <3>1. excuse \/ lost = 2
      BY <1>0, <2>0, <2>1, <2>2 DEF Alive
    <3>2. pc' = "stop" /\ verdict' = "LIVE_STUCK"
      BY <2>2 DEF End, Go
    <3>. QED
      BY <2>0, <3>1, <3>2
  <2>3. CASE Go("press", 0) /\ UNCHANGED <<verdict, stage, await>>
    BY <2>0, <2>1, <2>3 DEF Go
  <2>. QED
    BY <1>11, <2>2, <2>3 DEF Silent
<1>12. CASE Press
  <2>0. /\ UNCHANGED <<rest, java, log, mark, excuse, verdict, stage>>
        /\ pc = "press" /\ pc' = "combat" /\ java = "running"
    BY <1>12 DEF Press, Go, files
  <2>1. CASE mission = "paused" /\ mission' = "running" /\ lost' = lost
    BY <2>0, <2>1
  <2>2. CASE mission = "running"
    BY <2>0, <2>2 DEF Paced
  <2>3. CASE mission \notin {"paused", "running"} /\ lost' = lost
    BY <1>f, <2>0, <2>3
  <2>4. CASE mission' = mission /\ lost' = Smaller(lost + 1, 2)
    <3>1. lost >= 1 \/ excuse
      BY <1>0, <2>0
    <3>2. lost' = 2 \/ excuse
      BY <1>0, <2>4, <3>1 DEF Smaller
    <3>. QED
      BY <2>0, <2>4, <3>2
  <2>. QED
    BY <1>12, <2>1, <2>2, <2>3, <2>4 DEF Press
<1>13. CASE WindowGone
  BY <1>0, <1>f, <1>13 DEF WindowGone, End, Go, processes, files, counters, history,
       Clicking
<1>14. CASE Raise
  BY <1>0, <1>f, <1>14 DEF Raise, End, Go, processes, files, counters, history, Body, Waits,
       Clicking
<1>15. CASE StopGame
  BY <1>0, <1>f, <1>15 DEF StopGame, Go, Record, processes, counters, history
<1>16. CASE WaitForDone
  BY <1>0, <1>f, <1>16 DEF WaitForDone, Go, Record, processes, counters, history
<1>17. CASE PostClose
  BY <1>0, <1>f, <1>17 DEF PostClose, Go, Record, processes, counters
<1>18. CASE SettleExit
  BY <1>0, <1>f, <1>18 DEF SettleExit, Go, Record, ObservedExit, processes, counters,
       history
<1>19. CASE KillJava
  BY <1>0, <1>f, <1>19 DEF KillJava, Kill, Go, files, counters
<1>20. CASE KillTree
  BY <1>0, <1>f, <1>20 DEF KillTree, Kill, Go, files, counters
<1>21. CASE Restore
  BY <1>0, <1>f, <1>21 DEF Restore, Go, processes, counters, history
<1>22. CASE StopRaises
  BY <1>0, <1>f, <1>22 DEF StopRaises, Go, processes, files, Stopping
<1>23. CASE Crash
  BY <1>0, <1>f, <1>23 DEF Crash, Go, processes, files
<1>24. CASE OpenLog
  <2>1. pc \notin InMission
    BY <1>24 DEF OpenLog, PlayInv, Loaded, AfterLoad
  <2>2. UNCHANGED <<pc, verdict, stage, lost, excuse>>
    BY <1>24 DEF OpenLog, command, history
  <2>. QED
    BY <2>1, <2>2
<1>25. CASE JavaStarts
  BY <1>0, <1>f, <1>25 DEF JavaStarts, command, files, counters, history
<1>26. CASE GameLogs
  <2>1. UNCHANGED <<pc, verdict, stage, lost, excuse, java, mission, rest, mark>>
    BY <1>26 DEF GameLogs, command, processes, history
  <2>2. log'.ended = log.ended
    BY <1>26 DEF GameLogs, TypeOK, FileTypes, Logs
  <2>. QED
    BY <2>1, <2>2
<1>27. CASE MissionEnds
  <2>1. /\ UNCHANGED <<pc, verdict, stage, lost, excuse, java, rest, mark>>
        /\ mission = "running"
    BY <1>27 DEF MissionEnds, command
  <2>2. pc = "combat" => log'.ended # mark
    BY <1>27, <2>1 DEF MissionEnds, PlayInv, Counted, TypeOK, CommandTypes, FileTypes, Logs
  <2>. QED
    BY <1>f, <2>1, <2>2
<1>28. CASE MissionHangs
  BY <1>0, <1>f, <1>28 DEF MissionHangs, command, files, counters
<1>29. CASE WriteMarker
  BY <1>0, <1>f, <1>29 DEF WriteMarker, command, counters
<1>30. CASE GameExits
  BY <1>0, <1>f, <1>30 DEF GameExits, command, files, counters
<1>31. CASE LauncherExits
  BY <1>0, <1>f, <1>31 DEF LauncherExits, command, files, counters, history
<1>32. CASE UNCHANGED vars
  BY <1>32 DEF vars, command, processes, files, counters, history
<1>. QED
  BY <1>1, <1>2, <1>3, <1>4, <1>5, <1>6, <1>7, <1>8, <1>9, <1>10, <1>11, <1>12, <1>13,
       <1>14, <1>15, <1>16, <1>17, <1>18, <1>19, <1>20, <1>21, <1>22, <1>23, <1>24, <1>25, <1>26,
       <1>27, <1>28, <1>29, <1>30, <1>31, <1>32 DEF Next, Command, Game

(* When a round is shorter than the time between two presses and a retry   *)
(* leaves time for one, a run that gives a round up although its game and  *)
(* its mission are well has lost two presses (LostPressRecovered).         *)
THEOREM LostPressRecoveredHolds ==
  ASSUME ShortRounds, RoomForARetry
  PROVE  Spec => []LostPressRecovered
<1>1. Init => PlayInv /\ Paced /\ Recovering /\ LostPressRecovered
  BY DEF Init, PlayInv, Loaded, Counted, Finished, InMission, AfterLoad, AtList, Paced, NotPlaying,
         Recovering, LostPressRecovered, Body, Waits, Clicking
<1>2. TypeOK /\ PlayInv /\ [Next]_vars => PlayInv'
  BY StepPlay
<1>3. TypeOK /\ PlayInv /\ Paced /\ [Next]_vars => Paced'
  BY StepPaced
<1>4. TypeOK /\ PlayInv /\ Paced /\ Recovering /\ LostPressRecovered /\ [Next]_vars =>
        Recovering' /\ LostPressRecovered'
  BY StepRecovering
<1>. QED
  BY <1>1, <1>2, <1>3, <1>4, TypeCorrect, PTL DEF Spec

-----------------------------------------------------------------------------
(* Where a run that was not cut off leaves the machine: before the launch  *)
(* and after the kills nothing runs, but for a game that neither kill could *)
(* see; a java that came up between the two kills still has its launcher;  *)
(* a launch that was stopped has no java; the preferences are kept.        *)
Tidied ==
  ~cut =>
    /\ kept = "owner"
    /\ pc = "idle" \/ opts.interactive => prefs = "owner"
    /\ pc = "start" => java # "running"
    /\ pc \in {"idle", "start", "restore"} => cmd # "running" /\ (java = "running" => Stray)
    /\ pc = "killtree" /\ java = "running" /\ cmd # "running" => Stray
    /\ launch \in killed =>
         /\ pc \in {"killtree", "restore", "idle"}
         /\ java # "running" /\ (cmd = "running" => java = "exited")
    /\ \A k \in killed : k <= launch

(* Every step keeps it.                                                    *)
LEMMA StepTidied == TypeOK /\ Tidied /\ [Next]_vars => Tidied'
<1> SUFFICES ASSUME TypeOK, Tidied, [Next]_vars PROVE Tidied'
  OBVIOUS
<1>0. cut \in BOOLEAN /\ opts.interactive \in BOOLEAN /\ launch \in Nat /\ killed \subseteq Nat
  BY DEF TypeOK, Flags, CommandTypes, HistoryTypes, Options
<1> USE DEF Tidied, Stray, Listed
<1>1. CASE Prepare
  BY <1>0, <1>1 DEF Prepare, Go
<1>2. CASE Start
  BY <1>0, <1>2 DEF Start, Go, processes, files, counters, history
<1>3. CASE StartFails
  BY <1>0, <1>3 DEF StartFails, Go, processes, files, counters, history
<1>4. CASE Look
  BY <1>0, <1>4 DEF Look, Arrived, Missed, Go, End, Waits, processes, files, counters,
       history
<1>5. CASE Ask
  BY <1>0, <1>5 DEF Ask, Missed, Go, End, Waits, processes, files, counters, history
<1>6. CASE Tick
  BY <1>0, <1>6 DEF Tick, processes, files, counters, history
<1>7. CASE NewGame
  BY <1>0, <1>7 DEF NewGame, Go, processes, files, counters, history
<1>8. CASE GenericNewGame
  BY <1>0, <1>8 DEF GenericNewGame, Go, processes, files, counters, history
<1>9. CASE ToMissionList
  BY <1>0, <1>9 DEF ToMissionList, Go, End, processes, files, counters, history
<1>10. CASE Play
  BY <1>0, <1>10 DEF Play, Go, processes, files, counters, history
<1>11. CASE Silent
  BY <1>0, <1>11 DEF Silent, Go, End, processes, files, counters, history
<1>12. CASE Press
  BY <1>0, <1>12 DEF Press, Go, processes, files, counters, history
<1>13. CASE WindowGone
  BY <1>0, <1>13 DEF WindowGone, End, Go, Clicking, processes, files, counters, history
<1>14. CASE Raise
  BY <1>0, <1>14 DEF Raise, End, Go, Body, Waits, Clicking, processes, files, counters,
       history
<1>15. CASE StopGame
  BY <1>0, <1>15 DEF StopGame, Go, processes, files, counters, history
<1>16. CASE WaitForDone
  BY <1>0, <1>16 DEF WaitForDone, Go, processes, files, counters, history
<1>17. CASE PostClose
  BY <1>0, <1>17 DEF PostClose, Go, processes, files, counters, history
<1>18. CASE SettleExit
  BY <1>0, <1>18 DEF SettleExit, Go, processes, files, counters, history
<1>19. CASE KillJava
  <2>1. /\ pc = "killjava" /\ pc' = "killtree"
        /\ UNCHANGED <<cmd, launch, outside, opts, kept, prefs, cut>>
    BY <1>19 DEF KillJava, Kill, Go, files, counters
  <2>2. CASE Listed
    <3>1. java' = "exited" /\ killed' = killed \union {launch}
      BY <1>19, <2>2 DEF KillJava
    <3>. QED
      BY <1>0, <2>1, <3>1
  <2>3. CASE ~Listed
    <3>1. UNCHANGED <<java, killed>>
      BY <1>19, <2>3 DEF KillJava
    <3>2. ~cut => launch \notin killed
      BY <2>1
    <3>. QED
      BY <1>0, <2>1, <2>3, <3>1, <3>2
  <2>. QED
    BY <2>2, <2>3
<1>20. CASE KillTree
  <2>1. /\ pc = "killtree" /\ pc' = "restore"
        /\ UNCHANGED <<launch, outside, opts, kept, prefs, cut>>
    BY <1>20 DEF KillTree, Kill, Go, files, counters
  <2>2. CASE cmd = "running"
    <3>1. cmd' = "exited" /\ java' # "running" /\ killed' = killed \union {launch}
      BY <1>20, <2>2 DEF KillTree
    <3>. QED
      BY <1>0, <2>1, <3>1
  <2>3. CASE cmd # "running"
    <3>1. UNCHANGED <<cmd, java, killed>>
      BY <1>20, <2>3 DEF KillTree
    <3>. QED
      BY <1>0, <2>1, <2>3, <3>1
  <2>. QED
    BY <2>2, <2>3
<1>21. CASE Restore
  BY <1>0, <1>21 DEF Restore, Go, processes, files, counters, history
<1>22. CASE StopRaises
  BY <1>0, <1>22 DEF StopRaises, Go, Stopping, Settling, processes, files, counters,
       history
<1>23. CASE Crash
  BY <1>0, <1>23 DEF Crash, Go, processes, files, counters, history
<1>24. CASE OpenLog
  BY <1>0, <1>24 DEF OpenLog, command, processes, files, counters, history
<1>25. CASE JavaStarts
  BY <1>0, <1>25 DEF JavaStarts, command, processes, files, counters, history
<1>26. CASE GameLogs
  BY <1>0, <1>26 DEF GameLogs, command, processes, files, counters, history
<1>27. CASE MissionEnds
  BY <1>0, <1>27 DEF MissionEnds, command, processes, files, counters, history
<1>28. CASE MissionHangs
  BY <1>0, <1>28 DEF MissionHangs, command, processes, files, counters, history
<1>29. CASE WriteMarker
  BY <1>0, <1>29 DEF WriteMarker, command, processes, files, counters, history
<1>30. CASE GameExits
  BY <1>0, <1>30 DEF GameExits, command, processes, files, counters, history
<1>31. CASE LauncherExits
  BY <1>0, <1>31 DEF LauncherExits, command, processes, files, counters, history
<1>32. CASE UNCHANGED vars
  BY <1>0, <1>32 DEF vars, command, processes, files, counters, history
<1>. QED
  BY <1>1, <1>2, <1>3, <1>4, <1>5, <1>6, <1>7, <1>8, <1>9, <1>10, <1>11, <1>12, <1>13,
       <1>14, <1>15, <1>16, <1>17, <1>18, <1>19, <1>20, <1>21, <1>22, <1>23, <1>24,
       <1>25, <1>26, <1>27, <1>28, <1>29, <1>30, <1>31, <1>32 DEF Next, Command, Game

(* The first part of RunEnds: where a run that was not cut off ends.       *)
EndsTidy == pc = "idle" /\ ~cut => Tidy

(* A run that ends without being cut off leaves no launcher running, no    *)
(* java with the rig's path, a game of a JDK outside the rig only if       *)
(* nothing of its launch was stopped, and the owner's preferences as they  *)
(* were, whatever the game, the launcher and the clicks did meanwhile.     *)
THEOREM EndsTidyHolds == Spec => []EndsTidy
<1>1. Init => Tidied
  BY DEF Init, Tidied
<1>2. Tidied => EndsTidy
  BY DEF Tidied, EndsTidy, Tidy
<1>. QED
  BY <1>1, <1>2, StepTidied, TypeCorrect, PTL DEF Spec

-----------------------------------------------------------------------------
(* Every run gets nearer its end.                                          *)
(* A sleep is only started with ticks left, and a press with time left.    *)
Ahead ==
  /\ pc \in InMission => rest > 0
  /\ step # "look" => pc \in Waits \union Settling /\ (pc = "watch" \/ left > 0)

LEMMA StepAhead == TypeOK /\ Ahead /\ [Next]_vars => Ahead'
<1> SUFFICES ASSUME TypeOK, Ahead, [Next]_vars PROVE Ahead'
  OBVIOUS
<1>0. rest \in 0..CombatTimeout /\ left \in Nat /\ step \in {"look", "ask", "sleep"}
  BY DEF TypeOK, CommandTypes
<1> USE Numbers DEF Ahead, InMission
<1>1. CASE Prepare
  BY <1>0, <1>1 DEF Prepare, Go
<1>2. CASE Start
  BY <1>0, <1>2 DEF Start, Go, processes, files, counters, history
<1>3. CASE StartFails
  BY <1>0, <1>3 DEF StartFails, Go, processes, files, counters, history
<1>4. CASE Look
  BY <1>0, <1>4 DEF Look, Arrived, Missed, Go, End, Waits, processes, files, counters,
       history
<1>5. CASE Ask
  BY <1>0, <1>5 DEF Ask, Missed, Go, End, Waits, processes, files, counters, history
<1>6. CASE Tick
  BY <1>0, <1>6 DEF Tick, processes, files, counters, history, Settling
<1>7. CASE NewGame
  BY <1>0, <1>7 DEF NewGame, Go, processes, files, counters, history
<1>8. CASE GenericNewGame
  BY <1>0, <1>8 DEF GenericNewGame, Go, processes, files, counters, history
<1>9. CASE ToMissionList
  BY <1>0, <1>9 DEF ToMissionList, Go, End, processes, files, counters, history
<1>10. CASE Play
  BY <1>0, <1>10 DEF Play, Go, processes, files, counters, history
<1>11. CASE Silent
  <2>1. rest' \in Int /\ step' = "look"
    BY <1>0, <1>11, SliceIsSmaller DEF Silent, Go, End
  <2>2. pc' = "stop" \/ (pc' = "press" /\ ~(rest' <= 0))
    BY <1>11 DEF Silent, Go, End
  <2>. QED
    BY <2>1, <2>2
<1>12. CASE Press
  BY <1>0, <1>12 DEF Press, Go, processes, files, counters, history
<1>13. CASE WindowGone
  BY <1>0, <1>13 DEF WindowGone, End, Go, Clicking, processes, files, counters, history
<1>14. CASE Raise
  BY <1>0, <1>14 DEF Raise, End, Go, Body, Waits, Clicking, processes, files, counters,
       history
<1>15. CASE StopGame
  BY <1>0, <1>15 DEF StopGame, Go, processes, files, counters, history
<1>16. CASE WaitForDone
  BY <1>0, <1>16 DEF WaitForDone, Go, processes, files, counters, history, Settling
<1>17. CASE PostClose
  BY <1>0, <1>17 DEF PostClose, Go, processes, files, counters, history
<1>18. CASE SettleExit
  BY <1>0, <1>18 DEF SettleExit, Go, processes, files, counters, history, Settling
<1>19. CASE KillJava
  BY <1>0, <1>19 DEF KillJava, Kill, Go, processes, files, counters, history
<1>20. CASE KillTree
  BY <1>0, <1>20 DEF KillTree, Kill, Go, processes, files, counters, history
<1>21. CASE Restore
  BY <1>0, <1>21 DEF Restore, Go, processes, files, counters, history
<1>22. CASE StopRaises
  BY <1>0, <1>22 DEF StopRaises, Go, Stopping, Settling, processes, files, counters,
       history
<1>23. CASE Crash
  BY <1>0, <1>23 DEF Crash, Go, processes, files, counters, history
<1>24. CASE OpenLog
  BY <1>0, <1>24 DEF OpenLog, command, processes, files, counters, history
<1>25. CASE JavaStarts
  BY <1>0, <1>25 DEF JavaStarts, command, processes, files, counters, history
<1>26. CASE GameLogs
  BY <1>0, <1>26 DEF GameLogs, command, processes, files, counters, history
<1>27. CASE MissionEnds
  BY <1>0, <1>27 DEF MissionEnds, command, processes, files, counters, history
<1>28. CASE MissionHangs
  BY <1>0, <1>28 DEF MissionHangs, command, processes, files, counters, history
<1>29. CASE WriteMarker
  BY <1>0, <1>29 DEF WriteMarker, command, processes, files, counters, history
<1>30. CASE GameExits
  BY <1>0, <1>30 DEF GameExits, command, processes, files, counters, history
<1>31. CASE LauncherExits
  BY <1>0, <1>31 DEF LauncherExits, command, processes, files, counters, history
<1>32. CASE UNCHANGED vars
  BY <1>0, <1>32 DEF vars, command, processes, files, counters, history
<1>. QED
  BY <1>1, <1>2, <1>3, <1>4, <1>5, <1>6, <1>7, <1>8, <1>9, <1>10, <1>11, <1>12, <1>13,
       <1>14, <1>15, <1>16, <1>17, <1>18, <1>19, <1>20, <1>21, <1>22, <1>23, <1>24,
       <1>25, <1>26, <1>27, <1>28, <1>29, <1>30, <1>31, <1>32 DEF Next, Command, Game

(* How near the end a run is, most significant first: the phase, the round,*)
(* the time left for the round, whose turn it is in it, the ticks left of  *)
(* a wait, and the place in its loop.                                      *)
Phase ==
  [idle |-> 0, restore |-> 1, killtree |-> 2, killjava |-> 3, settle |-> 4, close |-> 5,
   marker |-> 6, stop |-> 7, combat |-> 8, silent |-> 8, press |-> 8, play |-> 8, list |-> 9,
   save |-> 10, again |-> 11, generic |-> 12, campaign |-> 13, newgame |-> 14, menu |-> 15,
   watch |-> 15, start |-> 16]
Fuel == IF pc = "play" THEN CombatTimeout + 1 ELSE rest
Turn == [silent |-> 0, combat |-> 1, press |-> 2]
Steps == [sleep |-> 0, ask |-> 1, look |-> 2]

Nearer ==
  \/ Phase[pc'] < Phase[pc]
  \/ /\ Phase[pc'] = Phase[pc]
     /\ \/ round < round' /\ round' < Rounds
        \/ /\ round' = round
           /\ \/ Fuel' < Fuel
              \/ /\ Fuel' = Fuel
                 /\ \/ {pc, pc'} \subseteq InMission /\ Turn[pc'] < Turn[pc]
                    \/ /\ pc' = pc
                       /\ \/ left' < left
                          \/ left' = left /\ Steps[step'] < Steps[step]

(* The second part of RunEnds: every step of a command that drives the     *)
(* game itself brings its run nearer the end, whatever it finds, and       *)
(* nothing that the game does puts it further off; so no answer of the     *)
(* game, no retry and no further round can keep the command for ever.      *)
Approaches ==
  pc # "idle" /\ ~opts.interactive =>
    (Drives => Nearer) /\ (UNCHANGED command \/ Nearer)
RunShortens == [][Approaches]_vars

LEMMA Phases ==
  /\ Phase["idle"] = 0 /\ Phase["restore"] = 1 /\ Phase["killtree"] = 2 /\ Phase["killjava"] = 3
  /\ Phase["settle"] = 4 /\ Phase["close"] = 5 /\ Phase["marker"] = 6 /\ Phase["stop"] = 7
  /\ Phase["combat"] = 8 /\ Phase["silent"] = 8 /\ Phase["press"] = 8 /\ Phase["play"] = 8
  /\ Phase["list"] = 9 /\ Phase["save"] = 10 /\ Phase["again"] = 11 /\ Phase["generic"] = 12
  /\ Phase["campaign"] = 13 /\ Phase["newgame"] = 14 /\ Phase["menu"] = 15 /\ Phase["start"] = 16
  /\ Turn["silent"] = 0 /\ Turn["combat"] = 1 /\ Turn["press"] = 2 /\ Steps["sleep"] = 0
  /\ Steps["ask"] = 1 /\ Steps["look"] = 2
BY DEF Phase, Turn, Steps

LEMMA StepApproaches == TypeOK /\ PlayInv /\ Ahead /\ Next => Approaches
<1> SUFFICES ASSUME TypeOK, PlayInv, Ahead, Next, pc # "idle", ~opts.interactive
             PROVE  (Drives => Nearer) /\ (UNCHANGED command \/ Nearer)
  BY DEF Approaches
<1>0. /\ rest \in 0..CombatTimeout /\ left \in Nat /\ step \in {"look", "ask", "sleep"}
      /\ round \in Nat /\ total \in Nat /\ pc \in Places /\ pc # "watch"
  BY DEF TypeOK, CommandTypes, PlayInv, Loaded
<1>1. ~Prepare
  BY DEF Prepare
<1>2. ASSUME Start PROVE Nearer
  BY <1>0, <1>2, Phases DEF Start, Go, Nearer
<1>3. ASSUME StartFails PROVE Nearer
  BY <1>0, <1>3, Phases DEF StartFails, Go, Nearer
<1>4. ASSUME Look PROVE Nearer
  <2>0. /\ UNCHANGED rest /\ pc \in Waits \ {"watch"} /\ step = "look"
    BY <1>0, <1>4 DEF Look, Waits
  <2>1. CASE Observed /\ Arrived /\ pc # "combat"
    BY <2>0, <2>1, Phases DEF Arrived, Go, Nearer
  <2>2. CASE Observed /\ Arrived /\ pc = "combat"
    <3>1. log.told \in {0, Rounds} /\ total \in {1, Rounds}
      BY <2>2 DEF TypeOK, FileTypes, Logs, PlayInv, Counted, InMission
    <3>2. round' = round + 1 /\ total' \in {1, Rounds}
      BY <1>0, <2>2, <3>1, Numbers DEF Arrived
    <3>3. pc' = "stop" \/ (pc' = "play" /\ round' < total')
      BY <2>2 DEF Arrived, Go, End
    <3>. QED
      BY <1>0, <2>2, <3>2, <3>3, Numbers, Phases DEF Nearer
  <2>3. CASE Missed /\ pc # "combat"
    BY <2>0, <2>3, Phases DEF Missed, Go, End, Nearer
  <2>4. CASE Missed /\ pc = "combat" /\ UNCHANGED round
    BY <2>0, <2>4, Phases DEF Missed, Go, Nearer, Fuel, InMission
  <2>5. CASE step' = "ask" /\ UNCHANGED <<pc, left, round>>
    BY <2>0, <2>5, Phases DEF Nearer, Fuel
  <2>. QED
    BY <1>4, <2>0, <2>1, <2>2, <2>3, <2>4, <2>5 DEF Look
<1>5. ASSUME Ask PROVE Nearer
  <2>0. /\ UNCHANGED <<rest, round>> /\ pc \in Waits \ {"watch"} /\ step = "ask"
    BY <1>0, <1>5 DEF Ask, Waits
  <2>1. CASE End("LIVE_STUCK", "LAUNCH_NO_PROCESS")
    BY <2>0, <2>1, Phases DEF End, Go, Nearer, Waits
  <2>2. CASE Missed /\ pc # "combat"
    BY <2>0, <2>2, Phases DEF Missed, Go, End, Nearer
  <2>3. CASE Missed /\ pc = "combat"
    BY <2>0, <2>3, Phases DEF Missed, Go, Nearer, Fuel, InMission
  <2>4. CASE step' = "sleep" /\ UNCHANGED <<pc, left>>
    BY <2>0, <2>4, Phases DEF Nearer, Fuel
  <2>. QED
    BY <1>5, <2>0, <2>1, <2>2, <2>3, <2>4 DEF Ask
<1>6. ASSUME Tick PROVE Nearer
  <2>1. left > 0 /\ UNCHANGED <<pc, round, rest>> /\ left' = left - 1
    BY <1>0, <1>6 DEF Ahead, Tick
  <2>. QED
    BY <1>0, <2>1 DEF Nearer, Fuel
<1>7. ASSUME NewGame PROVE Nearer
  BY <1>0, <1>7, Phases DEF NewGame, Go, Nearer
<1>8. ASSUME GenericNewGame PROVE Nearer
  BY <1>0, <1>8, Phases DEF GenericNewGame, Go, Nearer
<1>9. ASSUME ToMissionList PROVE Nearer
  BY <1>0, <1>9, Phases DEF ToMissionList, Go, End, Nearer
<1>10. ASSUME Play PROVE Nearer
  <2>1. pc = "play" /\ pc' = "combat" /\ rest' = CombatTimeout /\ round' = round
    BY <1>10 DEF Play, Go
  <2>. QED
    BY <2>1, Numbers, Phases DEF Nearer, Fuel
<1>11. ASSUME Silent PROVE Nearer
  <2>1. pc = "silent" /\ rest' = rest - Slice(rest) /\ round' = round
    BY <1>11 DEF Silent
  <2>2. pc' \in {"stop", "press"}
    BY <1>11 DEF Silent, Go, End
  <2>3. Slice(rest) \in Nat /\ Slice(rest) > 0
    BY <1>0, <2>1, Numbers DEF Ahead, InMission, Slice, Smaller
  <2>. QED
    BY <1>0, <2>1, <2>2, <2>3, Numbers, Phases DEF Nearer, Fuel
<1>12. ASSUME Press PROVE Nearer
  <2>1. pc = "press" /\ pc' = "combat" /\ UNCHANGED <<rest, round>>
    BY <1>12 DEF Press, Go
  <2>. QED
    BY <2>1, Phases DEF Nearer, Fuel, InMission
<1>13. ASSUME WindowGone PROVE Nearer
  BY <1>0, <1>13, Phases DEF WindowGone, End, Go, Clicking, Nearer
<1>14. ASSUME Raise PROVE Nearer
  BY <1>0, <1>14, Phases DEF Raise, End, Go, Body, Waits, Clicking, Nearer
<1>15. ASSUME StopGame PROVE Nearer
  BY <1>0, <1>15, Phases DEF StopGame, Go, Record, Nearer
<1>16. ASSUME WaitForDone PROVE Nearer
  BY <1>0, <1>16, Phases DEF WaitForDone, Go, Record, Nearer, Fuel
<1>17. ASSUME PostClose PROVE Nearer
  BY <1>0, <1>17, Phases DEF PostClose, Go, Record, Nearer
<1>18. ASSUME SettleExit PROVE Nearer
  BY <1>0, <1>18, Phases DEF SettleExit, Go, Record, Nearer, Fuel
<1>19. ASSUME KillJava PROVE Nearer
  BY <1>0, <1>19, Phases DEF KillJava, Kill, Go, Nearer
<1>20. ASSUME KillTree PROVE Nearer
  BY <1>0, <1>20, Phases DEF KillTree, Kill, Go, Nearer
<1>21. ASSUME Restore PROVE Nearer
  BY <1>0, <1>21, Phases DEF Restore, Go, Nearer
<1>22. ASSUME StopRaises PROVE Nearer
  BY <1>0, <1>22, Phases DEF StopRaises, Go, Stopping, Settling, Nearer
<1>23. ASSUME Crash PROVE Nearer
  BY <1>0, <1>23, Phases, PlacesAre DEF Crash, Go, Nearer
<1>24. Game => UNCHANGED command
  BY DEF Game, OpenLog, JavaStarts, GameLogs, MissionEnds, MissionHangs, WriteMarker,
     GameExits, LauncherExits
<1>. QED
  BY <1>1, <1>2, <1>3, <1>4, <1>5, <1>6, <1>7, <1>8, <1>9, <1>10, <1>11, <1>12, <1>13,
       <1>14, <1>15, <1>16, <1>17, <1>18, <1>19, <1>20, <1>21, <1>22, <1>23, <1>24 DEF
       Next, Command, Drives

(* Every run that the command drives comes to its end.                     *)
THEOREM RunShortensHolds == Spec => RunShortens
<1>1. Init => PlayInv /\ Ahead
  BY DEF Init, PlayInv, Loaded, Counted, Finished, InMission, AfterLoad, AtList, Ahead
<1>2. TypeOK /\ PlayInv /\ [Next]_vars => PlayInv'
  BY StepPlay
<1>3. TypeOK /\ PlayInv /\ Ahead /\ [Next]_vars => [Approaches]_vars
  BY StepApproaches
<1>. QED
  BY <1>1, <1>2, <1>3, StepAhead, TypeCorrect, PTL DEF Spec, RunShortens

=============================================================================
