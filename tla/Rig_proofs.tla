----------------------------- MODULE Rig_proofs -----------------------------
(***************************************************************************)
(* Proofs about Rig, for all sets of runs, staging commands and mods and   *)
(* all bounds: types, that a run id keeps its manifest, and that an        *)
(* acceptable run is evidence of the bytes its game loaded.                *)
(*                                                                         *)
(* The argument for the evidence: a version is never made twice, so as     *)
(* long as no staging command puts one back, staged files that are those   *)
(* of the manifest now were so at every earlier moment since launch.  The  *)
(* comparison at release is therefore one of what the game loaded, and the *)
(* completion record keeps its answer.                                     *)
(***************************************************************************)
EXTENDS Rig, TLAPS

(* A run that is to own, launch, play or release has a manifest.           *)
HasManifest ==
  \A r \in Runs :
    /\ session[r].pc \in {"launch", "play"} /\ session[r].cmd # "boot" => manifest[r] # NoManifest
    /\ log[r] # NoLog => manifest[r] # NoManifest
    /\ log[r] # NoLog /\ log[r].release # "no" => completed[r] # "none"

TypeInv == TypeOK /\ HasManifest

(* Nothing was seen that was not made: a fresh version is a new one.       *)
UpTo(f, n) == \A m \in DOMAIN f : f[m] <= n

Seen ==
  /\ UpTo(working, edits)
  /\ UpTo(staged, edits)
  /\ \A r \in Runs :
       /\ UpTo(session[r].entries, edits)
       /\ manifest[r] # NoManifest => UpTo(manifest[r].entries, edits)

(* What the three moments after launch say of what the game loaded: the    *)
(* rig as it is, the comparison at release, the completion record.         *)
Loaded(r) == log[r].inputs = manifest[r].entries

Traced ==
  \A r \in Runs :
    log[r] # NoLog /\ log[r].clean =>
      /\ log[r].release = "no" /\ Entries = manifest[r].entries => Loaded(r)
      /\ log[r].release = "no" /\ session[r].pc = "complete" /\ ~session[r].drift => Loaded(r)
      /\ log[r].release = "kept" /\ completed[r] = "clean" => Loaded(r)

IInv == TypeInv /\ Seen /\ Traced

-----------------------------------------------------------------------------
(* Lemmas on the data and on the helpers of the actions.                   *)

(* A partial map is a function from some of the mods to versions.          *)
LEMMA PartialMapsDef ==
  ASSUME NEW S, NEW f
  PROVE  f \in PartialMaps(S) <=> \E D \in SUBSET S : f \in [D -> Versions]
BY DEF PartialMaps

(* The initial and resting values have their types.                        *)
LEMMA Resting ==
  /\ \A S : Empty \in PartialMaps(S)
  /\ NoSession \in Sessions
  /\ NoStaging \in Staging
<1>1. ASSUME NEW S PROVE Empty \in PartialMaps(S)
  <2>1. Empty \in [{} -> Versions]
    BY DEF Empty
  <2> QED
    BY <2>1, PartialMapsDef
<1>2. NoSession \in Sessions
  BY <1>1 DEF NoSession, Sessions, Points
<1>3. NoStaging \in Staging
  BY DEF NoStaging, Staging
<1> QED
  BY <1>1, <1>2, <1>3

(* What _staged_entries returns.                                           *)
LEMMA EntriesType ==
  ASSUME TypeOK
  PROVE  Entries \in PartialMaps(Mods)
<1>1. enabled \in SUBSET Mods /\ Entries \in [enabled -> Versions]
  BY DEF TypeOK, Entries
<1> QED
  BY <1>1, PartialMapsDef

(* Goto changes one session, and keeps its command unless it ends.         *)
LEMMA GotoFacts ==
  ASSUME TypeOK, NEW r \in Runs, NEW there \in Points, Goto(r, there)
  PROVE  /\ session' \in [Runs -> Sessions]
         /\ \A q \in Runs : q # r => session'[q] = session[q]
         /\ session'[r].pc = there
         /\ there # "idle" => session'[r].cmd = session[r].cmd
         /\ session'[r].entries = Empty
         /\ session'[r].drift = FALSE
<1> DEFINE new == IF there = "idle" THEN NoSession
                    ELSE [session[r] EXCEPT !.pc = there, !.entries = Empty,
                                            !.bound = Empty, !.drift = FALSE]
<1>1. session \in [Runs -> Sessions] /\ session[r] \in Sessions
  BY DEF TypeOK
<1>2. session' = [session EXCEPT ![r] = new]
  BY DEF Goto
<1>3. new \in Sessions /\ new.pc = there /\ new.entries = Empty /\ new.drift = FALSE
  BY <1>1, Resting DEF Sessions, NoSession
<1>4. there # "idle" => new.cmd = session[r].cmd
  BY <1>1 DEF Sessions
<1> HIDE DEF new
<1> QED
  BY <1>1, <1>2, <1>3, <1>4

(* Disturb only takes a running log's clean mark away.                     *)
LEMMA DisturbFacts ==
  ASSUME TypeOK, Disturb
  PROVE  /\ log' \in [Runs -> Logs \union {NoLog}]
         /\ \A q \in Runs :
              /\ log'[q] = NoLog <=> log[q] = NoLog
              /\ log[q] # NoLog =>
                   /\ log'[q].inputs = log[q].inputs
                   /\ log'[q].release = log[q].release
                   /\ log'[q].clean => log'[q] = log[q] /\ log[q].release # "no"
<1>1. SUFFICES ASSUME NEW q \in Runs
      PROVE  /\ log'[q] \in Logs \union {NoLog}
             /\ log'[q] = NoLog <=> log[q] = NoLog
             /\ log[q] # NoLog =>
                  /\ log'[q].inputs = log[q].inputs
                  /\ log'[q].release = log[q].release
                  /\ log'[q].clean => log'[q] = log[q] /\ log[q].release # "no"
  BY DEF Disturb
<1>2. log[q] \in Logs \union {NoLog}
  BY DEF TypeOK
<1>3. CASE log[q] # NoLog /\ log[q].release = "no"
  <2>1. log'[q] = [log[q] EXCEPT !.clean = FALSE]
    BY <1>3 DEF Disturb
  <2>2. log[q] \in Logs
    BY <1>2, <1>3
  <2> QED
    BY <2>1, <2>2, <1>3, DistinctAssumption DEF Logs
<1>4. CASE ~(log[q] # NoLog /\ log[q].release = "no")
  <2>1. log'[q] = log[q]
    BY <1>4 DEF Disturb
  <2> QED
    BY <2>1, <1>2, <1>4 
<1> QED
  BY <1>3, <1>4

(* The points a command can go to at its end and after its game.           *)
LEMMA Ends ==
  ASSUME NEW r \in Runs
  PROVE  /\ End(r) \in {"idle", "restore"} /\ Prepared(r) \in {"idle", "launch"}
         /\ Played(r) \in {"restore", "drift"}
BY DEF End, Prepared, Played

-----------------------------------------------------------------------------
(* Types and manifests.                                                    *)

(* A step of a command that only goes on keeps the types, if a point that  *)
(* needs a manifest has one.                                               *)
LEMMA GoOn ==
  ASSUME TypeInv, NEW r \in Runs, NEW there \in Points, Goto(r, there),
         manifest' = manifest, log' = log, completed' = completed,
         UNCHANGED <<working, rig, stager, edits>>,
         owner' \in Runs \union {NoRun}, owner' # NoRun => manifest[owner'] # NoManifest,
         games' \in SUBSET Runs, crashes' \in 0..MaxCrashes,
         \/ there \notin {"own", "drift", "complete", "launch", "play"}
         \/ there \in {"launch", "play"} /\ session[r].cmd = "boot"
         \/ manifest[r] # NoManifest
  PROVE  TypeInv'
<1>1. TypeOK /\ HasManifest
  BY DEF TypeInv
<1>2. /\ session' \in [Runs -> Sessions]
      /\ \A q \in Runs : q # r => session'[q] = session[q]
      /\ session'[r].pc = there
      /\ there # "idle" => session'[r].cmd = session[r].cmd
  BY <1>1, GotoFacts
<1>3. TypeOK'
  BY <1>1, <1>2 DEF TypeOK, rig
<1>4. HasManifest'
  BY <1>1, <1>2 DEF HasManifest
<1> QED
  BY <1>3, <1>4 DEF TypeInv

(* A step that changes neither commands nor records keeps what they need.  *)
LEMMA Elsewhere ==
  ASSUME TypeInv, UNCHANGED <<records, session, crashes>>,
         log' \in [Runs -> Logs \union {NoLog}],
         \A q \in Runs :
           /\ log'[q] = NoLog <=> log[q] = NoLog
           /\ log[q] # NoLog => log'[q].release = log[q].release,
         working' \in [Targets -> Versions], staged' \in [Mods -> Versions],
         enabled' \in SUBSET Mods, candidates' \in SUBSET Targets, games' \in SUBSET Runs,
         stager' \in [Stagers -> Staging], edits' \in 0..MaxEdits
  PROVE  TypeInv'
<1>1. TypeOK /\ HasManifest
  BY DEF TypeInv
<1>2. TypeOK'
  BY <1>1 DEF TypeOK, records
<1>3. HasManifest'
  BY <1>1 DEF HasManifest, records
<1> QED
  BY <1>2, <1>3 DEF TypeInv

(* The steps of a command keep the types.                                  *)
LEMMA TypeRunStep ==
  ASSUME TypeInv, NEW r \in Runs, RunStep(r)
  PROVE  TypeInv'
<1>1. TypeOK /\ HasManifest /\ session[r] \in Sessions
  BY DEF TypeInv, TypeOK
<1>2. /\ End(r) \in {"idle", "restore"} /\ Prepared(r) \in {"idle", "launch"}
      /\ Played(r) \in {"restore", "drift"}
      /\ Played(r) = "drift" => session[r].cmd # "boot"
  BY Ends DEF Played
<1>3. \A there : there \in {"idle", "restore", "launch", "drift", "observe", "owner", "own",
                            "play", "unlink", "disown"} => there \in Points
  BY DEF Points
<1>a. CASE BootList(r)
  <2> DEFINE there == IF session[r].cmd = "boot" THEN "launch" ELSE "owner"
  <2>1. Goto(r, there) /\ there \in Points /\ Disturb
    BY <1>a, <1>3 DEF BootList
  <2>2. /\ session' \in [Runs -> Sessions]
        /\ \A q \in Runs : q # r => session'[q] = session[q]
        /\ session'[r].pc = there /\ session'[r].cmd = session[r].cmd
    BY <1>1, <2>1, GotoFacts
  <2>3. /\ log' \in [Runs -> Logs \union {NoLog}]
        /\ \A q \in Runs :
             /\ log'[q] = NoLog <=> log[q] = NoLog
             /\ log[q] # NoLog => log'[q].release = log[q].release
    BY <1>1, <2>1, DisturbFacts
  <2>4. TypeOK'
    BY <1>1, <1>a, <2>2, <2>3 DEF TypeOK, BootList, records, counters
  <2>5. HasManifest'
    BY <1>1, <1>a, <2>2, <2>3 DEF HasManifest, BootList, records
  <2> QED
    BY <2>4, <2>5 DEF TypeInv
<1>b. CASE CheckOwner(r)
  <2> DEFINE there == IF owner \in {NoRun, r} THEN "observe" ELSE End(r)
  <2>1. Goto(r, there) /\ there \in Points
    BY <1>b, <1>2, <1>3 DEF CheckOwner
  <2>2. there \notin {"own", "drift", "complete", "launch", "play"}
    BY <1>2
  <2> HIDE DEF there
  <2> QED
    BY <1>1, <1>b, <2>1, <2>2, GoOn DEF CheckOwner, TypeOK, records, counters
<1>c. CASE Observe(r)
  <2>1. Entries \in PartialMaps(Mods)
    BY <1>1, EntriesType
  <2>2. /\ session' \in [Runs -> Sessions]
        /\ \A q \in Runs : q # r => session'[q] = session[q]
        /\ session'[r].pc = "bind"
    <3> DEFINE new == [session[r] EXCEPT !.pc = "bind", !.entries = Entries]
    <3>1. session' = [session EXCEPT ![r] = new]
      BY <1>c DEF Observe
    <3>2. new \in Sessions /\ new.pc = "bind"
      BY <1>1, <2>1 DEF Sessions, Points
    <3> HIDE DEF new
    <3> QED
      BY <1>1, <3>1, <3>2 DEF TypeOK
  <2>3. TypeOK'
    BY <1>1, <1>c, <2>2 DEF TypeOK, Observe, rig, records, counters
  <2>4. HasManifest'
    BY <1>1, <1>c, <2>2 DEF HasManifest, Observe, records
  <2> QED
    BY <2>3, <2>4 DEF TypeInv
<1>d. CASE Bind(r)
  <2>0. PICK targets \in TargetsOf(r) : BindTo(r, targets)
    BY <1>d DEF Bind
  <2>1. CASE targets \subseteq DOMAIN session[r].entries
    <3> DEFINE map == [m \in targets |-> working[m]]
               new == [session[r] EXCEPT !.pc = "write", !.bound = map]
    <3>1. session' = [session EXCEPT ![r] = new]
      BY <2>0, <2>1 DEF BindTo
    <3>2. map \in PartialMaps(Targets)
      <4>1. targets \in SUBSET Targets
        <5>1. targets \in {{}} \union {{m} : m \in Targets} \union {candidates}
          BY <2>0 DEF TargetsOf
        <5> QED
          BY <1>1, <5>1 DEF TypeOK
      <4>2. map \in [targets -> Versions]
        BY <1>1, <4>1 DEF TypeOK
      <4> QED
        BY <4>1, <4>2, PartialMapsDef
    <3>3. new \in Sessions /\ new.pc = "write"
      <4> HIDE DEF map
      <4> QED
        BY <1>1, <3>2 DEF Sessions, Points
    <3> HIDE DEF new
    <3>4. /\ session' \in [Runs -> Sessions]
          /\ \A q \in Runs : q # r => session'[q] = session[q]
          /\ session'[r].pc = "write"
      BY <1>1, <3>1, <3>3 DEF TypeOK
    <3>5. TypeOK'
      BY <1>1, <2>0, <3>4 DEF TypeOK, BindTo, rig, records, counters
    <3>6. HasManifest'
      BY <1>1, <2>0, <3>4 DEF HasManifest, BindTo, records
    <3> QED
      BY <3>5, <3>6 DEF TypeInv
  <2>2. CASE ~(targets \subseteq DOMAIN session[r].entries)
    <3>1. Goto(r, End(r))
      BY <2>0, <2>2 DEF BindTo
    <3> QED
      BY <1>1, <1>2, <1>3, <2>0, <3>1, GoOn DEF BindTo, TypeOK, records, counters
  <2> QED
    BY <2>1, <2>2
<1>e. CASE WriteManifest(r)
  <2> DEFINE body == [entries |-> session[r].entries, bound |-> session[r].bound]
  <2>1. body \in Manifests /\ body # NoManifest
    <3>1. body \in Manifests
      BY <1>1 DEF Sessions, Manifests
    <3> QED
      BY <3>1, DistinctAssumption
  <2> HIDE DEF body
  <2>2. CASE manifest[r] = NoManifest /\ manifest' = [manifest EXCEPT ![r] = body] /\ Goto(r, "own")
    <3>1. /\ session' \in [Runs -> Sessions]
          /\ \A q \in Runs : q # r => session'[q] = session[q]
          /\ session'[r].pc = "own"
      BY <1>1, <1>3, <2>2, GotoFacts
    <3>2. /\ manifest' \in [Runs -> Manifests \union {NoManifest}]
          /\ manifest'[r] # NoManifest
          /\ \A q \in Runs : manifest[q] # NoManifest => manifest'[q] # NoManifest
      BY <1>1, <2>1, <2>2 DEF TypeOK
    <3>3. TypeOK'
      BY <1>1, <1>e, <3>1, <3>2 DEF TypeOK, WriteManifest, rig, counters
    <3>4. HasManifest'
      BY <1>1, <1>e, <3>1, <3>2 DEF HasManifest, WriteManifest
    <3> QED
      BY <3>3, <3>4 DEF TypeInv
  <2>3. CASE manifest[r] = body /\ Goto(r, Prepared(r)) /\ UNCHANGED manifest
    BY <1>1, <1>2, <1>3, <1>e, <2>1, <2>3, GoOn DEF WriteManifest, TypeOK, counters
  <2>4. CASE Goto(r, End(r)) /\ UNCHANGED manifest
    BY <1>1, <1>2, <1>3, <1>e, <2>4, GoOn DEF WriteManifest, TypeOK, counters
  <2> QED
    BY <1>e, <2>2, <2>3, <2>4 DEF WriteManifest, body
<1>f. CASE TakeOwnership(r)
  <2>1. manifest[r] # NoManifest
    BY <1>1, <1>f DEF TakeOwnership, TypeOK, At
  <2> QED
    BY <1>1, <1>2, <1>3, <1>f, <2>1, GoOn DEF TakeOwnership, TypeOK, counters
<1>g. CASE Launch(r)
  <2>1. /\ session' \in [Runs -> Sessions]
        /\ \A q \in Runs : q # r => session'[q] = session[q]
        /\ session'[r].pc = "play" /\ session'[r].cmd = session[r].cmd
    BY <1>1, <1>3, <1>g, GotoFacts DEF Launch
  <2>2. session[r].cmd # "boot" => manifest[r] # NoManifest
    BY <1>1, <1>g DEF HasManifest, Launch, At
  <2> DEFINE new == [inputs |-> Entries, release |-> "no", clean |-> TRUE]
  <2>3. new \in Logs
    BY <1>1, EntriesType DEF Logs
  <2>4. new.release = "no"
    OBVIOUS
  <2>5. log' = IF session[r].cmd = "boot" THEN log ELSE [log EXCEPT ![r] = new]
    BY <1>g DEF Launch
  <2> HIDE DEF new
  <2>6. TypeOK'
    BY <1>1, <1>g, <2>1, <2>3, <2>5 DEF TypeOK, Launch, rig, records, counters
  <2>7. HasManifest'
    BY <1>1, <1>g, <2>1, <2>2, <2>4, <2>5 DEF HasManifest, Launch, records, TypeOK
  <2> QED
    BY <2>6, <2>7 DEF TypeInv
<1>h. CASE LaunchFails(r)
  <2>1. session[r].cmd # "boot" => manifest[r] # NoManifest
    BY <1>1, <1>h DEF HasManifest, LaunchFails, At
  <2> QED
    BY <1>1, <1>2, <1>3, <1>h, <2>1, GoOn DEF LaunchFails, TypeOK, records, counters
<1>i. CASE Stop(r)
  <2>1. session[r].cmd # "boot" => manifest[r] # NoManifest
    BY <1>1, <1>i DEF HasManifest, Stop, At
  <2>2. games' \in SUBSET Runs
    BY <1>1, <1>i DEF Stop, TypeOK
  <2> QED
    BY <1>1, <1>2, <1>3, <1>i, <2>1, <2>2, GoOn DEF Stop, TypeOK, records, counters
<1>j. CASE CheckDrift(r)
  <2>1. StagedDrift(r) \in BOOLEAN
    BY DEF StagedDrift
  <2>2. /\ session' \in [Runs -> Sessions]
        /\ \A q \in Runs : q # r => session'[q] = session[q]
        /\ session'[r].pc = "complete"
    <3> DEFINE new == [session[r] EXCEPT !.pc = "complete", !.drift = StagedDrift(r)]
    <3>1. session' = [session EXCEPT ![r] = new]
      BY <1>j DEF CheckDrift
    <3>2. new \in Sessions /\ new.pc = "complete"
      BY <1>1, <2>1 DEF Sessions, Points
    <3> HIDE DEF new
    <3> QED
      BY <1>1, <3>1, <3>2 DEF TypeOK
  <2>3. manifest[r] # NoManifest
    BY <1>1, <1>j DEF CheckDrift, TypeOK, At
  <2>4. TypeOK'
    BY <1>1, <1>j, <2>2, <2>3 DEF TypeOK, CheckDrift, rig, records, counters
  <2>5. HasManifest'
    BY <1>1, <1>j, <2>2 DEF HasManifest, CheckDrift, records
  <2> QED
    BY <2>4, <2>5 DEF TypeInv
<1>k. CASE Complete(r)
  <2>1. /\ session' \in [Runs -> Sessions]
        /\ \A q \in Runs : q # r => session'[q] = session[q]
        /\ session'[r].pc = "disown"
    BY <1>1, <1>3, <1>k, GotoFacts DEF Complete
  <2> DEFINE judged == IF session[r].drift THEN "drift" ELSE "clean"
             standing == IF log[r].release = "no"
                              \/ (log[r].release = "kept"
                                  /\ (session[r].drift \/ completed[r] # "drift"))
                           THEN "kept" ELSE "replaced"
             new == [log[r] EXCEPT !.release = standing]
  <2>2. /\ judged \in {"clean", "drift"}
        /\ completed' = [completed EXCEPT ![r] = judged]
        /\ standing \in {"kept", "replaced"}
        /\ log' = IF log[r] = NoLog THEN log ELSE [log EXCEPT ![r] = new]
    BY <1>k DEF Complete
  <2> HIDE DEF judged, standing
  <2>3. log[r] # NoLog => new \in Logs
    BY <1>1, <2>2 DEF TypeOK, Logs
  <2> HIDE DEF new
  <2>4. TypeOK'
    BY <1>1, <1>k, <2>1, <2>2, <2>3 DEF TypeOK, Complete, rig, counters
  <2>5. HasManifest'
    BY <1>1, <1>k, <2>1, <2>2, <2>3 DEF HasManifest, Complete, TypeOK
  <2> QED
    BY <2>4, <2>5 DEF TypeInv
<1>l. CASE Disown(r)
  <2> DEFINE there == IF owner = r THEN "unlink" ELSE End(r)
  <2>1. Goto(r, there) /\ there \in Points
    BY <1>l, <1>2, <1>3 DEF Disown
  <2>2. there \notin {"own", "drift", "complete", "launch", "play"}
    BY <1>2
  <2> HIDE DEF there
  <2> QED
    BY <1>1, <1>l, <2>1, <2>2, GoOn DEF Disown, TypeOK, records, counters
<1>m. CASE Unlink(r)
  BY <1>1, <1>2, <1>3, <1>m, GoOn DEF Unlink, TypeOK, counters
<1>n. CASE Restore(r)
  <2>1. Goto(r, "idle") /\ Disturb
    BY <1>n DEF Restore
  <2>2. /\ session' \in [Runs -> Sessions]
        /\ \A q \in Runs : q # r => session'[q] = session[q]
        /\ session'[r].pc = "idle"
    BY <1>1, <1>3, <2>1, GotoFacts
  <2>3. /\ log' \in [Runs -> Logs \union {NoLog}]
        /\ \A q \in Runs :
             /\ log'[q] = NoLog <=> log[q] = NoLog
             /\ log[q] # NoLog => log'[q].release = log[q].release
    BY <1>1, <2>1, DisturbFacts
  <2>4. enabled' \in SUBSET Mods
    BY <1>1, <1>n DEF Restore, TypeOK, Sessions
  <2>5. TypeOK'
    BY <1>1, <1>n, <2>2, <2>3, <2>4 DEF TypeOK, Restore, records, counters
  <2>6. HasManifest'
    BY <1>1, <1>n, <2>2, <2>3 DEF HasManifest, Restore, records
  <2> QED
    BY <2>5, <2>6 DEF TypeInv
<1> QED
  BY <1>a, <1>b, <1>c, <1>d, <1>e, <1>f, <1>g, <1>h, <1>i, <1>j, <1>k, <1>l, <1>m, <1>n
  DEF RunStep

(* A staging command keeps its own type.                                   *)
LEMMA StagerGotoFacts ==
  ASSUME TypeOK, NEW s \in Stagers, NEW there \in {"idle", "list", "forget", "record"},
         StagerGoto(s, there)
  PROVE  stager' \in [Stagers -> Staging]
<1> DEFINE new == IF there = "idle" THEN NoStaging ELSE [stager[s] EXCEPT !.pc = there]
<1>1. stager \in [Stagers -> Staging] /\ stager[s] \in Staging
  BY DEF TypeOK
<1>2. stager' = [stager EXCEPT ![s] = new]
  BY DEF StagerGoto
<1>3. new \in Staging
  BY <1>1, Resting DEF Staging
<1> HIDE DEF new
<1> QED
  BY <1>1, <1>2, <1>3

(* Its steps keep the types.                                               *)
LEMMA TypeStagerStep ==
  ASSUME TypeInv, NEW s \in Stagers, StagerStep(s)
  PROVE  TypeInv'
<1>1. TypeOK /\ stager[s] \in Staging
  BY DEF TypeInv, TypeOK
<1> DEFINE LogKept ==
      /\ log' \in [Runs -> Logs \union {NoLog}]
      /\ \A q \in Runs :
           /\ log'[q] = NoLog <=> log[q] = NoLog
           /\ log[q] # NoLog => log'[q].release = log[q].release
<1>2. UNCHANGED log => LogKept
  BY <1>1 DEF TypeOK
<1>3. Disturb => LogKept
  BY <1>1, DisturbFacts
<1> HIDE DEF LogKept
<1>a. ASSUME NEW cmd \in {"rig-up", "install"}, NEW group \in SUBSET Targets \ {{}},
             BeginStaging(s, cmd, group)
      PROVE  TypeInv'
  <2> DEFINE new == [pc |-> "sync", cmd |-> cmd, group |-> group, left |-> group]
  <2>1. new \in Staging
    BY DEF Staging
  <2>2. stager' = [stager EXCEPT ![s] = new]
    BY <1>a DEF BeginStaging
  <2> HIDE DEF new
  <2>3. stager' \in [Stagers -> Staging]
    BY <1>1, <2>1, <2>2 DEF TypeOK
  <2> QED
    BY <1>1, <1>2, <1>a, <2>3, Elsewhere DEF BeginStaging, LogKept, TypeOK, rig, counters
<1>b. ASSUME NEW m \in Targets, Sync(s, m) PROVE TypeInv'
  <2> DEFINE new == [stager[s] EXCEPT !.left = @ \ {m}]
  <2>1. new \in Staging
    BY <1>1 DEF Staging
  <2>2. stager' = [stager EXCEPT ![s] = new]
    BY <1>b DEF Sync
  <2> HIDE DEF new
  <2>3. stager' \in [Stagers -> Staging]
    BY <1>1, <2>1, <2>2 DEF TypeOK
  <2>4. staged' \in [Mods -> Versions]
    BY <1>1, <1>b, TargetsAssumption DEF Sync, TypeOK
  <2>5. LogKept
    BY <1>2, <1>3, <1>b DEF Sync
  <2> QED
    BY <1>1, <1>b, <2>3, <2>4, <2>5, Elsewhere DEF Sync, LogKept, TypeOK, counters
<1>c. CASE Synced(s)
  <2>1. stager' \in [Stagers -> Staging]
    BY <1>1, <1>c, StagerGotoFacts DEF Synced
  <2> QED
    BY <1>1, <1>2, <1>c, <2>1, Elsewhere DEF Synced, LogKept, TypeOK, rig, counters
<1>d. CASE WriteList(s)
  <2>1. stager' \in [Stagers -> Staging]
    BY <1>1, <1>d, StagerGotoFacts DEF WriteList
  <2> QED
    BY <1>1, <1>3, <1>d, <2>1, Elsewhere DEF WriteList, LogKept, TypeOK, counters
<1>e. CASE WriteState(s)
  <2>1. stager' \in [Stagers -> Staging]
    BY <1>1, <1>e, StagerGotoFacts DEF WriteState
  <2> QED
    BY <1>1, <1>2, <1>e, <2>1, Elsewhere DEF WriteState, LogKept, TypeOK, counters
<1>f. CASE RecordCandidates(s)
  <2>1. stager' \in [Stagers -> Staging]
    BY <1>1, <1>f, StagerGotoFacts DEF RecordCandidates
  <2>2. stager[s].group \in SUBSET Targets
    BY <1>1 DEF Staging
  <2> QED
    BY <1>1, <1>2, <1>f, <2>1, <2>2, Elsewhere DEF RecordCandidates, LogKept, TypeOK, counters
<1>g. CASE StagingFails(s)
  <2>1. stager' \in [Stagers -> Staging]
    BY <1>1, <1>g, StagerGotoFacts DEF StagingFails
  <2> QED
    BY <1>1, <1>2, <1>g, <2>1, Elsewhere DEF StagingFails, LogKept, TypeOK, rig, counters
<1> QED
  BY <1>a, <1>b, <1>c, <1>d, <1>e, <1>f, <1>g DEF StagerStep

(* A command that starts keeps the types.                                  *)
LEMMA TypeBegin ==
  ASSUME TypeInv, NEW r \in Runs, NEW cmd \in Given, Begin(r, cmd)
  PROVE  TypeInv'
<1>1. TypeOK /\ HasManifest /\ session[r] \in Sessions
  BY DEF TypeInv, TypeOK
<1> DEFINE there == CASE cmd \in BootTests -> "list" [] cmd = "release" -> "drift"
                      [] OTHER -> "owner"
           kept == IF cmd \in BootTests THEN enabled ELSE {}
           new == [session[r] EXCEPT !.pc = there, !.cmd = cmd, !.saved = kept]
<1>2. session' = [session EXCEPT ![r] = new]
  BY DEF Begin
<1>3. /\ there \in {"list", "owner", "drift"}
      /\ there = "drift" => cmd = "release"
      /\ kept \in SUBSET Mods
  BY <1>1 DEF BootTests, TypeOK
<1> HIDE DEF there, kept
<1>4. new \in Sessions /\ new.pc = there
  BY <1>1, <1>3, GivenAssumption DEF Sessions, Points
<1> HIDE DEF new
<1>5. /\ session' \in [Runs -> Sessions]
      /\ \A q \in Runs : q # r => session'[q] = session[q]
      /\ session'[r].pc = there
  BY <1>1, <1>2, <1>4 DEF TypeOK
<1>6. there = "drift" => manifest[r] # NoManifest
  BY <1>3 DEF Begin
<1>7. TypeOK'
  BY <1>1, <1>3, <1>5, <1>6 DEF TypeOK, Begin, rig, records, counters
<1>8. HasManifest'
  BY <1>1, <1>3, <1>5 DEF HasManifest, Begin, records
<1> QED
  BY <1>7, <1>8 DEF TypeInv

(* Every step keeps the types.                                             *)
LEMMA TypeStep ==
  ASSUME TypeInv, [Next]_vars
  PROVE  TypeInv'
<1>1. TypeOK /\ HasManifest
  BY DEF TypeInv
<1>2. log' = log =>
        /\ log' \in [Runs -> Logs \union {NoLog}]
        /\ \A q \in Runs :
             /\ log'[q] = NoLog <=> log[q] = NoLog
             /\ log[q] # NoLog => log'[q].release = log[q].release
  BY <1>1 DEF TypeOK
<1>a. ASSUME NEW r \in Runs, Interrupted(r) PROVE TypeInv'
  <2>1. crashes' \in 0..MaxCrashes
    BY <1>1, <1>a, MaxCrashesAssumption DEF Interrupted, TypeOK
  <2>2. "idle" \in Points
    BY DEF Points
  <2> QED
    BY <1>1, <1>a, <2>1, <2>2, GoOn DEF Interrupted, TypeOK, records
<1>b. CASE Reset
  <2>1. /\ log' \in [Runs -> Logs \union {NoLog}]
        /\ \A q \in Runs :
             /\ log'[q] = NoLog <=> log[q] = NoLog
             /\ log[q] # NoLog => log'[q].release = log[q].release
    BY <1>1, <1>b, DisturbFacts DEF Reset
  <2> QED
    BY <1>1, <1>b, <2>1, Elsewhere DEF Reset, TypeOK, counters
<1>c. CASE GameExits
  BY <1>1, <1>2, <1>c, Elsewhere DEF GameExits, TypeOK, rig, counters
<1>d. CASE EditWorking
  <2>1. edits' \in 0..MaxEdits /\ edits' = edits + 1
    BY <1>1, <1>d, MaxEditsAssumption DEF EditWorking, TypeOK
  <2>2. working' \in [Targets -> Versions]
    BY <1>1, <1>d, <2>1 DEF EditWorking, TypeOK, Versions
  <2> QED
    BY <1>1, <1>2, <1>d, <2>1, <2>2, Elsewhere DEF EditWorking, TypeOK, rig
<1>e. CASE Tamper
  <2>1. edits' \in 0..MaxEdits /\ edits' = edits + 1
    BY <1>1, <1>e, MaxEditsAssumption DEF Tamper, TypeOK
  <2>2. staged' \in [Mods -> Versions]
    BY <1>1, <1>e, <2>1 DEF Tamper, TypeOK, Versions
  <2> QED
    BY <1>1, <1>2, <1>e, <2>1, <2>2, Elsewhere DEF Tamper, TypeOK
<1>f. CASE UNCHANGED vars
  BY <1>1, <1>2, <1>f, Elsewhere DEF vars, records, TypeOK
<1> QED
  BY <1>a, <1>b, <1>c, <1>d, <1>e, <1>f, TypeBegin, TypeRunStep, TypeStagerStep DEF Next, Surroundings

(* The initial state has its types.                                        *)
LEMMA TypeInit == Init => TypeInv
<1> SUFFICES ASSUME Init PROVE TypeInv
  OBVIOUS
<1>1. 0 \in Versions
  BY MaxEditsAssumption DEF Versions
<1>2. TypeOK
  BY <1>1, Resting, MaxEditsAssumption, MaxCrashesAssumption, NoRunAssumption DEF Init, TypeOK, NoSession
<1>3. HasManifest
  BY DEF Init, HasManifest, NoSession
<1> QED
  BY <1>2, <1>3 DEF TypeInv

(* Every variable keeps its type, and a run that owns the rig or is past   *)
(* its preparation has a manifest, for any number of runs and commands.    *)
THEOREM TypeCorrect == Spec => []TypeOK
<1>1. TypeInv => TypeOK
  BY DEF TypeInv
<1> QED
  BY <1>1, TypeInit, TypeStep, PTL DEF Spec

-----------------------------------------------------------------------------
(* What a run id's step leaves alone.                                      *)

OwnStep(r) == RunStep(r) \/ Interrupted(r) \/ \E cmd \in Given : Begin(r, cmd)

(* It concerns no other run id, neither working copies nor staged files;   *)
(* it writes a manifest only when there is none, from what it has hashed;  *)
(* and only the comparison at release leads to the completion record.      *)
LEMMA OwnStepFrame ==
  ASSUME TypeInv, NEW r \in Runs, OwnStep(r)
  PROVE  /\ UNCHANGED <<working, staged, edits>>
         /\ \A q \in Runs : q # r => session'[q] = session[q] /\ manifest'[q] = manifest[q]
         /\ \/ manifest'[r] = manifest[r]
            \/ manifest[r] = NoManifest /\ manifest'[r].entries = session[r].entries
         /\ session'[r].entries \in {session[r].entries, Empty, Entries}
         /\ session'[r].pc = "complete" => CheckDrift(r)
<1>1. TypeOK /\ session[r] \in Sessions
  BY DEF TypeInv, TypeOK
<1>2. \A there \in Points \ {"complete"} : Goto(r, there) =>
        /\ \A q \in Runs : q # r => session'[q] = session[q]
        /\ session'[r].entries = Empty
        /\ session'[r].pc # "complete"
  BY <1>1, GotoFacts
<1>3. /\ End(r) \in Points \ {"complete"} /\ Prepared(r) \in Points \ {"complete"}
      /\ Played(r) \in Points \ {"complete"}
  BY DEF End, Prepared, Played, Points
<1>4. \A there : there \in {"idle", "restore", "launch", "drift", "observe", "owner", "own",
                            "play", "unlink", "disown"} => there \in Points \ {"complete"}
  BY DEF Points
<1>5. SUFFICES ASSUME TRUE
      PROVE  /\ UNCHANGED <<working, staged, edits>>
             /\ \/ UNCHANGED manifest
                \/ /\ manifest[r] = NoManifest
                   /\ manifest' = [manifest EXCEPT ![r] = [entries |-> session[r].entries,
                                                           bound |-> session[r].bound]]
             /\ \A q \in Runs : q # r => session'[q] = session[q]
             /\ session'[r].entries \in {session[r].entries, Empty, Entries}
             /\ session'[r].pc = "complete" => CheckDrift(r)
  BY <1>1 DEF TypeOK
<1>a. CASE BootList(r)
  BY <1>a, <1>2, <1>4 DEF BootList, records, counters
<1>b. CASE CheckOwner(r)
  BY <1>b, <1>2, <1>3, <1>4 DEF CheckOwner, rig, records, counters
<1>c. CASE Observe(r)
  <2> DEFINE new == [session[r] EXCEPT !.pc = "bind", !.entries = Entries]
  <2>1. session' = [session EXCEPT ![r] = new]
    BY <1>c DEF Observe
  <2>2. new.pc = "bind" /\ new.entries = Entries
    BY <1>1 DEF Sessions
  <2> HIDE DEF new
  <2> QED
    BY <1>1, <1>c, <2>1, <2>2 DEF Observe, TypeOK, rig, records, counters
<1>d. CASE Bind(r)
  <2>0. PICK targets \in TargetsOf(r) : BindTo(r, targets)
    BY <1>d DEF Bind
  <2>1. CASE targets \subseteq DOMAIN session[r].entries
    <3> DEFINE map == [m \in targets |-> working[m]]
               new == [session[r] EXCEPT !.pc = "write", !.bound = map]
    <3>1. session' = [session EXCEPT ![r] = new]
      BY <2>0, <2>1 DEF BindTo
    <3>2. new.pc = "write" /\ new.entries = session[r].entries
      <4> HIDE DEF map
      <4> QED
        BY <1>1 DEF Sessions
    <3> HIDE DEF new
    <3> QED
      BY <1>1, <2>0, <3>1, <3>2 DEF BindTo, TypeOK, rig, records, counters
  <2>2. CASE ~(targets \subseteq DOMAIN session[r].entries)
    <3>1. Goto(r, End(r))
      BY <2>0, <2>2 DEF BindTo
    <3> QED
      BY <2>0, <1>2, <1>3, <3>1 DEF BindTo, rig, records, counters
  <2> QED
    BY <2>1, <2>2
<1>e. CASE WriteManifest(r)
  BY <1>e, <1>2, <1>3, <1>4 DEF WriteManifest, rig, counters
<1>f. CASE TakeOwnership(r)
  BY <1>f, <1>2, <1>3 DEF TakeOwnership, rig, counters
<1>g. CASE Launch(r)
  BY <1>g, <1>2, <1>4 DEF Launch, rig, records, counters
<1>h. CASE LaunchFails(r)
  BY <1>h, <1>2, <1>3 DEF LaunchFails, rig, records, counters
<1>i. CASE Stop(r)
  BY <1>i, <1>2, <1>3 DEF Stop, rig, records, counters
<1>j. CASE CheckDrift(r)
  <2> DEFINE new == [session[r] EXCEPT !.pc = "complete", !.drift = StagedDrift(r)]
  <2>1. session' = [session EXCEPT ![r] = new]
    BY <1>j DEF CheckDrift
  <2>2. new.entries = session[r].entries
    BY <1>1 DEF Sessions
  <2> HIDE DEF new
  <2> QED
    BY <1>1, <1>j, <2>1, <2>2 DEF CheckDrift, TypeOK, rig, records, counters
<1>k. CASE Complete(r)
  BY <1>k, <1>2, <1>4 DEF Complete, rig, counters
<1>l. CASE Disown(r)
  BY <1>l, <1>2, <1>3, <1>4 DEF Disown, rig, records, counters
<1>m. CASE Unlink(r)
  BY <1>m, <1>2, <1>3 DEF Unlink, rig, counters
<1>n. CASE Restore(r)
  BY <1>n, <1>2, <1>4 DEF Restore, records, counters
<1>o. CASE Interrupted(r)
  BY <1>o, <1>2, <1>4 DEF Interrupted, rig, records
<1>p. ASSUME NEW cmd \in Given, Begin(r, cmd)
      PROVE  /\ UNCHANGED <<working, staged, edits, manifest>>
             /\ \A q \in Runs : q # r => session'[q] = session[q]
             /\ session'[r].entries = session[r].entries
             /\ session'[r].pc # "complete"
  <2> DEFINE there == CASE cmd \in BootTests -> "list" [] cmd = "release" -> "drift"
                        [] OTHER -> "owner"
             kept == IF cmd \in BootTests THEN enabled ELSE {}
             new == [session[r] EXCEPT !.pc = there, !.cmd = cmd, !.saved = kept]
  <2>1. session' = [session EXCEPT ![r] = new]
    BY <1>p DEF Begin
  <2>2. there # "complete"
    OBVIOUS
  <2> HIDE DEF there, kept
  <2>3. new.pc = there /\ new.entries = session[r].entries
    BY <1>1 DEF Sessions
  <2> HIDE DEF new
  <2> QED
    BY <1>1, <1>p, <2>1, <2>2, <2>3 DEF Begin, TypeOK, rig, records, counters
<1> QED
  BY <1>a, <1>b, <1>c, <1>d, <1>e, <1>f, <1>g, <1>h, <1>i, <1>j, <1>k, <1>l, <1>m, <1>n,
     <1>o, <1>p DEF OwnStep, RunStep

(* The staging commands and the surroundings leave the runs alone.         *)
LEMMA OtherStepFrame ==
  ASSUME [Next]_vars, \A r \in Runs : ~OwnStep(r)
  PROVE  UNCHANGED <<session, manifest, completed>>
<1>1. ASSUME NEW s \in Stagers, StagerStep(s) PROVE UNCHANGED <<session, manifest, completed>>
  BY <1>1 DEF StagerStep, BeginStaging, Sync, Synced, WriteList, WriteState,
     RecordCandidates, StagingFails, records
<1>2. Reset \/ GameExits \/ EditWorking \/ Tamper => UNCHANGED <<session, manifest, completed>>
  BY DEF Reset, GameExits, EditWorking, Tamper, records
<1>3. UNCHANGED vars => UNCHANGED <<session, manifest, completed>>
  BY DEF vars
<1> QED
  BY <1>1, <1>2, <1>3 DEF Next, Surroundings, OwnStep

LEMMA ManifestKept ==
  ASSUME TypeInv, [Next]_vars
  PROVE  KeepsManifests
BY OwnStepFrame, OtherStepFrame DEF KeepsManifests

(* A run id keeps the manifest it has, whatever is prepared, run again,    *)
(* released or cut off, for any number of runs and commands.               *)
THEOREM ManifestsStayHolds == Spec => ManifestsStay
<1>1. TypeInv /\ [Next]_vars => [KeepsManifests]_vars
  BY ManifestKept
<1> QED
  BY <1>1, TypeInit, TypeStep, PTL DEF Spec, ManifestsStay

-----------------------------------------------------------------------------
(* Nothing was seen that was not made.                                     *)

(* The bound on the versions of a partial map grows with the bound.        *)
LEMMA UpToMore ==
  ASSUME NEW S, NEW f \in PartialMaps(S), NEW n \in Nat, NEW k \in Nat, n <= k, UpTo(f, n)
  PROVE  UpTo(f, k)
<1>1. PICK D \in SUBSET S : f \in [D -> Versions]
  BY PartialMapsDef
<1> QED
  BY <1>1, MaxEditsAssumption DEF UpTo, Versions

(* When versions are only added, and what a command holds or a manifest    *)
(* records is as before or read from the rig, everything seen was made.    *)
LEMMA SeenFrame ==
  ASSUME TypeInv, Seen, edits' \in Nat, edits <= edits',
         UpTo(working', edits'), UpTo(staged', edits'),
         \A r \in Runs :
           /\ session'[r].entries = session[r].entries \/ UpTo(session'[r].entries, edits')
           /\ \/ manifest'[r] = manifest[r]
              \/ manifest'[r].entries = session[r].entries
  PROVE  Seen'
<1>1. SUFFICES ASSUME NEW r \in Runs
      PROVE  /\ UpTo(session'[r].entries, edits')
             /\ manifest'[r] # NoManifest => UpTo(manifest'[r].entries, edits')
  BY DEF Seen
<1>2. edits \in Nat /\ session[r].entries \in PartialMaps(Mods)
  <2>1. session[r] \in Sessions /\ edits \in 0..MaxEdits
    BY DEF TypeInv, TypeOK
  <2>2. edits \in Nat
    BY <2>1, MaxEditsAssumption
  <2>3. session[r].entries \in PartialMaps(Mods)
    BY <2>1 DEF Sessions
  <2> QED
    BY <2>2, <2>3
<1>3. manifest[r] # NoManifest => manifest[r].entries \in PartialMaps(Mods)
  <2>1. manifest[r] \in Manifests \union {NoManifest}
    BY DEF TypeInv, TypeOK
  <2> QED
    BY <2>1 DEF Manifests
<1>4. UpTo(session[r].entries, edits')
  BY <1>2, UpToMore DEF Seen
<1>5. manifest[r] # NoManifest => UpTo(manifest[r].entries, edits')
  BY <1>2, <1>3, UpToMore DEF Seen
<1> QED
  BY <1>4, <1>5

(* Every step keeps it so.                                                 *)
LEMMA SeenStep ==
  ASSUME TypeInv, Seen, [Next]_vars
  PROVE  Seen'
<1>1. /\ TypeOK /\ edits \in Nat /\ edits <= edits + 1 /\ edits + 1 \in Nat
      /\ working \in [Targets -> Nat] /\ staged \in [Mods -> Nat]
  BY MaxEditsAssumption DEF TypeInv, TypeOK, Versions
<1>2. UpTo(working, edits) /\ UpTo(staged, edits) /\ edits <= edits
  BY <1>1 DEF Seen
<1>a. ASSUME NEW r \in Runs, OwnStep(r) PROVE Seen'
  <2>1. UpTo(Entries, edits) /\ UpTo(Empty, edits)
    BY <1>1, <1>2 DEF UpTo, Entries, Empty, TypeOK
  <2>2. /\ UNCHANGED <<working, staged, edits>>
        /\ session'[r].entries \in {session[r].entries, Empty, Entries}
        /\ \A q \in Runs : q # r => session'[q] = session[q] /\ manifest'[q] = manifest[q]
        /\ \/ manifest'[r] = manifest[r]
           \/ manifest'[r].entries = session[r].entries
    BY <1>a, OwnStepFrame
  <2>3. session'[r].entries = session[r].entries \/ UpTo(session'[r].entries, edits)
    BY <2>1, <2>2
  <2> QED
    BY <1>1, <1>2, <2>2, <2>3, SeenFrame
<1>b. CASE \A r \in Runs : ~OwnStep(r)
  <2>1. UNCHANGED <<session, manifest>>
    BY <1>b, OtherStepFrame
  <2>2. UNCHANGED <<working, staged, edits>> => Seen'
    BY <1>1, <1>2, <2>1, SeenFrame
  <2>3. ASSUME NEW s \in Stagers, NEW m \in Targets, Sync(s, m) PROVE Seen'
    <3>1. UNCHANGED <<working, edits>> /\ staged' = [staged EXCEPT ![m] = working[m]]
      BY <2>3 DEF Sync, counters
    <3>2. UpTo(staged', edits)
      BY <1>1, <1>2, <3>1 DEF UpTo
    <3> QED
      BY <1>1, <1>2, <2>1, <3>1, <3>2, SeenFrame
  <2>4. CASE EditWorking
    <3>1. PICK m \in Targets : working' = [working EXCEPT ![m] = edits + 1]
      BY <2>4 DEF EditWorking
    <3>2. UNCHANGED staged /\ edits' = edits + 1
      BY <2>4 DEF EditWorking, rig
    <3>3. UpTo(working', edits') /\ UpTo(staged', edits')
      BY <1>1, <1>2, <3>1, <3>2 DEF UpTo
    <3> QED
      BY <1>1, <2>1, <3>2, <3>3, SeenFrame
  <2>5. CASE Tamper
    <3>1. PICK m \in Mods : staged' = [staged EXCEPT ![m] = edits + 1]
      BY <2>5 DEF Tamper
    <3>2. UNCHANGED working /\ edits' = edits + 1
      BY <2>5 DEF Tamper
    <3>3. UpTo(working', edits') /\ UpTo(staged', edits')
      BY <1>1, <1>2, <3>1, <3>2 DEF UpTo
    <3> QED
      BY <1>1, <2>1, <3>2, <3>3, SeenFrame
  <2>6. ASSUME NEW s \in Stagers, StagerStep(s), \A m \in Targets : ~Sync(s, m)
        PROVE  UNCHANGED <<working, staged, edits>>
    BY <2>6 DEF StagerStep, BeginStaging, Synced, WriteList, WriteState, RecordCandidates,
       StagingFails, rig, counters
  <2>7. Reset \/ GameExits => UNCHANGED <<working, staged, edits>>
    BY DEF Reset, GameExits, rig, counters
  <2>8. UNCHANGED vars => UNCHANGED <<working, staged, edits>>
    BY DEF vars
  <2> QED
    BY <1>b, <2>2, <2>3, <2>4, <2>5, <2>6, <2>7, <2>8 DEF Next, Surroundings, OwnStep
<1> QED
  BY <1>a, <1>b

-----------------------------------------------------------------------------
(* What the records say of what the game loaded.                           *)

(* Steps that change neither the rig nor what was recorded of it.          *)
LEMMA TracedQuiet ==
  ASSUME Traced, UNCHANGED <<log, completed>>, Entries' = Entries,
         \A q \in Runs :
           /\ log[q] # NoLog => manifest'[q] = manifest[q]
           /\ session'[q].pc = "complete" => session'[q] = session[q]
  PROVE  Traced'
BY DEF Traced, Loaded

(* Steps that change the rig, and say so.                                  *)
LEMMA TracedDisturbed ==
  ASSUME TypeInv, Traced, Disturb, UNCHANGED <<manifest, completed>>
  PROVE  Traced'
<1>1. TypeOK
  BY DEF TypeInv
<1>2. \A q \in Runs :
        log'[q] # NoLog /\ log'[q].clean =>
          log[q] # NoLog /\ log'[q] = log[q] /\ log[q].release # "no"
  BY <1>1, DisturbFacts
<1> QED
  BY <1>2 DEF Traced, Loaded

(* The steps of a run id: its game loads the rig; the comparison at        *)
(* release is one with what it loaded; and the record keeps its answer,    *)
(* unless it had found drift before.                                       *)
LEMMA TracedOwnStep ==
  ASSUME TypeInv, Traced, NEW r \in Runs, OwnStep(r)
  PROVE  Traced'
<1>1. TypeOK /\ HasManifest
  BY DEF TypeInv
<1>2. /\ \A q \in Runs : q # r => session'[q] = session[q] /\ manifest'[q] = manifest[q]
      /\ session'[r].pc = "complete" => CheckDrift(r)
      /\ UNCHANGED staged
  BY OwnStepFrame
<1>3. \A q \in Runs : log[q] # NoLog => manifest'[q] = manifest[q]
  BY <1>1, OwnStepFrame DEF HasManifest
<1>a. CASE BootList(r) \/ Restore(r)
  BY <1>a, TracedDisturbed DEF BootList, Restore, records
<1>b. CASE Launch(r)
  <2> DEFINE new == [inputs |-> Entries, release |-> "no", clean |-> TRUE]
  <2>1. log' = IF session[r].cmd = "boot" THEN log ELSE [log EXCEPT ![r] = new]
    BY <1>b DEF Launch
  <2>2. new.inputs = Entries /\ new.release = "no"
    OBVIOUS
  <2> HIDE DEF new
  <2>3. UNCHANGED <<manifest, completed>> /\ Entries' = Entries
    BY <1>b DEF Launch, rig, records, Entries
  <2>4. session'[r].pc # "complete"
    BY <1>1, <1>b, <1>2 DEF Launch, CheckDrift, At
  <2>5. \A q \in Runs : q # r => log'[q] = log[q] /\ session'[q] = session[q]
    BY <1>1, <1>2, <2>1 DEF TypeOK
  <2>6. log'[r] \in {log[r], new}
    BY <1>1, <2>1 DEF TypeOK
  <2> QED
    BY <2>2, <2>3, <2>4, <2>5, <2>6 DEF Traced, Loaded
<1>c. CASE CheckDrift(r)
  <2> DEFINE new == [session[r] EXCEPT !.pc = "complete", !.drift = StagedDrift(r)]
  <2>1. session' = [session EXCEPT ![r] = new]
    BY <1>c DEF CheckDrift
  <2>2. session[r] \in Sessions
    BY <1>1 DEF TypeOK
  <2>3. new.drift = StagedDrift(r)
    BY <2>2 DEF Sessions
  <2> HIDE DEF new
  <2>4. session'[r].drift = StagedDrift(r)
    BY <1>1, <2>1, <2>3 DEF TypeOK
  <2>5. UNCHANGED <<manifest, completed, log>> /\ Entries' = Entries
    BY <1>c DEF CheckDrift, rig, records, Entries
  <2> QED
    BY <1>2, <2>4, <2>5 DEF Traced, Loaded, StagedDrift
<1>d. CASE Complete(r)
  <2> DEFINE judged == IF session[r].drift THEN "drift" ELSE "clean"
             standing == IF log[r].release = "no"
                              \/ (log[r].release = "kept"
                                  /\ (session[r].drift \/ completed[r] # "drift"))
                           THEN "kept" ELSE "replaced"
             new == [log[r] EXCEPT !.release = standing]
  <2>1. /\ completed' = [completed EXCEPT ![r] = judged]
        /\ log' = IF log[r] = NoLog THEN log ELSE [log EXCEPT ![r] = new]
        /\ session[r].pc = "complete"
    BY <1>d DEF Complete, At
  <2>2. UNCHANGED manifest /\ Entries' = Entries
    BY <1>d DEF Complete, rig, Entries
  <2>3. \A q \in Runs : q # r =>
          log'[q] = log[q] /\ session'[q] = session[q] /\ completed'[q] = completed[q]
    BY <1>1, <1>2, <2>1 DEF TypeOK
  <2>4. CASE log[r] = NoLog
    BY <2>1, <2>2, <2>3, <2>4 DEF Traced, Loaded
  <2>5. CASE log[r] # NoLog
    <3>1. log[r] \in Logs /\ completed[r] \in {"none", "clean", "drift"}
      BY <1>1, <2>5 DEF TypeOK
    <3>2. /\ new.inputs = log[r].inputs /\ new.clean = log[r].clean
          /\ new.release = standing
      BY <3>1 DEF Logs
    <3>3. log'[r] = new /\ completed'[r] = judged
      BY <1>1, <2>1, <2>5 DEF TypeOK
    <3>4. judged = "clean" /\ standing = "kept" =>
            /\ ~session[r].drift
            /\ log[r].release = "no" \/ (log[r].release = "kept" /\ completed[r] # "drift")
      OBVIOUS
    <3>5. standing # "no"
      OBVIOUS
    <3> HIDE DEF judged, standing, new
    <3>6. log[r].release # "no" => completed[r] # "none"
      BY <1>1, <2>5 DEF HasManifest
    <3>7. log[r].clean /\ judged = "clean" /\ standing = "kept" => Loaded(r)
      BY <2>1, <2>5, <3>1, <3>4, <3>6 DEF Traced
    <3> QED
      BY <2>2, <2>3, <3>2, <3>3, <3>5, <3>7 DEF Traced, Loaded
  <2> QED
    BY <2>4, <2>5
<1>e. ASSUME UNCHANGED <<log, completed, enabled>>, ~CheckDrift(r) PROVE Traced'
  <2>1. Entries' = Entries
    BY <1>2, <1>e DEF Entries
  <2>2. \A q \in Runs : session'[q].pc = "complete" => session'[q] = session[q]
    BY <1>2, <1>e
  <2> QED
    BY <1>3, <1>e, <2>1, <2>2, TracedQuiet
<1>f. CASE CheckOwner(r) \/ Observe(r) \/ Bind(r) \/ WriteManifest(r)
  BY <1>e, <1>c, <1>f DEF CheckOwner, Observe, Bind, BindTo, WriteManifest, rig, records
<1>g. CASE TakeOwnership(r) \/ LaunchFails(r) \/ Stop(r) \/ Disown(r) \/ Unlink(r)
  BY <1>e, <1>c, <1>g DEF TakeOwnership, LaunchFails, Stop, Disown, Unlink, rig, records
<1>h. CASE Interrupted(r) \/ \E cmd \in Given : Begin(r, cmd)
  BY <1>e, <1>c, <1>h DEF Interrupted, Begin, rig, records
<1> QED
  BY <1>a, <1>b, <1>c, <1>d, <1>f, <1>g, <1>h DEF OwnStep, RunStep

(* Every step keeps it so.  Other commands that write into the rig say so; *)
(* a staged file changed behind their backs gets a version no manifest     *)
(* has, and the rig is never again what that manifest says.                *)
LEMMA TracedStep ==
  ASSUME TypeInv, Seen, Traced, [Next]_vars
  PROVE  Traced'
<1>1. TypeOK /\ HasManifest /\ edits \in Nat /\ staged \in [Mods -> Versions]
  BY MaxEditsAssumption DEF TypeInv, TypeOK
<1>2. CASE \E r \in Runs : OwnStep(r)
  BY <1>2, TracedOwnStep
<1>3. CASE \A r \in Runs : ~OwnStep(r)
  <2>1. UNCHANGED <<session, manifest, completed>>
    BY <1>3, OtherStepFrame
  <2>2. Disturb => Traced'
    BY <2>1, TracedDisturbed
  <2>3. UNCHANGED <<log, staged, enabled>> => Traced'
    <3>1. UNCHANGED <<staged, enabled>> => Entries' = Entries
      BY DEF Entries
    <3> QED
      BY <2>1, <3>1, TracedQuiet
  <2>4. CASE Tamper
    <3>1. PICK m \in Mods : staged' = [staged EXCEPT ![m] = edits + 1]
      BY <2>4 DEF Tamper
    <3>2. UNCHANGED <<log, enabled>>
      BY <2>4 DEF Tamper
    <3>3. ASSUME NEW q \in Runs, manifest[q] # NoManifest, Entries' = manifest[q].entries
          PROVE  Entries = manifest[q].entries
      <4>1. m \notin enabled
        <5>1. SUFFICES ASSUME m \in enabled PROVE FALSE
          OBVIOUS
        <5>2. m \in DOMAIN Entries' /\ Entries'[m] = edits + 1
          BY <1>1, <3>1, <3>2, <5>1 DEF Entries
        <5>3. manifest[q].entries[m] <= edits
          BY <3>3, <5>2 DEF Seen, UpTo
        <5> QED
          BY <1>1, <3>3, <5>2, <5>3
      <4>2. Entries' = Entries
        BY <1>1, <3>1, <3>2, <4>1 DEF Entries
      <4> QED
        BY <3>3, <4>2
    <3>4. \A q \in Runs : log[q] # NoLog => manifest[q] # NoManifest
      BY <1>1 DEF HasManifest
    <3> QED
      BY <2>1, <3>2, <3>3, <3>4 DEF Traced, Loaded
  <2>5. ASSUME NEW s \in Stagers, NEW m \in Targets, Sync(s, m) PROVE Traced'
    <3>1. CASE staged[m] = working[m]
      <4>1. UNCHANGED <<log, staged, enabled>>
        BY <1>1, <2>5, <3>1 DEF Sync
      <4> QED
        BY <2>3, <4>1
    <3>2. CASE staged[m] # working[m]
      BY <2>2, <2>5, <3>2 DEF Sync
    <3> QED
      BY <3>1, <3>2
  <2>6. ASSUME NEW s \in Stagers, StagerStep(s), \A m \in Targets : ~Sync(s, m) PROVE Traced'
    BY <2>2, <2>3, <2>6 DEF StagerStep, BeginStaging, Synced, WriteList, WriteState,
       RecordCandidates, StagingFails, rig
  <2>7. Reset \/ GameExits \/ EditWorking => Traced'
    BY <2>2, <2>3 DEF Reset, GameExits, EditWorking, rig
  <2>8. UNCHANGED vars => Traced'
    BY <2>3 DEF vars
  <2> QED
    BY <1>3, <2>4, <2>5, <2>6, <2>7, <2>8 DEF Next, Surroundings, OwnStep
<1> QED
  BY <1>2, <1>3

(* IInv is inductive, and what the evidence follows from.                  *)
LEMMA InvInit == Init => IInv
<1>1. ASSUME Init PROVE Seen /\ Traced
  BY <1>1, MaxEditsAssumption DEF Init, Seen, Traced, UpTo, NoSession, Empty
<1> QED
  BY <1>1, TypeInit DEF IInv

LEMMA InvStep ==
  ASSUME IInv, [Next]_vars
  PROVE  IInv'
BY TypeStep, SeenStep, TracedStep DEF IInv

LEMMA InvEvidence ==
  ASSUME IInv
  PROVE  Evidence
<1>1. SUFFICES ASSUME NEW r \in Runs, NEW m \in Targets, Acceptable(r, m),
                      log[r].release = "kept", log[r].clean
      PROVE  /\ DOMAIN log[r].inputs = DOMAIN manifest[r].entries
             /\ log[r].inputs[m] = working[m]
  BY DEF Evidence
<1>2. Loaded(r)
  BY <1>1 DEF IInv, Traced, Acceptable
<1> QED
  BY <1>1, <1>2 DEF Loaded, Acceptable

(* A run that evaluate_run accepts, whose release stands and whose game no *)
(* other command disturbed, loaded exactly the bytes the working copy has  *)
(* now: for any number of runs, commands and mods, and whatever is edited. *)
THEOREM EvidenceHolds == Spec => []Evidence
BY InvInit, InvStep, InvEvidence, PTL DEF Spec

=============================================================================
