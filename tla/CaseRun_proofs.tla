--------------------------- MODULE CaseRun_proofs ---------------------------
(***************************************************************************)
(* Proofs about CaseRun, for all sets of runs, staging commands and mods   *)
(* and all bounds: prepare_case_run only does to the rig what Rig's        *)
(* commands do, and a RUN_PREPARED receipt is of the candidate's closure.  *)
(*                                                                         *)
(* The argument: the versions of a working copy only grow.  What the       *)
(* candidate was captured from was read before prepare_run, what the       *)
(* manifest records lies between that and what CheckContext saw, and when  *)
(* CheckCurrent finds the first again, all three are the same.  From then  *)
(* on the manifest stays.                                                  *)
(***************************************************************************)
EXTENDS CaseRun, Rig_proofs

(* Within prepare_run the session is the call's, elsewhere there is none;  *)
(* and a call that has been given its manifest has one.                    *)
Preparing == {"owner", "observe", "bind", "write", "own"}

Inside(r) ==
  /\ call[r].pc = "prepare" => session[r].cmd = "case" /\ session[r].pc \in Preparing
  /\ call[r].pc \notin {"idle", "prepare"} => session[r].pc = "idle"
  /\ call[r].pc \in {"context", "settle", "record"} => manifest[r] # NoManifest

(* No source is older than what the candidate was captured from.           *)
Grown(r) ==
  call[r].pc # "idle" =>
    /\ call[r].target \in DOMAIN call[r].closure
    /\ \A m \in DOMAIN call[r].closure : call[r].closure[m] <= SourceOf(m)

(* What the manifest records lies between the two, and is the former once  *)
(* the candidate was found to be current again.                            *)
Bound(closure, target, man) ==
  /\ target \in DOMAIN man.bound
  /\ man.bound[target] = closure[target]

Looked(r) ==
  /\ call[r].pc \in {"settle", "record"} =>
       /\ DOMAIN manifest[r].entries = DOMAIN call[r].closure
       /\ \A m \in DOMAIN call[r].closure :
            /\ call[r].closure[m] <= manifest[r].entries[m]
            /\ manifest[r].entries[m] <= SourceOf(m)
       /\ Bound(call[r].closure, call[r].target, manifest[r])
  /\ call[r].pc = "record" => manifest[r].entries = call[r].closure

CallInv(r) == Inside(r) /\ Grown(r) /\ Looked(r)

Filed ==
  \A b \in receipts :
    /\ manifest[b.run] = b.manifest
    /\ b.manifest.entries = b.closure
    /\ Bound(b.closure, b.target, b.manifest)

CallTypes == call \in [Runs -> Calls] /\ receipts \subseteq Receipts

CaseInv == IInv /\ CallTypes /\ (\A r \in Runs : CallInv(r)) /\ Filed

-----------------------------------------------------------------------------
(* Calls.                                                                  *)

OpenCalls == [pc : CasePoints, target : Targets, closure : Closures]

LEMMA OpenCall ==
  ASSUME CallTypes, NEW r \in Runs, ~InCase(r, "idle")
  PROVE  call[r] \in OpenCalls
BY DEF CallTypes, Calls, OpenCalls, InCase, NoCall

LEMMA ContinueFacts ==
  ASSUME CallTypes, NEW r \in Runs, ~InCase(r, "idle"), NEW there \in CasePoints,
         Continue(r, there)
  PROVE  /\ call' \in [Runs -> Calls]
         /\ \A q \in Runs : q # r => call'[q] = call[q]
         /\ call'[r].pc = there
         /\ call'[r].target = call[r].target
         /\ call'[r].closure = call[r].closure
<1> DEFINE new == [call[r] EXCEPT !.pc = there]
<1>1. call' = [call EXCEPT ![r] = new]
  BY DEF Continue
<1>2. call[r] \in OpenCalls
  BY OpenCall
<1>3. /\ new \in OpenCalls /\ new.pc = there
      /\ new.target = call[r].target /\ new.closure = call[r].closure
  BY <1>2 DEF OpenCalls
<1> HIDE DEF new
<1> QED
  BY <1>1, <1>3 DEF CallTypes, Calls, OpenCalls

LEMMA GiveUpFacts ==
  ASSUME CallTypes, NEW r \in Runs, GiveUp(r)
  PROVE  /\ call' \in [Runs -> Calls]
         /\ \A q \in Runs : q # r => call'[q] = call[q]
         /\ call'[r].pc = "idle"
<1>1. NoCall \in Calls /\ NoCall.pc = "idle"
  BY DEF Calls, NoCall
<1> QED
  BY <1>1 DEF GiveUp, CallTypes

(* A call that is over promises nothing.                                   *)
LEMMA Over ==
  ASSUME NEW r \in Runs, call'[r].pc = "idle"
  PROVE  CallInv(r)'
BY DEF CallInv, Inside, Grown, Looked

-----------------------------------------------------------------------------
(* The rig under the calls.                                                *)

(* A source is a version, and only grows.                                  *)
LEMMA SourcesGrow ==
  ASSUME TypeInv, TypeInv', Seen, [Next]_vars, NEW m \in Mods
  PROVE  /\ SourceOf(m) \in Nat /\ SourceOf(m)' \in Nat
         /\ SourceOf(m) <= SourceOf(m)'
<1>1. /\ working \in [Targets -> Nat] /\ working' \in [Targets -> Nat] /\ edits \in Nat
      /\ \A t \in Targets : working[t] <= edits
  BY MaxEditsAssumption DEF TypeInv, TypeOK, Versions, Seen, UpTo
<1>2. \/ working' = working
      \/ \E t \in Targets : working' = [working EXCEPT ![t] = edits + 1]
  <2>1. CASE \E r \in Runs : OwnStep(r)
    BY <2>1, OwnStepFrame
  <2>2. ASSUME NEW s \in Stagers, StagerStep(s) PROVE working' = working
    BY <2>2 DEF StagerStep, BeginStaging, Sync, Synced, WriteList, WriteState,
       RecordCandidates, StagingFails
  <2>3. Reset \/ GameExits \/ Tamper => working' = working
    BY DEF Reset, GameExits, Tamper
  <2>4. EditWorking => \E t \in Targets : working' = [working EXCEPT ![t] = edits + 1]
    BY DEF EditWorking
  <2>5. UNCHANGED vars => working' = working
    BY DEF vars
  <2> QED
    BY <2>1, <2>2, <2>3, <2>4, <2>5 DEF Next, Surroundings, OwnStep
<1>3. \A t \in Targets : working[t] <= working'[t]
  BY <1>1, <1>2
<1> QED
  BY <1>1, <1>3 DEF SourceOf

(* A call that does not move keeps what it has seen, whatever the others   *)
(* do to the rig and to the sources.                                       *)
LEMMA Kept ==
  ASSUME CaseInv, [Next]_vars, IInv', NEW q \in Runs, call'[q] = call[q],
         session'[q] = session[q] \/ call[q].pc = "idle"
  PROVE  CallInv(q)'
<1>1. CASE call[q].pc = "idle"
  BY <1>1, Over
<1>2. CASE call[q].pc # "idle"
  <2>1. CallInv(q) /\ session'[q] = session[q] /\ TypeInv /\ TypeInv' /\ Seen
    BY <1>2 DEF CaseInv, IInv
  <2>2. manifest[q] # NoManifest => manifest'[q] = manifest[q]
    BY <2>1, ManifestKept DEF KeepsManifests
  <2>3. call[q] \in OpenCalls
    BY <1>2, OpenCall DEF CaseInv, InCase
  <2>4. PICK D \in SUBSET Mods : call[q].closure \in [D -> Versions]
    BY <2>3, PartialMapsDef DEF OpenCalls, Closures
  <2>5. \A m \in D : /\ SourceOf(m) \in Nat /\ SourceOf(m)' \in Nat
                     /\ SourceOf(m) <= SourceOf(m)'
                     /\ call[q].closure[m] \in Nat
    BY <2>1, <2>4, SourcesGrow, MaxEditsAssumption DEF Versions
  <2>6. Inside(q)'
    BY <2>1, <2>2 DEF CallInv, Inside
  <2>7. Grown(q)'
    <3>1. ASSUME NEW m \in D PROVE call[q].closure[m] <= SourceOf(m)'
      BY <1>2, <2>1, <2>4, <2>5, <3>1 DEF CallInv, Grown
    <3> QED
      BY <1>2, <2>1, <2>4, <3>1 DEF CallInv, Grown
  <2>8. Looked(q)'
    <3>1. CASE call[q].pc \in {"settle", "record"}
      <4>1. manifest[q] # NoManifest /\ manifest'[q] = manifest[q]
        BY <2>1, <2>2, <3>1 DEF CallInv, Inside
      <4>2. manifest[q] \in Manifests
        BY <2>1, <4>1 DEF TypeInv, TypeOK
      <4>3. PICK E \in SUBSET Mods : manifest[q].entries \in [E -> Versions]
        BY <4>2, PartialMapsDef DEF Manifests
      <4>4. D = E
        BY <2>1, <2>4, <3>1, <4>3 DEF CallInv, Looked
      <4>5. ASSUME NEW m \in D PROVE manifest[q].entries[m] <= SourceOf(m)'
        <5>1. manifest[q].entries[m] \in Nat
          BY <4>3, <4>4, <4>5, MaxEditsAssumption DEF Versions
        <5>2. manifest[q].entries[m] <= SourceOf(m)
          BY <2>1, <2>4, <3>1, <4>5 DEF CallInv, Looked
        <5> QED
          BY <2>5, <4>5, <5>1, <5>2
      <4> QED
        BY <2>1, <2>4, <3>1, <4>1, <4>5 DEF CallInv, Looked
    <3>2. CASE call[q].pc \notin {"settle", "record"}
      BY <3>2 DEF Looked
    <3> QED
      BY <3>1, <3>2
  <2> QED
    BY <2>6, <2>7, <2>8 DEF CallInv
<1> QED
  BY <1>1, <1>2

(* Receipts stay true: a run id keeps its manifest.                        *)
LEMMA FiledKept ==
  ASSUME CaseInv, [Next]_vars, NEW b \in receipts
  PROVE  /\ manifest'[b.run] = b.manifest
         /\ b.manifest.entries = b.closure
         /\ Bound(b.closure, b.target, b.manifest)
<1>1. b.run \in Runs /\ b.manifest \in Manifests /\ manifest[b.run] = b.manifest
  BY DEF CaseInv, CallTypes, Receipts, Filed
<1>2. manifest'[b.run] = manifest[b.run]
  BY <1>1, ManifestKept, DistinctAssumption DEF CaseInv, IInv, KeepsManifests
<1> QED
  BY <1>1, <1>2 DEF CaseInv, Filed

-----------------------------------------------------------------------------
(* prepare_case_run does to the rig what a command of the run id does.     *)

(* Within prepare_run.                                                     *)
LEMMA PrepareRunIsRig ==
  ASSUME CaseInv, NEW r \in Runs, PrepareRunStep(r)
  PROVE  RunStep(r)
<1>1. call[r] \in OpenCalls /\ session[r].cmd = "case"
  BY OpenCall DEF PrepareRunStep, InCase, CaseInv, CallInv, Inside
<1>2. At(r, "bind") => BindTo(r, {call[r].target})
  BY DEF PrepareRunStep
<1>3. {call[r].target} \in TargetsOf(r)
  BY <1>1 DEF TargetsOf, OpenCalls
<1> QED
  BY <1>2, <1>3 DEF PrepareRunStep, RunStep, Bind

(* Its steps stay within it or end it; and what it returns is there.       *)
LEMMA PrepareFacts ==
  ASSUME CaseInv, NEW r \in Runs, PrepareRunStep(r)
  PROVE  /\ session'[r].pc # "idle" =>
              session'[r].cmd = "case" /\ session'[r].pc \in Preparing
         /\ Returns(r) => manifest[r] # NoManifest
<1>1. /\ RunStep(r) /\ session[r].cmd = "case" /\ session[r].pc \in Preparing
      /\ TypeOK /\ session[r] \in Sessions
  BY PrepareRunIsRig DEF PrepareRunStep, InCase, CaseInv, CallInv, Inside, IInv, TypeInv, TypeOK
<1>2. End(r) = "idle" /\ Prepared(r) = "idle" /\ Preparing \subseteq Points
  BY <1>1 DEF End, Prepared, BootTests, Preparing, Points
<1>3. \A there \in Preparing \union {"idle"} : Goto(r, there) =>
        /\ session'[r].pc = there
        /\ there # "idle" => session'[r].cmd = "case"
  BY <1>1, <1>2, GotoFacts DEF Points
<1>4. CheckOwner(r) \/ Observe(r) \/ Bind(r) \/ WriteManifest(r) \/ TakeOwnership(r)
  BY <1>1 DEF RunStep, Preparing, At, BootList, Launch, LaunchFails, Stop, CheckDrift, Complete,
     Disown, Unlink, Restore
<1>5. session'[r].pc # "idle" => session'[r].cmd = "case" /\ session'[r].pc \in Preparing
  <2>1. CASE CheckOwner(r)
    BY <1>2, <1>3, <2>1 DEF CheckOwner, Preparing
  <2>2. CASE Observe(r)
    <3> DEFINE new == [session[r] EXCEPT !.pc = "bind", !.entries = Entries]
    <3>1. session' = [session EXCEPT ![r] = new]
      BY <2>2 DEF Observe
    <3>2. new.pc = "bind" /\ new.cmd = "case"
      BY <1>1 DEF Sessions
    <3> HIDE DEF new
    <3> QED
      BY <1>1, <3>1, <3>2 DEF TypeOK, Preparing
  <2>3. CASE Bind(r)
    <3>1. PICK targets \in TargetsOf(r) : BindTo(r, targets)
      BY <2>3 DEF Bind
    <3> DEFINE map == [m \in targets |-> working[m]]
               new == [session[r] EXCEPT !.pc = "write", !.bound = map]
    <3>2. session' = [session EXCEPT ![r] = new] \/ Goto(r, "idle")
      BY <1>2, <3>1 DEF BindTo
    <3>3. new.pc = "write" /\ new.cmd = "case"
      <4> HIDE DEF map
      <4> QED
        BY <1>1 DEF Sessions
    <3> HIDE DEF new
    <3> QED
      BY <1>1, <1>3, <3>2, <3>3 DEF TypeOK, Preparing
  <2>4. CASE WriteManifest(r)
    BY <1>2, <1>3, <2>4 DEF WriteManifest, Preparing
  <2>5. CASE TakeOwnership(r)
    BY <1>2, <1>3, <2>5 DEF TakeOwnership, Preparing
  <2> QED
    BY <1>4, <2>1, <2>2, <2>3, <2>4, <2>5
<1>6. Returns(r) => manifest[r] # NoManifest
  <2>1. [entries |-> session[r].entries, bound |-> session[r].bound] \in Manifests
    BY <1>1 DEF Sessions, Manifests
  <2> QED
    BY <1>1, <2>1, DistinctAssumption DEF Returns, At, TypeOK
<1> QED
  BY <1>5, <1>6

(* Every step of a call or of another command is one of the rig, or        *)
(* changes nothing of it.                                                  *)
LEMMA StepOfRig ==
  ASSUME CaseInv, [CaseNext]_allVars
  PROVE  [Next]_vars
<1>1. ASSUME NEW r \in Runs, CaseStep(r) PROVE [Next]_vars
  <2>1. CASE PrepareCaseRun(r) \/ CheckReference(r) \/ CheckStaged(r) \/ NotCurrent(r)
               \/ CheckContext(r) \/ CheckCurrent(r) \/ WriteReceipt(r)
    BY <2>1 DEF PrepareCaseRun, CheckReference, CheckStaged, NotCurrent, CheckContext,
       CheckCurrent, WriteReceipt, Require
  <2>2. CASE CallPrepareRun(r)
    BY <2>2, CaseAssumption DEF CallPrepareRun, Next
  <2>3. CASE PrepareRunStep(r)
    BY <2>3, PrepareRunIsRig DEF Next
  <2>4. CASE CaseFails(r)
    BY <2>4 DEF CaseFails, Next
  <2> QED
    BY <1>1, <2>1, <2>2, <2>3, <2>4 DEF CaseStep
<1>2. ASSUME NEW r \in Runs, OtherCommand(r) PROVE Next
  BY <1>2 DEF OtherCommand, Next
<1>3. Surroundings => Next
  BY DEF Next
<1>4. UNCHANGED allVars => UNCHANGED vars
  BY DEF allVars
<1> QED
  BY <1>1, <1>2, <1>3, <1>4 DEF CaseNext

(* A step of one call concerns no other.                                   *)
LEMMA CaseStepFrame ==
  ASSUME CaseInv, NEW r \in Runs, CaseStep(r)
  PROVE  /\ call' \in [Runs -> Calls]
         /\ \A q \in Runs : q # r => call'[q] = call[q] /\ session'[q] = session[q]
<1>1. CallTypes /\ TypeInv
  BY DEF CaseInv, IInv
<1>2. ASSUME NEW there \in CasePoints, Continue(r, there), ~InCase(r, "idle")
      PROVE  call' \in [Runs -> Calls] /\ \A q \in Runs : q # r => call'[q] = call[q]
  BY <1>1, <1>2, ContinueFacts
<1>3. GiveUp(r) => call' \in [Runs -> Calls] /\ \A q \in Runs : q # r => call'[q] = call[q]
  BY <1>1, GiveUpFacts
<1>4. OwnStep(r) => \A q \in Runs : q # r => session'[q] = session[q]
  BY <1>1, OwnStepFrame
<1>5. {"staged", "now", "prepare", "context", "settle", "record"} \subseteq CasePoints
  BY DEF CasePoints
<1>6. ASSUME NEW here, NEW there \in CasePoints, NEW holds, here # "idle",
             Require(r, here, there, holds)
      PROVE  /\ call' \in [Runs -> Calls]
             /\ \A q \in Runs : q # r => call'[q] = call[q] /\ session'[q] = session[q]
  BY <1>2, <1>3, <1>6 DEF Require, InCase, vars
<1>a. CASE PrepareCaseRun(r)
  <2>1. PICK t \in Targets, others \in SUBSET Mods :
          call' = [call EXCEPT ![r] =
                    [pc |-> "reference", target |-> t,
                     closure |-> [m \in others \union {t} |-> SourceOf(m)]]]
    BY <1>a DEF PrepareCaseRun
  <2> DEFINE closure == [m \in others \union {t} |-> SourceOf(m)]
  <2>2. \A m \in Mods : SourceOf(m) \in Versions
    BY <1>1, MaxEditsAssumption DEF SourceOf, TypeInv, TypeOK, Versions
  <2>3. others \union {t} \in SUBSET Mods /\ closure \in [others \union {t} -> Versions]
    BY <2>2, TargetsAssumption
  <2>4. closure \in Closures
    BY <2>3, PartialMapsDef DEF Closures
  <2> HIDE DEF closure
  <2>5. [pc |-> "reference", target |-> t, closure |-> closure] \in Calls
    BY <2>4 DEF Calls, CasePoints
  <2>6. call' = [call EXCEPT ![r] = [pc |-> "reference", target |-> t, closure |-> closure]]
    BY <2>1 DEF closure
  <2> QED
    BY <1>1, <1>a, <2>5, <2>6 DEF PrepareCaseRun, CallTypes, vars
<1>b. CASE CheckReference(r)
  BY <1>5, <1>6, <1>b DEF CheckReference
<1>c. CASE CheckStaged(r) \/ CheckContext(r) \/ CheckCurrent(r)
  BY <1>5, <1>6, <1>c DEF CheckStaged, CheckContext, CheckCurrent
<1>d. CASE CallPrepareRun(r)
  BY <1>2, <1>4, <1>5, <1>d, CaseAssumption DEF CallPrepareRun, InCase, OwnStep
<1>e. CASE NotCurrent(r)
  BY <1>3, <1>e DEF NotCurrent, vars
<1>f. CASE PrepareRunStep(r)
  <2>1. OwnStep(r) /\ ~InCase(r, "idle")
    BY <1>f, PrepareRunIsRig DEF OwnStep, PrepareRunStep, InCase
  <2>2. UNCHANGED call \/ Continue(r, "context") \/ GiveUp(r)
    BY <1>f DEF PrepareRunStep
  <2> QED
    BY <1>1, <1>2, <1>3, <1>4, <1>5, <2>1, <2>2 DEF CallTypes
<1>g. CASE WriteReceipt(r)
  BY <1>3, <1>g DEF WriteReceipt, vars
<1>h. CASE CaseFails(r)
  BY <1>3, <1>4, <1>h DEF CaseFails, OwnStep, vars
<1> QED
  BY <1>a, <1>b, <1>c, <1>d, <1>e, <1>f, <1>g, <1>h DEF CaseStep

-----------------------------------------------------------------------------
(* The invariant.                                                          *)

(* What CheckContext finds lies between what the candidate was captured    *)
(* from and the sources now.                                               *)
LEMMA LookedAt ==
  ASSUME CaseInv, NEW r \in Runs, call[r].pc = "context",
         RunContext(call[r], manifest[r].entries, manifest[r].bound)
  PROVE  /\ DOMAIN manifest[r].entries = DOMAIN call[r].closure
         /\ \A m \in DOMAIN call[r].closure :
              /\ call[r].closure[m] <= manifest[r].entries[m]
              /\ manifest[r].entries[m] <= SourceOf(m)
         /\ Bound(call[r].closure, call[r].target, manifest[r])
<1>1. CallInv(r) /\ call[r] \in OpenCalls /\ TypeOK
  BY OpenCall DEF CaseInv, IInv, TypeInv, InCase
<1>2. PICK D \in SUBSET Mods : call[r].closure \in [D -> Versions]
  BY <1>1, PartialMapsDef DEF OpenCalls, Closures
<1>3. \A m \in D : SourceOf(m) \in Int /\ call[r].closure[m] \in Int
  BY <1>1, <1>2, MaxEditsAssumption DEF SourceOf, TypeOK, Versions
<1>4. \A m \in D : call[r].closure[m] <= SourceOf(m)
  BY <1>1, <1>2 DEF CallInv, Grown
<1>5. /\ DOMAIN manifest[r].entries = D
      /\ \A m \in D : manifest[r].entries[m] \in {call[r].closure[m], SourceOf(m)}
  BY <1>2 DEF RunContext, Selected
<1> QED
  BY <1>2, <1>3, <1>4, <1>5 DEF RunContext, Bound

(* CheckCurrent finds the first again: then all three are the same.        *)
LEMMA Settled ==
  ASSUME CaseInv, NEW r \in Runs, call[r].pc = "settle", Current(call[r])
  PROVE  manifest[r].entries = call[r].closure
<1>1. CallInv(r) /\ call[r] \in OpenCalls /\ manifest[r] \in Manifests
  BY OpenCall DEF CaseInv, CallInv, Inside, IInv, TypeInv, TypeOK, InCase
<1>2. PICK D \in SUBSET Mods : call[r].closure \in [D -> Versions]
  BY <1>1, PartialMapsDef DEF OpenCalls, Closures
<1>3. PICK E \in SUBSET Mods : manifest[r].entries \in [E -> Versions]
  BY <1>1, PartialMapsDef DEF Manifests
<1>4. E = D /\ \A m \in D : /\ call[r].closure[m] <= manifest[r].entries[m]
                           /\ manifest[r].entries[m] <= SourceOf(m)
                           /\ SourceOf(m) = call[r].closure[m]
  BY <1>1, <1>2, <1>3 DEF CallInv, Looked, Current
<1>5. \A m \in D : call[r].closure[m] \in Int /\ manifest[r].entries[m] \in Int
  BY <1>2, <1>3, <1>4, MaxEditsAssumption DEF Versions
<1>6. \A m \in D : call[r].closure[m] = manifest[r].entries[m]
  BY <1>4, <1>5
<1> QED
  BY <1>2, <1>3, <1>4, <1>6

(* Every step of a call keeps what it has seen.                            *)
LEMMA CallStep ==
  ASSUME CaseInv, NEW r \in Runs, CaseStep(r)
  PROVE  CallInv(r)'
<1>1. CallTypes /\ CallInv(r) /\ TypeInv
  BY DEF CaseInv, IInv
<1>2. GiveUp(r) => CallInv(r)'
  BY <1>1, GiveUpFacts, Over
<1>3. \A m : UNCHANGED working => SourceOf(m)' = SourceOf(m)
  BY DEF SourceOf
<1>4. ASSUME NEW here, NEW there, NEW holds, Require(r, here, there, holds),
             here \notin {"idle", "prepare"}, there \in CasePoints \ {"prepare"},
             holds /\ there \in {"context", "settle", "record"} => manifest[r] # NoManifest,
             holds /\ there \in {"settle", "record"} =>
               /\ DOMAIN manifest[r].entries = DOMAIN call[r].closure
               /\ \A m \in DOMAIN call[r].closure :
                    /\ call[r].closure[m] <= manifest[r].entries[m]
                    /\ manifest[r].entries[m] <= SourceOf(m)
               /\ Bound(call[r].closure, call[r].target, manifest[r]),
             holds /\ there = "record" => manifest[r].entries = call[r].closure
      PROVE  CallInv(r)'
  <2>1. CASE ~holds
    BY <1>2, <1>4, <2>1 DEF Require
  <2>2. CASE holds
    <3>1. Continue(r, there) /\ UNCHANGED vars /\ call[r].pc = here
      BY <1>4, <2>2 DEF Require, InCase
    <3>2. /\ call'[r].pc = there /\ call'[r].target = call[r].target
          /\ call'[r].closure = call[r].closure
      BY <1>1, <1>4, <3>1, ContinueFacts DEF InCase
    <3>3. UNCHANGED <<working, manifest, session>> /\ \A m : SourceOf(m)' = SourceOf(m)
      BY <1>3, <3>1 DEF vars
    <3>4. Inside(r)'
      BY <1>1, <1>4, <2>2, <3>1, <3>2, <3>3 DEF CallInv, Inside, CasePoints
    <3>5. Grown(r)'
      BY <1>1, <1>4, <3>1, <3>2, <3>3 DEF CallInv, Grown
    <3>6. Looked(r)'
      BY <1>4, <2>2, <3>2, <3>3 DEF Looked, Bound
    <3> QED
      BY <3>4, <3>5, <3>6 DEF CallInv
  <2> QED
    BY <2>1, <2>2
<1>5. {"staged", "now", "context", "settle", "record"} \subseteq CasePoints \ {"prepare"}
  BY DEF CasePoints
<1>a. CASE PrepareCaseRun(r)
  <2>1. PICK t \in Targets, others \in SUBSET Mods :
          call' = [call EXCEPT ![r] =
                    [pc |-> "reference", target |-> t,
                     closure |-> [m \in others \union {t} |-> SourceOf(m)]]]
    BY <1>a DEF PrepareCaseRun
  <2> DEFINE closure == [m \in others \union {t} |-> SourceOf(m)]
             new == [pc |-> "reference", target |-> t, closure |-> closure]
  <2>2. call'[r] = new
    BY <1>1, <2>1 DEF CallTypes
  <2>3. /\ call'[r].pc = "reference" /\ call'[r].target = t
        /\ DOMAIN call'[r].closure = others \union {t}
        /\ \A m \in others \union {t} : call'[r].closure[m] = SourceOf(m)
    BY <2>2
  <2>4. \A m \in others \union {t} : SourceOf(m)' = SourceOf(m) /\ SourceOf(m) \in Int
    BY <1>1, <1>3, <1>a, MaxEditsAssumption
    DEF PrepareCaseRun, vars, SourceOf, TypeInv, TypeOK, Versions
  <2>5. session'[r].pc = "idle"
    BY <1>a DEF PrepareCaseRun, At, vars
  <2> HIDE DEF closure, new
  <2>6. Inside(r)'
    BY <2>3, <2>5 DEF Inside
  <2>7. Grown(r)'
    BY <2>3, <2>4 DEF Grown
  <2>8. Looked(r)'
    BY <2>3 DEF Looked
  <2> QED
    BY <2>6, <2>7, <2>8 DEF CallInv
<1>b. CASE CheckReference(r)
  <2>1. CASE Earlier(r) # {}
    <3>1. Require(r, "reference", "context", \A b \in Earlier(r) : b.manifest = manifest[r])
      BY <1>b, <2>1 DEF CheckReference
    <3>2. (\A b \in Earlier(r) : b.manifest = manifest[r]) => manifest[r] # NoManifest
      BY <1>1, <2>1, DistinctAssumption DEF Earlier, CallTypes, Receipts
    <3> QED
      BY <1>4, <1>5, <3>1, <3>2
  <2>2. CASE Earlier(r) = {}
    <3>1. Require(r, "reference", "staged",
                  owner = NoRun \/ (owner = r /\ manifest[r] # NoManifest))
      BY <1>b, <2>2 DEF CheckReference
    <3> QED
      BY <1>4, <1>5, <3>1
  <2> QED
    BY <2>1, <2>2
<1>c. CASE CheckStaged(r)
  BY <1>4, <1>5, <1>c DEF CheckStaged
<1>d. CASE CallPrepareRun(r)
  <2>1. Continue(r, "prepare") /\ Begin(r, "case") /\ call[r].pc = "now"
    BY <1>d DEF CallPrepareRun, InCase
  <2>2. /\ call'[r].pc = "prepare" /\ call'[r].target = call[r].target
        /\ call'[r].closure = call[r].closure
    BY <1>1, <2>1, ContinueFacts DEF InCase, CasePoints
  <2>3. session'[r].pc = "owner" /\ session'[r].cmd = "case"
    <3> DEFINE new == [session[r] EXCEPT !.pc = "owner", !.cmd = "case", !.saved = {}]
    <3>1. session' = [session EXCEPT ![r] = new]
      BY <2>1 DEF Begin, BootTests
    <3>2. session[r] \in Sessions /\ session \in [Runs -> Sessions]
      BY <1>1 DEF TypeInv, TypeOK
    <3>3. new.pc = "owner" /\ new.cmd = "case"
      BY <3>2 DEF Sessions
    <3> HIDE DEF new
    <3> QED
      BY <3>1, <3>2, <3>3
  <2>4. \A m : SourceOf(m)' = SourceOf(m)
    BY <1>3, <2>1 DEF Begin
  <2>5. Inside(r)'
    BY <2>2, <2>3 DEF Inside, Preparing
  <2>6. Grown(r)'
    BY <1>1, <2>1, <2>2, <2>4 DEF CallInv, Grown
  <2>7. Looked(r)'
    BY <2>2 DEF Looked
  <2> QED
    BY <2>5, <2>6, <2>7 DEF CallInv
<1>e. CASE NotCurrent(r)
  BY <1>2, <1>e DEF NotCurrent
<1>f. CASE PrepareRunStep(r)
  <2>1. /\ OwnStep(r) /\ call[r].pc = "prepare"
        /\ session'[r].pc # "idle" => session'[r].cmd = "case" /\ session'[r].pc \in Preparing
        /\ Returns(r) => manifest[r] # NoManifest
    BY <1>f, PrepareRunIsRig, PrepareFacts DEF OwnStep, PrepareRunStep, InCase
  <2>2. /\ \A m : SourceOf(m)' = SourceOf(m)
        /\ manifest[r] # NoManifest => manifest'[r] # NoManifest
    BY <1>1, <1>3, <2>1, OwnStepFrame
  <2>3. CASE session'[r].pc # "idle"
    <3>1. call' = call
      BY <1>f, <2>3 DEF PrepareRunStep
    <3> QED
      BY <1>1, <2>1, <2>2, <2>3, <3>1 DEF CallInv, Inside, Grown, Looked
  <2>4. CASE session'[r].pc = "idle" /\ Returns(r)
    <3>1. Continue(r, "context")
      BY <1>f, <2>4 DEF PrepareRunStep
    <3>2. /\ call'[r].pc = "context" /\ call'[r].target = call[r].target
          /\ call'[r].closure = call[r].closure
      BY <1>1, <1>5, <2>1, <3>1, ContinueFacts DEF InCase
    <3>3. Inside(r)'
      BY <2>1, <2>2, <2>4, <3>2 DEF Inside
    <3>4. Grown(r)'
      BY <1>1, <2>1, <2>2, <3>2 DEF CallInv, Grown
    <3> QED
      BY <3>2, <3>3, <3>4 DEF CallInv, Looked
  <2>5. CASE session'[r].pc = "idle" /\ ~Returns(r)
    BY <1>2, <1>f, <2>5 DEF PrepareRunStep
  <2> QED
    BY <2>3, <2>4, <2>5
<1>g. CASE CheckContext(r)
  <2> DEFINE holds == RunContext(call[r], manifest[r].entries, manifest[r].bound)
  <2>1. Require(r, "context", "settle", holds) /\ call[r].pc = "context"
    BY <1>g DEF CheckContext, Require, InCase
  <2>2. manifest[r] # NoManifest
    BY <1>1, <2>1 DEF CallInv, Inside
  <2>3. holds =>
          /\ DOMAIN manifest[r].entries = DOMAIN call[r].closure
          /\ \A m \in DOMAIN call[r].closure :
               /\ call[r].closure[m] <= manifest[r].entries[m]
               /\ manifest[r].entries[m] <= SourceOf(m)
          /\ Bound(call[r].closure, call[r].target, manifest[r])
    BY <2>1, LookedAt
  <2> HIDE DEF holds
  <2> QED
    BY <1>4, <1>5, <2>1, <2>2, <2>3
<1>h. CASE CheckCurrent(r)
  <2>1. Require(r, "settle", "record", Current(call[r])) /\ call[r].pc = "settle"
    BY <1>h DEF CheckCurrent, Require, InCase
  <2>2. /\ manifest[r] # NoManifest
        /\ DOMAIN manifest[r].entries = DOMAIN call[r].closure
        /\ \A m \in DOMAIN call[r].closure :
             /\ call[r].closure[m] <= manifest[r].entries[m]
             /\ manifest[r].entries[m] <= SourceOf(m)
        /\ Bound(call[r].closure, call[r].target, manifest[r])
    BY <1>1, <2>1 DEF CallInv, Inside, Looked
  <2>3. Current(call[r]) => manifest[r].entries = call[r].closure
    BY <2>1, Settled
  <2> QED
    BY <1>4, <1>5, <2>1, <2>2, <2>3
<1>i. CASE WriteReceipt(r) \/ CaseFails(r)
  BY <1>2, <1>i DEF WriteReceipt, CaseFails
<1> QED
  BY <1>a, <1>b, <1>c, <1>d, <1>e, <1>f, <1>g, <1>h, <1>i DEF CaseStep

(* So does every step, and the receipts stay true.                         *)
LEMMA CaseInvStep ==
  ASSUME CaseInv, [CaseNext]_allVars
  PROVE  CaseInv'
<1>1. [Next]_vars /\ IInv /\ IInv' /\ CallTypes /\ TypeInv
  BY StepOfRig, InvStep DEF CaseInv, IInv
<1>2. ASSUME receipts' = receipts PROVE Filed'
  BY <1>1, <1>2, FiledKept DEF Filed
<1>a. ASSUME NEW r \in Runs, CaseStep(r) PROVE CaseInv'
  <2>1. /\ call' \in [Runs -> Calls]
        /\ \A q \in Runs : q # r => call'[q] = call[q] /\ session'[q] = session[q]
    BY <1>a, CaseStepFrame
  <2>2. \A q \in Runs : CallInv(q)'
    BY <1>1, <1>a, <2>1, CallStep, Kept
  <2>3. CASE receipts' = receipts
    BY <1>1, <1>2, <2>1, <2>2, <2>3 DEF CaseInv, CallTypes
  <2>4. CASE WriteReceipt(r) /\ receipts' # receipts
    <3> DEFINE new == [run |-> r, target |-> call[r].target, closure |-> call[r].closure,
                       manifest |-> manifest[r]]
    <3>1. receipts' = receipts \union {new} /\ UNCHANGED vars /\ call[r].pc = "record"
      BY <2>4 DEF WriteReceipt, InCase
    <3>2. CallInv(r) /\ call[r] \in OpenCalls /\ manifest[r] \in Manifests /\ manifest' = manifest
      BY <1>1, <3>1, OpenCall DEF CaseInv, CallInv, Inside, TypeInv, TypeOK, InCase, vars
    <3>3. new \in Receipts
      BY <3>2 DEF Receipts, OpenCalls
    <3>4. /\ manifest'[new.run] = new.manifest
          /\ new.manifest.entries = new.closure
          /\ Bound(new.closure, new.target, new.manifest)
      BY <3>1, <3>2 DEF CallInv, Looked
    <3> HIDE DEF new
    <3>5. Filed'
      BY <1>1, <3>1, <3>4, FiledKept DEF Filed
    <3> QED
      BY <1>1, <2>1, <2>2, <3>1, <3>3, <3>5 DEF CaseInv, CallTypes
  <2>5. WriteReceipt(r) \/ receipts' = receipts
    BY <1>a DEF CaseStep, PrepareCaseRun, CheckReference, CheckStaged, CallPrepareRun,
       NotCurrent, PrepareRunStep, CheckContext, CheckCurrent, CaseFails, Require
  <2> QED
    BY <2>3, <2>4, <2>5
<1>b. CASE UNCHANGED caseVars /\ \E r \in Runs : OtherCommand(r)
  <2>1. PICK r \in Runs : OtherCommand(r)
    BY <1>b
  <2>2. OwnStep(r) /\ call[r].pc = "idle"
    BY <2>1 DEF OtherCommand, OwnStep, InCase
  <2>3. \A q \in Runs : q # r => session'[q] = session[q]
    BY <1>1, <2>2, OwnStepFrame
  <2>4. call' = call /\ receipts' = receipts
    BY <1>b DEF caseVars
  <2>5. \A q \in Runs : CallInv(q)'
    BY <1>1, <2>2, <2>3, <2>4, Kept
  <2> QED
    BY <1>1, <1>2, <2>4, <2>5 DEF CaseInv, CallTypes
<1>c. CASE (Surroundings /\ UNCHANGED caseVars) \/ UNCHANGED allVars
  <2>1. session' = session /\ call' = call /\ receipts' = receipts
    <3>1. Surroundings => session' = session
      BY DEF Surroundings, StagerStep, BeginStaging, Sync, Synced, WriteList, WriteState,
         RecordCandidates, StagingFails, Reset, GameExits, EditWorking, Tamper
    <3> QED
      BY <1>c, <3>1 DEF allVars, caseVars, vars
  <2>2. \A q \in Runs : CallInv(q)'
    BY <1>1, <2>1, Kept
  <2> QED
    BY <1>1, <1>2, <2>1, <2>2 DEF CaseInv, CallTypes
<1> QED
  BY <1>a, <1>b, <1>c DEF CaseNext

LEMMA CaseInvInit == CaseInit => CaseInv
<1> SUFFICES ASSUME CaseInit PROVE CaseInv
  OBVIOUS
<1>1. IInv
  BY InvInit DEF CaseInit
<1>2. CallTypes
  BY DEF CaseInit, CallTypes, Calls
<1>3. ASSUME NEW r \in Runs PROVE CallInv(r)
  <2>1. call[r].pc = "idle"
    BY DEF CaseInit, NoCall
  <2> QED
    BY <2>1 DEF CallInv, Inside, Grown, Looked
<1>4. Filed
  BY DEF CaseInit, Filed
<1> QED
  BY <1>1, <1>2, <1>3, <1>4 DEF CaseInv

-----------------------------------------------------------------------------
(* prepare_case_run is one more user of the rig: whatever Rig promises of  *)
(* its commands holds of them and of the calls together.                   *)
THEOREM ImplementsRig == CaseSpec => Spec
<1>1. CaseInit => Init
  BY DEF CaseInit
<1>2. CaseInv /\ [CaseNext]_allVars => [Next]_vars
  BY StepOfRig
<1>3. CaseInv /\ [CaseNext]_allVars => CaseInv'
  BY CaseInvStep
<1> QED
  BY <1>1, <1>2, <1>3, CaseInvInit, PTL DEF CaseSpec, Spec

(* The types of the rig and of the calls, for any number of runs and mods. *)
THEOREM CaseTypeCorrect == CaseSpec => []CaseTypeOK
<1>1. CaseInv => CaseTypeOK
  BY DEF CaseInv, CallTypes, CallInv, Inside, IInv, TypeInv, CaseTypeOK
<1>2. CaseInv /\ [CaseNext]_allVars => CaseInv'
  BY CaseInvStep
<1> QED
  BY <1>1, <1>2, CaseInvInit, PTL DEF CaseSpec

(* A receipt is of the candidate and of what it depends on, and what is    *)
(* accepted of its run is evidence for the candidate's bytes.              *)
THEOREM RunBoundHolds == CaseSpec => []RunBound
<1>1. CaseInv => RunBound
  <2>1. SUFFICES ASSUME CaseInv, NEW b \in receipts
        PROVE  /\ manifest[b.run] = b.manifest
               /\ b.manifest.entries = b.closure
               /\ b.manifest.bound[b.target] = b.closure[b.target]
               /\ Acceptable(b.run, b.target) /\ log[b.run].release = "kept"
                    /\ log[b.run].clean =>
                    log[b.run].inputs[b.target] = b.closure[b.target]
    BY DEF RunBound
  <2>2. /\ manifest[b.run] = b.manifest /\ b.manifest.entries = b.closure
        /\ b.manifest.bound[b.target] = b.closure[b.target]
    BY <2>1 DEF CaseInv, Filed, Bound
  <2>3. b.run \in Runs /\ b.target \in Targets
    BY <2>1 DEF CaseInv, CallTypes, Receipts
  <2>4. Evidence
    BY <2>1, InvEvidence DEF CaseInv
  <2>5. Acceptable(b.run, b.target) /\ log[b.run].release = "kept" /\ log[b.run].clean =>
          /\ log[b.run].inputs[b.target] = working[b.target]
          /\ working[b.target] = manifest[b.run].bound[b.target]
    BY <2>3, <2>4 DEF Evidence, Acceptable
  <2> QED
    BY <2>2, <2>5
<1>2. CaseInv /\ [CaseNext]_allVars => CaseInv'
  BY CaseInvStep
<1> QED
  BY <1>1, <1>2, CaseInvInit, PTL DEF CaseSpec

=============================================================================
