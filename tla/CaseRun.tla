------------------------------ MODULE CaseRun ------------------------------
(***************************************************************************)
(* prepare_case_run (case_operations.py) on the rig of Rig: binds a        *)
(* prepared operation's candidate to a run of a rig that was staged for    *)
(* it, and records a RUN_PREPARED receipt.  The call looks at the rig      *)
(* first, lets prepare_run look at it again, write the manifest and take   *)
(* the rig, and then compares what prepare_run saw; meanwhile others edit  *)
(* the working copies, stage, tamper, reset, and use other run ids, and    *)
(* the call may die between any two steps and be made again.               *)
(*                                                                         *)
(* An operation is its candidate: the target, and the selected closure,    *)
(* the bytes of the target and of what it depends on when it was captured. *)
(***************************************************************************)
EXTENDS Rig

ASSUME CaseAssumption == "case" \in Given

VARIABLES
  call,     \* the prepare_case_run call that uses each run id
  receipts  \* operations/<id>/runs/<digest of rig and run id>.json

caseVars == <<call, receipts>>
allVars == <<vars, caseVars>>

Closures == PartialMaps(Mods)
CasePoints == {"reference", "staged", "now", "prepare", "context", "settle", "record"}
NoCall == [pc |-> "idle"]
Calls == [pc : CasePoints, target : Targets, closure : Closures] \union {NoCall}
Receipts == [run : Runs, target : Targets, closure : Closures, manifest : Manifests]

CaseInit ==
  /\ Init
  /\ call = [r \in Runs |-> NoCall]
  /\ receipts = {}

InCase(r, here) == call[r].pc = here

Continue(r, there) == call' = [call EXCEPT ![r].pc = there]
GiveUp(r) == call' = [call EXCEPT ![r] = NoCall]

(* One look at the world: go on, or refuse.                                *)
Require(r, here, there, holds) ==
  /\ InCase(r, here)
  /\ IF holds THEN Continue(r, there) ELSE GiveUp(r)
  /\ UNCHANGED <<vars, receipts>>

-----------------------------------------------------------------------------
(* The files a mod is made from: its working copy, or files nobody edits.  *)
SourceOf(m) == IF m \in Targets THEN working[m] ELSE 0

(* _current: target and context are what the candidate was captured from.  *)
Current(o) == \A m \in DOMAIN o.closure : SourceOf(m) = o.closure[m]

(* _run_context: the enabled mods are the candidate's payload and, as they *)
(* are now, the mods it depends on; and the candidate is the run's target. *)
Selected(o) ==
  [m \in DOMAIN o.closure |-> IF m = o.target THEN o.closure[m] ELSE SourceOf(m)]

RunContext(o, entries, bound) ==
  /\ entries = Selected(o)
  /\ o.target \in DOMAIN bound /\ bound[o.target] = o.closure[o.target]

-----------------------------------------------------------------------------
(* qualify_case finds the candidate current, or the call is refused.       *)
PrepareCaseRun(r) ==
  \E t \in Targets, others \in SUBSET Mods :
    /\ At(r, "idle")
    /\ InCase(r, "idle")
    /\ call' = [call EXCEPT ![r] =
         [pc |-> "reference", target |-> t,
          closure |-> [m \in others \union {t} |-> SourceOf(m)]]]
    /\ UNCHANGED <<vars, receipts>>

Earlier(r) ==
  {b \in receipts : b.run = r /\ b.target = call[r].target /\ b.closure = call[r].closure}

(* An earlier receipt must name the run's manifest; without one the rig    *)
(* must be free, or owned by this run.                                     *)
CheckReference(r) ==
  /\ InCase(r, "reference")
  /\ IF Earlier(r) # {}
       THEN Require(r, "reference", "context", \A b \in Earlier(r) : b.manifest = manifest[r])
       ELSE Require(r, "reference", "staged",
                    owner = NoRun \/ (owner = r /\ manifest[r] # NoManifest))

(* The candidate alone is staged from a working copy, and the enabled mods *)
(* are the expected ones.                                                  *)
CheckStaged(r) ==
  Require(r, "staged", "now",
          /\ candidates = {call[r].target}
          /\ RunContext(call[r], Entries, [m \in {call[r].target} |-> call[r].closure[m]]))

(* Still current: prepare_run is called.                                   *)
CallPrepareRun(r) ==
  /\ InCase(r, "now")
  /\ Current(call[r])
  /\ Begin(r, "case")
  /\ Continue(r, "prepare")
  /\ UNCHANGED receipts

NotCurrent(r) ==
  /\ InCase(r, "now")
  /\ ~Current(call[r])
  /\ GiveUp(r)
  /\ UNCHANGED <<vars, receipts>>

(* prepare_run returns a manifest that is there already, or the new one    *)
(* when the rig is owned; otherwise it raises.                             *)
Returns(r) ==
  \/ At(r, "own")
  \/ At(r, "write") /\ manifest[r] = [entries |-> session[r].entries, bound |-> session[r].bound]

(* Its steps, for the candidate's working copy.                            *)
PrepareRunStep(r) ==
  /\ InCase(r, "prepare")
  /\ IF At(r, "bind") THEN BindTo(r, {call[r].target}) ELSE RunStep(r)
  /\ IF session'[r].pc # "idle" THEN UNCHANGED call
       ELSE IF Returns(r) THEN Continue(r, "context") ELSE GiveUp(r)
  /\ UNCHANGED receipts

(* Mutant: what prepare_run bound is not looked at again.                  *)
CheckContextNothing(r) == Require(r, "context", "settle", TRUE)

(* The prepared run is that of the expected context, whatever happened     *)
(* since that was looked at: or the call raises, and the rig stays owned.  *)
CheckContext(r) ==
  Require(r, "context", "settle",
          RunContext(call[r], manifest[r].entries, manifest[r].bound))

CheckCurrent(r) == Require(r, "settle", "record", Current(call[r]))

WriteReceipt(r) ==
  /\ InCase(r, "record")
  /\ IF \A b \in Earlier(r) : b.manifest = manifest[r]
       THEN receipts' = receipts \union
              {[run |-> r, target |-> call[r].target, closure |-> call[r].closure,
                manifest |-> manifest[r]]}
       ELSE UNCHANGED receipts
  /\ GiveUp(r)
  /\ UNCHANGED vars

(* The call fails or dies, also inside prepare_run.                        *)
CaseFails(r) ==
  /\ ~InCase(r, "idle")
  /\ GiveUp(r)
  /\ IF InCase(r, "prepare") THEN Interrupted(r) ELSE UNCHANGED vars
  /\ UNCHANGED receipts

CaseStep(r) ==
  \/ PrepareCaseRun(r) \/ CheckReference(r) \/ CheckStaged(r) \/ CallPrepareRun(r)
  \/ NotCurrent(r) \/ PrepareRunStep(r) \/ CheckContext(r) \/ CheckCurrent(r)
  \/ WriteReceipt(r) \/ CaseFails(r)

(* Other commands of a run id, while no case uses it.                      *)
OtherCommand(r) ==
  /\ InCase(r, "idle")
  /\ (\E cmd \in Given \ {"case"} : Begin(r, cmd)) \/ RunStep(r) \/ Interrupted(r)

CaseNext ==
  \/ \E r \in Runs : CaseStep(r)
  \/ (\E r \in Runs : OtherCommand(r)) /\ UNCHANGED caseVars
  \/ Surroundings /\ UNCHANGED caseVars

CaseSpec == CaseInit /\ [][CaseNext]_allVars

(* A command or a call that is running goes on; and whoever is told that a *)
(* run owns the rig finishes or releases it, as the refusal asks.          *)
GoesOn(r) ==
  \/ InCase(r, "idle") /\ RunStep(r) /\ UNCHANGED caseVars
  \/ CheckReference(r) \/ CheckStaged(r) \/ CallPrepareRun(r) \/ NotCurrent(r)
  \/ PrepareRunStep(r) \/ CheckContext(r) \/ CheckCurrent(r) \/ WriteReceipt(r)

Release(r) ==
  InCase(r, "idle") /\ owner = r /\ Begin(r, "release") /\ UNCHANGED caseVars

CaseFairness == \A r \in Runs : WF_allVars(GoesOn(r)) /\ SF_allVars(Release(r))

CaseLiveSpec == CaseSpec /\ CaseFairness

-----------------------------------------------------------------------------
(* The types of the rig and of the calls; a call that has its manifest has *)
(* one.                                                                    *)
CaseTypeOK ==
  /\ TypeOK
  /\ call \in [Runs -> Calls]
  /\ receipts \subseteq Receipts
  /\ \A r \in Runs :
       /\ call[r].pc \notin {"idle", "prepare"} => session[r].pc = "idle"
       /\ call[r].pc \in {"context", "settle", "record"} => manifest[r] # NoManifest

(* "Binds an already staged isolated rig": a RUN_PREPARED receipt names    *)
(* the run's manifest for good, and that is of exactly the candidate and   *)
(* of what it depends on, however the working copies, the rig and the      *)
(* runs changed between the looks at them.  So what is accepted of that    *)
(* run (property Evidence) is evidence for the bytes of the candidate.     *)
RunBound ==
  \A b \in receipts :
    /\ manifest[b.run] = b.manifest
    /\ b.manifest.entries = b.closure
    /\ b.manifest.bound[b.target] = b.closure[b.target]
    /\ Acceptable(b.run, b.target) /\ log[b.run].release = "kept" /\ log[b.run].clean =>
         log[b.run].inputs[b.target] = b.closure[b.target]
=============================================================================
