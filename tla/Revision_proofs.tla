-------------------------- MODULE Revision_proofs --------------------------
(***************************************************************************)
(* Theorems about Revision: types, what an accepted revision was tested    *)
(* as, what a complete one is archived as, and that Done/ is the shelf of  *)
(* archives of ArchiveShelf.                                               *)
(***************************************************************************)
EXTENDS Revision, TLAPS

Constants ==
  /\ Delivered \in Bodies
  /\ Refused \subseteq Bodies
  /\ MaxVersion \in Nat /\ MaxFaults \in Nat /\ MaxEdits \in Nat
  /\ MaxRuns \in Nat /\ MaxArchives \in Nat
  /\ Nothing \notin Bodies \union Tests \union Versions
  /\ Nothing \notin Bytes \union Runs \union Journals \union Archives

(* What a prepare call knows: its bump fits, and while it has chosen a     *)
(* version nothing is pending.                                             *)
PrepareFacts ==
  /\ call.pc \in {"opening", "pending"} /\ ~call.keep => call.old < MaxVersion
  /\ call.pc \in {"version", "save"} => call.rev \in Versions /\ Pending = {}

(* What a finalize call knows about its journal. *)
FinalizeFacts ==
  /\ call.pc \in FinalizePcs => call.rev \in Versions
  /\ call.pc \in {"finalize", "candidate", "run"} => call.test \in Tests
  /\ call.pc \in {"archiving", "written"} =>
       journal[call.rev] # Nothing /\ journal[call.rev].state = "LIVE_ACCEPTED"
  /\ call.pc = "run" => journal[call.rev] # Nothing /\ journal[call.rev].state # "COMPLETE"
  /\ call.pc = "archive" =>
       /\ journal[call.rev] # Nothing
       /\ journal[call.rev].state \in {"LIVE_ACCEPTED", "ARCHIVED", "SNAPSHOTTED"}
  /\ call.pc \in {"archived", "snapshot", "complete"} =>
       /\ journal[call.rev] # Nothing
       /\ Holds(done, journal[call.rev].candidate) \/ replaced
       /\ call.pc = "archived" => journal[call.rev].state = "LIVE_ACCEPTED"
       /\ call.pc = "snapshot" => journal[call.rev].state \in {"ARCHIVED", "SNAPSHOTTED"}
       /\ call.pc = "complete" => journal[call.rev].state = "SNAPSHOTTED"

(* Where the archiver is, what it set aside, and who is waiting for it. *)
ArchiverFacts ==
  /\ archiver.pc \in {"body", "putback"} => done = Nothing
  /\ archiver.pc \in {"info", "note"} => done # Nothing /\ ~done.note
  /\ archiver.pc = "log" => done # Nothing
  /\ archiver.pc \in ArchiverPcs \ {"aside"} =>
       kept = archiver.before \union WholeOf(archiver.moved)
  /\ archiver # Idle /\ ~archiver.plain => call.pc = "archiving"

(* A line bound to bytes is the line of a passing run that loaded them. *)
LinesTrue == \A t \in Tests : lines[t] # Nothing => lines[t] \in proven

IInv ==
  /\ TypeOK
  /\ LinesTrue
  /\ AcceptedWasTested
  /\ OnePending
  /\ PrepareFacts
  /\ FinalizeFacts
  /\ ArchiverFacts

LEMMA ConstantsHold == Constants
  BY DeliveredAssumption, RefusedAssumption, MaxVersionAssumption, MaxFaultsAssumption,
     MaxEditsAssumption, MaxRunsAssumption, MaxArchivesAssumption, NothingAssumption
     DEF Constants

LEMMA InitHolds == Init => IInv
<1> SUFFICES ASSUME Init PROVE IInv
  OBVIOUS
<1> USE ConstantsHold DEF Constants, Init
<1>1. TypeOK
  <2>1. call \in Calls /\ archiver \in Archivers /\ working \in Bytes
    BY DEF Calls, Archivers, Bytes, Versions
  <2>2. lines \in [Tests -> Bytes \union {Nothing}] /\ journal \in [Versions -> Journals \union {Nothing}]
    OBVIOUS
  <2>3. /\ faults \in 0..MaxFaults /\ edits \in 0..MaxEdits
        /\ runs \in 0..MaxRuns /\ archives \in 0..MaxArchives
    OBVIOUS
  <2>4. /\ staged \in Runs \union {Nothing} /\ trusted \in Runs \union {Nothing}
        /\ proven \subseteq Bytes /\ lock \in BOOLEAN
        /\ done \in Archives \union {Nothing} /\ kept \subseteq Archives
        /\ gates \in BOOLEAN /\ replaced \in BOOLEAN
    OBVIOUS
  <2> HIDE DEF Init
  <2> QED BY <2>1, <2>2, <2>3, <2>4 DEF TypeOK
<1>2. /\ LinesTrue
      /\ Known = {}
  BY DEF LinesTrue, Known
<1>3. AcceptedWasTested /\ OnePending
  BY <1>2 DEF AcceptedWasTested, OnePending, Pending
<1>4. PrepareFacts /\ FinalizeFacts /\ ArchiverFacts
  BY DEF PrepareFacts, FinalizeFacts, ArchiverFacts, Idle, FinalizePcs, ArchiverPcs
<1> QED BY <1>1, <1>2, <1>3, <1>4 DEF IInv

(* The shape of a call, and what Goto leaves of it. *)
LEMMA CallShape ==
  ASSUME call \in Calls
  PROVE  /\ call.pc \in PreparePcs => call \in PrepareCalls
         /\ call.pc \in FinalizePcs => call \in FinalizeCalls
<1>1. CASE call = Idle
  BY <1>1 DEF Idle, PreparePcs, FinalizePcs
<1>2. CASE call \in PrepareCalls
  BY <1>2 DEF PrepareCalls, PreparePcs, FinalizePcs
<1>3. CASE call \in FinalizeCalls
  BY <1>3 DEF FinalizeCalls, PreparePcs, FinalizePcs
<1> QED BY <1>1, <1>2, <1>3 DEF Calls

LEMMA IdleIsCall == Idle \in Calls /\ Idle.pc = "idle"
BY DEF Calls, Idle

(* The same of the archiver. *)
LEMMA ArchiverShape ==
  ASSUME archiver \in Archivers
  PROVE  /\ archiver # Idle <=> archiver.pc \in ArchiverPcs
         /\ archiver # Idle => archiver \in ArchiverCalls
BY DEF Archivers, ArchiverCalls, Idle, ArchiverPcs

LEMMA IdleIsArchiver == Idle \in Archivers
BY DEF Archivers

LEMMA ProceedFacts ==
  ASSUME archiver \in ArchiverCalls, NEW pc \in ArchiverPcs, Proceed(pc)
  PROVE  /\ archiver' \in ArchiverCalls /\ archiver' \in Archivers /\ archiver'.pc = pc
         /\ archiver'.plain = archiver.plain
         /\ archiver'.moved = archiver.moved /\ archiver'.before = archiver.before
BY DEF Proceed, ArchiverCalls, Archivers

LEMMA RaiseFacts ==
  ASSUME Raise
  PROVE  /\ archiver' = Idle
         /\ \/ archiver.plain /\ UNCHANGED <<call, lock>>
            \/ ~archiver.plain /\ call' = Idle /\ lock' = FALSE
BY DEF Raise, Return

LEMMA GotoPrepare ==
  ASSUME call \in PrepareCalls, NEW pc \in PreparePcs, Goto(pc)
  PROVE  /\ call' \in PrepareCalls /\ call' \in Calls /\ call'.pc = pc
         /\ call'.keep = call.keep /\ call'.old = call.old /\ call'.rev = call.rev
BY DEF Goto, PrepareCalls, Calls

LEMMA GotoFinalize ==
  ASSUME call \in FinalizeCalls, NEW pc \in FinalizePcs, Goto(pc)
  PROVE  /\ call' \in FinalizeCalls /\ call' \in Calls /\ call'.pc = pc
         /\ call'.rev = call.rev /\ call'.test = call.test
BY DEF Goto, FinalizeCalls, Calls

(* A journal entry that is replaced. *)
LEMMA EntryReplaced ==
  ASSUME Constants, TypeOK, NEW v \in Versions, NEW j \in Journals,
         journal' = [journal EXCEPT ![v] = j]
  PROVE  /\ journal' \in [Versions -> Journals \union {Nothing}]
         /\ \A u \in Versions : u # v => journal'[u] = journal[u]
         /\ journal'[v] = j
         /\ j # Nothing
BY DEF Constants, TypeOK

(* A journal entry whose state is set. *)
LEMMA SetStateFacts ==
  ASSUME Constants, TypeOK, call.rev \in Versions, journal[call.rev] # Nothing,
         NEW state \in States, SetState(state)
  PROVE  /\ journal' \in [Versions -> Journals \union {Nothing}]
         /\ \A v \in Versions : v # call.rev => journal'[v] = journal[v]
         /\ journal'[call.rev] # Nothing
         /\ journal'[call.rev].state = state
         /\ journal'[call.rev].candidate = journal[call.rev].candidate
         /\ journal'[call.rev].test = journal[call.rev].test
<1> DEFINE j == [journal[call.rev] EXCEPT !.state = state]
<1>1. journal[call.rev] \in Journals
  BY DEF TypeOK
<1>2. /\ j \in Journals /\ j.state = state
      /\ j.candidate = journal[call.rev].candidate /\ j.test = journal[call.rev].test
  BY <1>1 DEF Journals
<1>3. journal' = [journal EXCEPT ![call.rev] = j]
  BY DEF SetState
<1> HIDE DEF j
<1> QED BY <1>2, <1>3, EntryReplaced

LEMMA PrepareKeeps ==
  ASSUME IInv, NEW keep \in BOOLEAN, NEW refresh \in BOOLEAN, Prepare(keep, refresh)
  PROVE  IInv'
<1> USE ConstantsHold, IdleIsCall DEF Constants, IInv, Prepare, evidence, archive, shelving, bounds, Versions
<1>0. call' \in Calls /\ call' \in PrepareCalls /\ call'.pc = "opening" /\ call'.keep = keep /\ call'.old = working.version
  BY DEF Calls, PrepareCalls, PreparePcs, TypeOK, Bytes
<1>1. TypeOK'
  BY <1>0 DEF TypeOK, Bytes, Runs, Journals, Archives, States
<1>2. LinesTrue'
  BY <1>0 DEF LinesTrue, TypeOK, Runs
<1>3. AcceptedWasTested'
  BY <1>0 DEF AcceptedWasTested, Known, TypeOK, FinalizeFacts, LinesTrue
<1>4. OnePending'
  BY <1>0 DEF OnePending, Pending, Known, PrepareFacts, FinalizeFacts, TypeOK
<1>5. PrepareFacts'
  BY <1>0 DEF PrepareFacts, Pending, Known, TypeOK, Bytes, PreparePcs, FinalizePcs, ArchiverPcs
<1>6. FinalizeFacts'
  BY <1>0 DEF FinalizeFacts, PrepareFacts, TypeOK, PreparePcs, FinalizePcs, ArchiverPcs
<1>7. ArchiverFacts'
  BY <1>0 DEF ArchiverFacts, PreparePcs, FinalizePcs
<1> QED BY <1>1, <1>2, <1>3, <1>4, <1>5, <1>6, <1>7 DEF IInv

LEMMA LockKeeps ==
  ASSUME IInv, Lock
  PROVE  IInv'
<1> USE ConstantsHold, IdleIsCall DEF Constants, IInv, Lock, evidence, archive, shelving, bounds, Versions
<1>0. \/ call' = Idle
      \/ /\ call.pc = "opening" /\ call' \in PrepareCalls /\ call' \in Calls /\ call'.pc = "pending"
         /\ call'.keep = call.keep /\ call'.old = call.old
      \/ /\ call.pc = "finalize" /\ call' \in FinalizeCalls /\ call' \in Calls /\ call'.pc = "candidate"
         /\ call'.rev = call.rev /\ call'.test = call.test
  BY CallShape, GotoPrepare, GotoFinalize DEF TypeOK, PreparePcs, FinalizePcs
<1>1. TypeOK'
  BY <1>0 DEF TypeOK, Bytes, Runs, Journals, Archives, States
<1>2. LinesTrue'
  BY <1>0 DEF LinesTrue, TypeOK, Runs
<1>3. AcceptedWasTested'
  BY <1>0 DEF AcceptedWasTested, Known, TypeOK, FinalizeFacts, LinesTrue
<1>4. OnePending'
  BY <1>0 DEF OnePending, Pending, Known, PrepareFacts, FinalizeFacts, TypeOK
<1>5. PrepareFacts'
  BY <1>0 DEF PrepareFacts, Pending, Known, TypeOK, Bytes, PreparePcs, FinalizePcs, ArchiverPcs
<1>6. FinalizeFacts'
  BY <1>0 DEF FinalizeFacts, PrepareFacts, TypeOK, PreparePcs, FinalizePcs, ArchiverPcs
<1>7. ArchiverFacts'
  BY <1>0 DEF ArchiverFacts, PreparePcs, FinalizePcs
<1> QED BY <1>1, <1>2, <1>3, <1>4, <1>5, <1>6, <1>7 DEF IInv

LEMMA ResumePendingKeeps ==
  ASSUME IInv, ResumePending
  PROVE  IInv'
<1> USE ConstantsHold, IdleIsCall DEF Constants, IInv, ResumePending, evidence, archive, shelving, bounds, Versions
<1>0. /\ call' = Idle
      /\ journal' \in [Versions -> Journals \union {Nothing}]
      /\ \A v \in Versions :
           \/ journal'[v] = journal[v]
           \/ /\ journal[v] # Nothing /\ journal[v].state = "PREPARED"
              /\ journal'[v] # Nothing /\ journal'[v].state = "PREPARED"
  <2>1. CASE \E v \in Pending : Pending = {v}
    <3>1. PICK v \in Pending : Pending = {v}
      BY <2>1
    <3>2. journal' = Refreshed(v) /\ v \in Versions /\ journal[v] # Nothing
      BY <2>1, <3>1 DEF Pending, Known
    <3>3. CASE journal' = journal
      BY <3>3 DEF TypeOK, Return
    <3>4. CASE journal' # journal
      <4> DEFINE j == [journal[v] EXCEPT !.candidate = working]
      <4>1. journal[v].state = "PREPARED" /\ journal' = [journal EXCEPT ![v] = j]
        BY <3>2, <3>4 DEF Refreshed
      <4>2. journal[v] \in Journals /\ working \in Bytes
        BY <3>2 DEF TypeOK
      <4>3. j \in Journals /\ j.state = "PREPARED"
        BY <4>1, <4>2 DEF Journals
      <4> HIDE DEF j
      <4> QED BY <3>2, <4>1, <4>3, EntryReplaced DEF Return
    <3> QED BY <3>3, <3>4
  <2>2. CASE ~\E v \in Pending : Pending = {v}
    BY <2>2 DEF TypeOK, Return
  <2> QED BY <2>1, <2>2
<1>1. TypeOK'
  BY <1>0 DEF TypeOK, Bytes, Runs, Journals, Archives, States, Return
<1>2. LinesTrue'
  BY <1>0 DEF LinesTrue, TypeOK, Runs
<1>3. AcceptedWasTested'
  BY <1>0 DEF AcceptedWasTested, Known, TypeOK, FinalizeFacts, LinesTrue
<1>4. OnePending'
  BY <1>0 DEF OnePending, Pending, Known, PrepareFacts, FinalizeFacts, TypeOK
<1>5. PrepareFacts'
  BY <1>0 DEF PrepareFacts, Pending, Known, TypeOK, Bytes, PreparePcs, FinalizePcs, ArchiverPcs
<1>6. FinalizeFacts'
  BY <1>0 DEF FinalizeFacts, PrepareFacts, TypeOK, PreparePcs, FinalizePcs, ArchiverPcs
<1>7. ArchiverFacts'
  BY <1>0 DEF ArchiverFacts, PreparePcs, FinalizePcs
<1> QED BY <1>1, <1>2, <1>3, <1>4, <1>5, <1>6, <1>7 DEF IInv

LEMMA ChooseVersionKeeps ==
  ASSUME IInv, ChooseVersion
  PROVE  IInv'
<1> USE ConstantsHold, IdleIsCall DEF Constants, IInv, ChooseVersion, evidence, archive, shelving, bounds, Versions
<1>0. \/ call' = Idle
      \/ /\ call' \in PrepareCalls /\ call' \in Calls /\ call'.pc = "version" /\ call'.rev \in Versions
  <2> DEFINE new == IF call.keep THEN call.old ELSE call.old + 1
  <2>1. call \in PrepareCalls
    BY CallShape DEF TypeOK, PreparePcs
  <2>2. new \in Versions
    BY <2>1 DEF PrepareFacts, PrepareCalls
  <2>3. CASE done # Nothing /\ done.version = new
    BY <2>3 DEF Return
  <2>4. CASE ~(done # Nothing /\ done.version = new)
    <3>1. call' = [call EXCEPT !.pc = "version", !.rev = new]
      BY <2>4
    <3> HIDE DEF new
    <3> QED BY <2>1, <2>2, <3>1 DEF PrepareCalls, PreparePcs, Calls
  <2> QED BY <2>3, <2>4
<1>1. TypeOK'
  BY <1>0 DEF TypeOK, Bytes, Runs, Journals, Archives, States, Return
<1>2. LinesTrue'
  BY <1>0 DEF LinesTrue, TypeOK, Runs
<1>3. AcceptedWasTested'
  BY <1>0 DEF AcceptedWasTested, Known, TypeOK, FinalizeFacts, LinesTrue
<1>4. OnePending'
  BY <1>0 DEF OnePending, Pending, Known, PrepareFacts, FinalizeFacts, TypeOK
<1>5. PrepareFacts'
  BY <1>0 DEF PrepareFacts, Pending, Known, TypeOK, Bytes, PreparePcs, FinalizePcs, ArchiverPcs
<1>6. FinalizeFacts'
  BY <1>0 DEF FinalizeFacts, PrepareFacts, TypeOK, PreparePcs, FinalizePcs, ArchiverPcs
<1>7. ArchiverFacts'
  BY <1>0 DEF ArchiverFacts, PreparePcs, FinalizePcs
<1> QED BY <1>1, <1>2, <1>3, <1>4, <1>5, <1>6, <1>7 DEF IInv

LEMMA WriteVersionKeeps ==
  ASSUME IInv, WriteVersion
  PROVE  IInv'
<1> USE ConstantsHold, IdleIsCall DEF Constants, IInv, WriteVersion, evidence, archive, shelving, bounds, Versions
<1>0. /\ call \in PrepareCalls
      /\ \/ call' = Idle
         \/ /\ call' \in PrepareCalls /\ call' \in Calls /\ call'.pc \in {"save"}
            /\ call'.keep = call.keep /\ call'.old = call.old /\ call'.rev = call.rev
  BY CallShape, GotoPrepare DEF TypeOK, Return, PreparePcs, FinalizePcs, ArchiverPcs
<1>1. TypeOK'
  <2>1. working' \in Bytes
    <3>1. CASE call.keep
      BY <3>1 DEF TypeOK
    <3>2. CASE ~call.keep
      BY <3>2 DEF TypeOK, Bytes, PrepareFacts
    <3> QED BY <3>1, <3>2
  <2> QED BY <1>0, <2>1 DEF TypeOK, Return
<1>2. LinesTrue'
  BY <1>0 DEF LinesTrue, TypeOK, Runs
<1>3. AcceptedWasTested'
  BY <1>0 DEF AcceptedWasTested, Known, TypeOK, FinalizeFacts, LinesTrue
<1>4. OnePending'
  BY <1>0 DEF OnePending, Pending, Known, PrepareFacts, FinalizeFacts, TypeOK
<1>5. PrepareFacts'
  BY <1>0 DEF PrepareFacts, Pending, Known, TypeOK, Bytes, PreparePcs, FinalizePcs, ArchiverPcs
<1>6. FinalizeFacts'
  BY <1>0 DEF FinalizeFacts, PrepareFacts, TypeOK, PreparePcs, FinalizePcs, ArchiverPcs
<1>7. ArchiverFacts'
  BY <1>0 DEF ArchiverFacts, PreparePcs, FinalizePcs
<1> QED BY <1>1, <1>2, <1>3, <1>4, <1>5, <1>6, <1>7 DEF IInv

LEMMA SavePreparedKeeps ==
  ASSUME IInv, SavePrepared
  PROVE  IInv'
<1> USE ConstantsHold, IdleIsCall DEF Constants, IInv, SavePrepared, evidence, archive, shelving, bounds, Versions
<1>0. /\ call \in PrepareCalls
      /\ \/ call' = Idle
  BY CallShape, GotoPrepare DEF TypeOK, Return, PreparePcs, FinalizePcs, ArchiverPcs
<1>1. TypeOK'
  BY <1>0 DEF TypeOK, Bytes, Runs, Journals, Archives, States, Return
<1>2. LinesTrue'
  BY <1>0 DEF LinesTrue, TypeOK, Runs
<1>3. AcceptedWasTested'
  BY <1>0 DEF AcceptedWasTested, Known, TypeOK, FinalizeFacts, LinesTrue
<1>4. OnePending'
  BY <1>0 DEF OnePending, Pending, Known, PrepareFacts, FinalizeFacts, TypeOK
<1>5. PrepareFacts'
  BY <1>0 DEF PrepareFacts, Pending, Known, TypeOK, Bytes, PreparePcs, FinalizePcs, ArchiverPcs
<1>6. FinalizeFacts'
  BY <1>0 DEF FinalizeFacts, PrepareFacts, TypeOK, PreparePcs, FinalizePcs, ArchiverPcs
<1>7. ArchiverFacts'
  BY <1>0 DEF ArchiverFacts, PreparePcs, FinalizePcs
<1> QED BY <1>1, <1>2, <1>3, <1>4, <1>5, <1>6, <1>7 DEF IInv

LEMMA PlayKeeps ==
  ASSUME IInv, NEW t \in Tests, Play(t)
  PROVE  IInv'
<1> USE ConstantsHold, IdleIsCall DEF Constants, IInv, Play, evidence, archive, shelving, bounds, Versions
<1>1. TypeOK'
  BY DEF TypeOK, Bytes, Runs, Journals, Archives, States
<1>2. LinesTrue'
  BY DEF LinesTrue, TypeOK, Runs
<1>3. AcceptedWasTested'
  BY DEF AcceptedWasTested, Known, TypeOK, FinalizeFacts, LinesTrue
<1>4. OnePending'
  BY DEF OnePending, Pending, Known, PrepareFacts, FinalizeFacts, TypeOK
<1>5. PrepareFacts'
  BY DEF PrepareFacts, Pending, Known, TypeOK, Bytes, PreparePcs, FinalizePcs, ArchiverPcs
<1>6. FinalizeFacts'
  BY DEF FinalizeFacts, PrepareFacts, TypeOK, PreparePcs, FinalizePcs, ArchiverPcs
<1>7. ArchiverFacts'
  BY DEF ArchiverFacts, PreparePcs, FinalizePcs
<1> QED BY <1>1, <1>2, <1>3, <1>4, <1>5, <1>6, <1>7 DEF IInv

LEMMA RecordKeeps ==
  ASSUME IInv, NEW pass \in BOOLEAN, NEW acceptable \in BOOLEAN, Record(pass, acceptable)
  PROVE  IInv'
<1> USE ConstantsHold, IdleIsCall DEF Constants, IInv, Record, evidence, archive, shelving, bounds, Versions
<1>1. TypeOK'
  BY DEF TypeOK, Bytes, Runs, Journals, Archives, States
<1>2. LinesTrue'
  BY DEF LinesTrue, TypeOK, Runs
<1>3. AcceptedWasTested'
  BY DEF AcceptedWasTested, Known, TypeOK, FinalizeFacts, LinesTrue
<1>4. OnePending'
  BY DEF OnePending, Pending, Known, PrepareFacts, FinalizeFacts, TypeOK
<1>5. PrepareFacts'
  BY DEF PrepareFacts, Pending, Known, TypeOK, Bytes, PreparePcs, FinalizePcs, ArchiverPcs
<1>6. FinalizeFacts'
  BY DEF FinalizeFacts, PrepareFacts, TypeOK, PreparePcs, FinalizePcs, ArchiverPcs
<1>7. ArchiverFacts'
  BY DEF ArchiverFacts, PreparePcs, FinalizePcs
<1> QED BY <1>1, <1>2, <1>3, <1>4, <1>5, <1>6, <1>7 DEF IInv

LEMMA FinalizeKeeps ==
  ASSUME IInv, NEW v \in Versions, NEW t \in Tests, Finalize(v, t)
  PROVE  IInv'
<1> USE ConstantsHold, IdleIsCall DEF Constants, IInv, Finalize, evidence, archive, shelving, bounds, Versions
<1>0. /\ call' \in FinalizeCalls /\ call' \in Calls /\ call'.pc = "finalize"
      /\ call'.rev = v /\ call'.test = t
  BY DEF FinalizeCalls, Calls, FinalizePcs
<1>1. TypeOK'
  BY <1>0 DEF TypeOK, Bytes, Runs, Journals, Archives, States
<1>2. LinesTrue'
  BY <1>0 DEF LinesTrue, TypeOK, Runs
<1>3. AcceptedWasTested'
  BY <1>0 DEF AcceptedWasTested, Known, TypeOK, FinalizeFacts, LinesTrue
<1>4. OnePending'
  BY <1>0 DEF OnePending, Pending, Known, PrepareFacts, FinalizeFacts, TypeOK
<1>5. PrepareFacts'
  BY <1>0 DEF PrepareFacts, Pending, Known, TypeOK, Bytes, PreparePcs, FinalizePcs, ArchiverPcs
<1>6. FinalizeFacts'
  BY <1>0 DEF FinalizeFacts, PrepareFacts, TypeOK, PreparePcs, FinalizePcs, ArchiverPcs
<1>7. ArchiverFacts'
  BY <1>0 DEF ArchiverFacts, PreparePcs, FinalizePcs
<1> QED BY <1>1, <1>2, <1>3, <1>4, <1>5, <1>6, <1>7 DEF IInv

LEMMA CheckCandidateKeeps ==
  ASSUME IInv, CheckCandidate
  PROVE  IInv'
<1> USE ConstantsHold, IdleIsCall DEF Constants, IInv, CheckCandidate, Entry, evidence, archive, shelving, bounds, Versions
<1>0. /\ call \in FinalizeCalls
      /\ \/ call' = Idle
         \/ /\ call' \in FinalizeCalls /\ call' \in Calls /\ call'.pc \in {"run"}
            /\ call'.rev = call.rev /\ call'.test = call.test
  BY CallShape, GotoFinalize DEF TypeOK, Return, PreparePcs, FinalizePcs, ArchiverPcs
<1>1. TypeOK'
  BY <1>0 DEF TypeOK, Bytes, Runs, Journals, Archives, States, Return
<1>2. LinesTrue'
  BY <1>0 DEF LinesTrue, TypeOK, Runs
<1>3. AcceptedWasTested'
  BY <1>0 DEF AcceptedWasTested, Known, TypeOK, FinalizeFacts, LinesTrue
<1>4. OnePending'
  BY <1>0 DEF OnePending, Pending, Known, PrepareFacts, FinalizeFacts, TypeOK
<1>5. PrepareFacts'
  BY <1>0 DEF PrepareFacts, Pending, Known, TypeOK, Bytes, PreparePcs, FinalizePcs, ArchiverPcs
<1>6. FinalizeFacts'
  <2>1. CASE call' = Idle
    BY <2>1 DEF FinalizeFacts, FinalizePcs, ArchiverPcs
  <2>2. CASE call' # Idle
    <3>1. journal[call.rev] # Nothing /\ journal[call.rev].state # "COMPLETE"
      BY <2>2 DEF Return
    <3> QED BY <1>0, <2>2, <3>1 DEF FinalizeFacts, FinalizePcs, ArchiverPcs
  <2> QED BY <2>1, <2>2
<1>7. ArchiverFacts'
  BY <1>0 DEF ArchiverFacts, PreparePcs, FinalizePcs
<1> QED BY <1>1, <1>2, <1>3, <1>4, <1>5, <1>6, <1>7 DEF IInv

LEMMA BoundRunKeeps ==
  ASSUME IInv, BoundRun
  PROVE  IInv'
<1> USE ConstantsHold, IdleIsCall DEF Constants, IInv, BoundRun, Entry, evidence, archive, shelving, bounds, Versions
<1>0. /\ call \in FinalizeCalls
      /\ \/ /\ call' \in FinalizeCalls /\ call' \in Calls /\ call'.pc \in {"archive"}
            /\ call'.rev = call.rev /\ call'.test = call.test
  BY CallShape, GotoFinalize DEF TypeOK, Return, PreparePcs, FinalizePcs, ArchiverPcs
<1>a. /\ call.rev \in Versions /\ call.test \in Tests
      /\ journal[call.rev] # Nothing /\ journal[call.rev].state # "COMPLETE"
      /\ journal[call.rev] \in Journals
  BY DEF FinalizeFacts, FinalizePcs, TypeOK
<1>b. /\ journal' \in [Versions -> Journals \union {Nothing}]
      /\ \A v \in Versions : v # call.rev => journal'[v] = journal[v]
      /\ journal'[call.rev] # Nothing
      /\ journal'[call.rev].candidate = journal[call.rev].candidate
      /\ journal'[call.rev].state =
            IF journal[call.rev].state = "PREPARED" THEN "LIVE_ACCEPTED" ELSE journal[call.rev].state
  <2>1. CASE journal[call.rev].state = "PREPARED"
    <3> DEFINE j == [journal[call.rev] EXCEPT !.state = "LIVE_ACCEPTED", !.test = call.test]
    <3>1. /\ j \in Journals /\ j.state = "LIVE_ACCEPTED"
          /\ j.candidate = journal[call.rev].candidate
      BY <1>a DEF Journals, States
    <3>2. journal' = [journal EXCEPT ![call.rev] = j]
      BY <1>a, <2>1 DEF Entry, TypeOK
    <3> HIDE DEF j
    <3> QED BY <1>a, <2>1, <3>1, <3>2, EntryReplaced
  <2>2. CASE journal[call.rev].state # "PREPARED"
    BY <1>a, <2>2 DEF Entry, TypeOK
  <2> QED BY <2>1, <2>2
<1>1. TypeOK'
  BY <1>0, <1>b DEF TypeOK
<1>2. LinesTrue'
  BY <1>0 DEF LinesTrue, TypeOK, Runs
<1>3. AcceptedWasTested'
  <2>1. /\ journal[call.rev].candidate \in proven
        /\ journal[call.rev].candidate.version = call.rev
    <3>1. lines[call.test] = journal[call.rev].candidate /\ lines[call.test].version = call.rev
      BY DEF Qualifies
    <3>2. lines[call.test] # Nothing
      BY <1>a, <3>1 DEF Journals
    <3> QED BY <1>a, <3>1, <3>2 DEF LinesTrue
  <2> QED BY <1>a, <1>b, <2>1 DEF AcceptedWasTested, Known
<1>4. OnePending'
  BY <1>a, <1>b DEF OnePending, Pending, Known
<1>5. PrepareFacts'
  BY <1>0 DEF PrepareFacts, Pending, Known, TypeOK, Bytes, PreparePcs, FinalizePcs, ArchiverPcs
<1>6. FinalizeFacts'
  BY <1>0, <1>a, <1>b DEF FinalizeFacts, FinalizePcs, ArchiverPcs, Journals, States
<1>7. ArchiverFacts'
  BY <1>0 DEF ArchiverFacts, PreparePcs, FinalizePcs
<1> QED BY <1>1, <1>2, <1>3, <1>4, <1>5, <1>6, <1>7 DEF IInv

LEMMA RunRefusedKeeps ==
  ASSUME IInv, RunRefused
  PROVE  IInv'
<1> USE ConstantsHold, IdleIsCall DEF Constants, IInv, RunRefused, Entry, evidence, archive, shelving, bounds, Versions
<1>0. /\ call \in FinalizeCalls
      /\ \/ call' = Idle
  BY CallShape, GotoFinalize DEF TypeOK, Return, PreparePcs, FinalizePcs, ArchiverPcs
<1>1. TypeOK'
  BY <1>0 DEF TypeOK, Bytes, Runs, Journals, Archives, States, Return
<1>2. LinesTrue'
  BY <1>0 DEF LinesTrue, TypeOK, Runs
<1>3. AcceptedWasTested'
  BY <1>0 DEF AcceptedWasTested, Known, TypeOK, FinalizeFacts, LinesTrue
<1>4. OnePending'
  BY <1>0 DEF OnePending, Pending, Known, PrepareFacts, FinalizeFacts, TypeOK
<1>5. PrepareFacts'
  BY <1>0 DEF PrepareFacts, Pending, Known, TypeOK, Bytes, PreparePcs, FinalizePcs, ArchiverPcs
<1>6. FinalizeFacts'
  BY <1>0 DEF FinalizeFacts, PrepareFacts, TypeOK, PreparePcs, FinalizePcs, ArchiverPcs
<1>7. ArchiverFacts'
  BY <1>0 DEF ArchiverFacts, PreparePcs, FinalizePcs
<1> QED BY <1>1, <1>2, <1>3, <1>4, <1>5, <1>6, <1>7 DEF IInv

LEMMA StepArchiveKeeps ==
  ASSUME IInv, StepArchive
  PROVE  IInv'
<1> USE ConstantsHold, IdleIsCall DEF Constants, IInv, StepArchive, Entry, evidence, archive, shelving, bounds, Versions
<1>0. /\ call \in FinalizeCalls
      /\ \/ call' = Idle
         \/ /\ call' \in FinalizeCalls /\ call' \in Calls
            /\ call'.pc = IF Holds(done, Entry.candidate)
                           THEN IF Entry.state = "LIVE_ACCEPTED" THEN "archived" ELSE "snapshot"
                           ELSE "archiving"
            /\ call'.rev = call.rev /\ call'.test = call.test
  BY CallShape, GotoFinalize DEF TypeOK, Return, FinalizePcs, ArchiverPcs
<1>1. TypeOK'
  BY <1>0 DEF TypeOK, Bytes, Runs, Journals, Archives, States, Return
<1>2. LinesTrue'
  BY <1>0 DEF LinesTrue, TypeOK, Runs
<1>3. AcceptedWasTested'
  BY <1>0 DEF AcceptedWasTested, Known, TypeOK, FinalizeFacts, LinesTrue
<1>4. OnePending'
  BY <1>0 DEF OnePending, Pending, Known, PrepareFacts, FinalizeFacts, TypeOK
<1>5. PrepareFacts'
  BY <1>0 DEF PrepareFacts, Pending, Known, TypeOK, Bytes, PreparePcs, FinalizePcs, ArchiverPcs
<1>6. FinalizeFacts'
  <2>1. CASE call' = Idle
    BY <2>1 DEF FinalizeFacts, FinalizePcs, ArchiverPcs
  <2>2. CASE call' # Idle
    <3>1. call.rev \in Versions
      BY DEF FinalizeFacts, FinalizePcs
    <3>2. /\ journal[call.rev] # Nothing
          /\ journal[call.rev].state \in {"LIVE_ACCEPTED", "ARCHIVED", "SNAPSHOTTED"}
      BY DEF FinalizeFacts
    <3>3. CASE Holds(done, Entry.candidate)
      BY <1>0, <2>2, <3>1, <3>2, <3>3 DEF FinalizeFacts, FinalizePcs, ArchiverPcs
    <3>4. CASE ~Holds(done, Entry.candidate)
      <4>1. journal[call.rev].state = "LIVE_ACCEPTED"
        BY <2>2, <3>4 DEF Return
      <4> QED BY <1>0, <2>2, <3>1, <3>2, <3>4, <4>1 DEF FinalizeFacts, FinalizePcs, ArchiverPcs
    <3> QED BY <3>3, <3>4
  <2> QED BY <2>1, <2>2
<1>7. ArchiverFacts'
  BY <1>0 DEF ArchiverFacts, PreparePcs, FinalizePcs
<1> QED BY <1>1, <1>2, <1>3, <1>4, <1>5, <1>6, <1>7 DEF IInv

LEMMA SetArchivedKeeps ==
  ASSUME IInv, SetArchived
  PROVE  IInv'
<1> USE ConstantsHold, IdleIsCall DEF Constants, IInv, SetArchived, evidence, archive, shelving, bounds, Versions
<1>0. /\ call \in FinalizeCalls
      /\ \/ /\ call' \in FinalizeCalls /\ call' \in Calls /\ call'.pc \in {"snapshot"}
            /\ call'.rev = call.rev /\ call'.test = call.test
  BY CallShape, GotoFinalize DEF TypeOK, Return, PreparePcs, FinalizePcs, ArchiverPcs
<1>a. /\ journal' \in [Versions -> Journals \union {Nothing}]
      /\ \A v \in Versions : v # call.rev => journal'[v] = journal[v]
      /\ journal'[call.rev] # Nothing
      /\ journal'[call.rev].state = "ARCHIVED"
      /\ journal'[call.rev].candidate = journal[call.rev].candidate
  <2>1. call.rev \in Versions /\ journal[call.rev] # Nothing /\ "ARCHIVED" \in States
    BY DEF FinalizeFacts, FinalizePcs, States
  <2>2. SetState("ARCHIVED")
    BY DEF SetArchived
  <2> QED BY <2>1, <2>2, SetStateFacts
<1>b. /\ call.rev \in Versions /\ journal[call.rev] # Nothing
      /\ journal[call.rev].state \in {"LIVE_ACCEPTED", "ARCHIVED", "SNAPSHOTTED"}
      /\ Holds(done, journal[call.rev].candidate) \/ replaced
  BY DEF FinalizeFacts, FinalizePcs
<1>1. TypeOK'
  BY <1>0, <1>a DEF TypeOK, Return
<1>2. LinesTrue'
  BY <1>0 DEF LinesTrue, TypeOK, Runs
<1>3. AcceptedWasTested'
  BY <1>a, <1>b DEF AcceptedWasTested, Known
<1>4. OnePending'
  BY <1>a, <1>b DEF OnePending, Pending, Known
<1>5. PrepareFacts'
  BY <1>0 DEF PrepareFacts, Pending, Known, TypeOK, Bytes, PreparePcs, FinalizePcs, ArchiverPcs
<1>6. FinalizeFacts'
  <2>1. done' = done /\ replaced' = replaced
    OBVIOUS
  <2> QED BY <1>0, <1>a, <1>b, <2>1 DEF FinalizeFacts, FinalizePcs, ArchiverPcs
<1>7. ArchiverFacts'
  BY <1>0 DEF ArchiverFacts, PreparePcs, FinalizePcs
<1> QED BY <1>1, <1>2, <1>3, <1>4, <1>5, <1>6, <1>7 DEF IInv

LEMMA StepSnapshotKeeps ==
  ASSUME IInv, StepSnapshot
  PROVE  IInv'
<1> USE ConstantsHold, IdleIsCall DEF Constants, IInv, StepSnapshot, evidence, archive, shelving, bounds, Versions
<1>0. /\ call \in FinalizeCalls
      /\ \/ /\ call' \in FinalizeCalls /\ call' \in Calls /\ call'.pc \in {"complete"}
            /\ call'.rev = call.rev /\ call'.test = call.test
  BY CallShape, GotoFinalize DEF TypeOK, Return, PreparePcs, FinalizePcs, ArchiverPcs
<1>a. /\ journal' \in [Versions -> Journals \union {Nothing}]
      /\ \A v \in Versions : v # call.rev => journal'[v] = journal[v]
      /\ journal'[call.rev] # Nothing
      /\ journal'[call.rev].state = "SNAPSHOTTED"
      /\ journal'[call.rev].candidate = journal[call.rev].candidate
  <2>1. call.rev \in Versions /\ journal[call.rev] # Nothing /\ "SNAPSHOTTED" \in States
    BY DEF FinalizeFacts, FinalizePcs, States
  <2>2. SetState("SNAPSHOTTED")
    BY DEF StepSnapshot
  <2> QED BY <2>1, <2>2, SetStateFacts
<1>b. /\ call.rev \in Versions /\ journal[call.rev] # Nothing
      /\ journal[call.rev].state \in {"LIVE_ACCEPTED", "ARCHIVED", "SNAPSHOTTED"}
      /\ Holds(done, journal[call.rev].candidate) \/ replaced
  BY DEF FinalizeFacts, FinalizePcs
<1>1. TypeOK'
  BY <1>0, <1>a DEF TypeOK, Return
<1>2. LinesTrue'
  BY <1>0 DEF LinesTrue, TypeOK, Runs
<1>3. AcceptedWasTested'
  BY <1>a, <1>b DEF AcceptedWasTested, Known
<1>4. OnePending'
  BY <1>a, <1>b DEF OnePending, Pending, Known
<1>5. PrepareFacts'
  BY <1>0 DEF PrepareFacts, Pending, Known, TypeOK, Bytes, PreparePcs, FinalizePcs, ArchiverPcs
<1>6. FinalizeFacts'
  <2>1. done' = done /\ replaced' = replaced
    OBVIOUS
  <2> QED BY <1>0, <1>a, <1>b, <2>1 DEF FinalizeFacts, FinalizePcs, ArchiverPcs
<1>7. ArchiverFacts'
  BY <1>0 DEF ArchiverFacts, PreparePcs, FinalizePcs
<1> QED BY <1>1, <1>2, <1>3, <1>4, <1>5, <1>6, <1>7 DEF IInv

LEMMA SetCompleteKeeps ==
  ASSUME IInv, SetComplete
  PROVE  IInv'
<1> USE ConstantsHold, IdleIsCall DEF Constants, IInv, SetComplete, evidence, archive, shelving, bounds, Versions
<1>0. /\ call \in FinalizeCalls
      /\ \/ call' = Idle
  BY CallShape, GotoFinalize DEF TypeOK, Return, PreparePcs, FinalizePcs, ArchiverPcs
<1>a. /\ journal' \in [Versions -> Journals \union {Nothing}]
      /\ \A v \in Versions : v # call.rev => journal'[v] = journal[v]
      /\ journal'[call.rev] # Nothing
      /\ journal'[call.rev].state = "COMPLETE"
      /\ journal'[call.rev].candidate = journal[call.rev].candidate
  <2>1. call.rev \in Versions /\ journal[call.rev] # Nothing /\ "COMPLETE" \in States
    BY DEF FinalizeFacts, FinalizePcs, States
  <2>2. SetState("COMPLETE")
    BY DEF SetComplete
  <2> QED BY <2>1, <2>2, SetStateFacts
<1>b. /\ call.rev \in Versions /\ journal[call.rev] # Nothing
      /\ journal[call.rev].state \in {"LIVE_ACCEPTED", "ARCHIVED", "SNAPSHOTTED"}
      /\ Holds(done, journal[call.rev].candidate) \/ replaced
  BY DEF FinalizeFacts, FinalizePcs
<1>1. TypeOK'
  BY <1>0, <1>a DEF TypeOK, Return
<1>2. LinesTrue'
  BY <1>0 DEF LinesTrue, TypeOK, Runs
<1>3. AcceptedWasTested'
  BY <1>a, <1>b DEF AcceptedWasTested, Known
<1>4. OnePending'
  BY <1>a, <1>b DEF OnePending, Pending, Known
<1>5. PrepareFacts'
  BY <1>0 DEF PrepareFacts, Pending, Known, TypeOK, Bytes, PreparePcs, FinalizePcs, ArchiverPcs
<1>6. FinalizeFacts'
  <2>1. done' = done /\ replaced' = replaced
    OBVIOUS
  <2> QED BY <1>0, <1>a, <1>b, <2>1 DEF FinalizeFacts, FinalizePcs, ArchiverPcs
<1>7. ArchiverFacts'
  BY <1>0 DEF ArchiverFacts, PreparePcs, FinalizePcs
<1> QED BY <1>1, <1>2, <1>3, <1>4, <1>5, <1>6, <1>7 DEF IInv

LEMMA ArchiveKeeps ==
  ASSUME IInv, Archive
  PROVE  IInv'
<1> USE ConstantsHold, IdleIsCall, IdleIsArchiver DEF Constants, IInv, Archive, evidence, archive, shelving, bounds, Versions
<1>0. /\ archiver' \in ArchiverCalls /\ archiver' \in Archivers
      /\ archiver'.pc = "aside" /\ archiver'.plain = TRUE
  BY DEF Started, ArchiverCalls, Archivers, ArchiverPcs
<1>1. TypeOK'
  <2>1. archives' \in 0..MaxArchives
    BY DEF TypeOK
  <2> QED BY <1>0, <2>1 DEF TypeOK
<1>2. LinesTrue'
  BY DEF LinesTrue, TypeOK, Runs
<1>3. AcceptedWasTested'
  BY DEF AcceptedWasTested, Known
<1>4. OnePending' /\ Pending' = Pending
  BY DEF OnePending, Pending, Known
<1>5. PrepareFacts'
  BY <1>0, <1>4 DEF PrepareFacts
<1>6. FinalizeFacts'
  BY <1>0 DEF FinalizeFacts, FinalizePcs
<1>7. ArchiverFacts'
  BY <1>0 DEF ArchiverFacts, ArchiverPcs
<1> QED BY <1>1, <1>2, <1>3, <1>4, <1>5, <1>6, <1>7 DEF IInv

LEMMA CallArchiveModKeeps ==
  ASSUME IInv, CallArchiveMod
  PROVE  IInv'
<1> USE ConstantsHold, IdleIsCall, IdleIsArchiver DEF Constants, IInv, CallArchiveMod, evidence, archive, shelving, bounds, Versions
<1>0. /\ archiver' \in ArchiverCalls /\ archiver' \in Archivers
      /\ archiver'.pc = "aside" /\ archiver'.plain = FALSE
  BY DEF Started, ArchiverCalls, Archivers, ArchiverPcs
<1>1. TypeOK'
  BY <1>0 DEF TypeOK
<1>2. LinesTrue'
  BY DEF LinesTrue, TypeOK, Runs
<1>3. AcceptedWasTested'
  BY DEF AcceptedWasTested, Known
<1>4. OnePending' /\ Pending' = Pending
  BY DEF OnePending, Pending, Known
<1>5. PrepareFacts'
  BY <1>0, <1>4 DEF PrepareFacts
<1>6. FinalizeFacts'
  BY <1>0 DEF FinalizeFacts, FinalizePcs
<1>7. ArchiverFacts'
  BY <1>0 DEF ArchiverFacts, ArchiverPcs
<1> QED BY <1>1, <1>2, <1>3, <1>4, <1>5, <1>6, <1>7 DEF IInv

LEMMA RefuseKeeps ==
  ASSUME IInv, Refuse
  PROVE  IInv'
<1> USE ConstantsHold, IdleIsCall, IdleIsArchiver DEF Constants, IInv, Refuse, evidence, archive, shelving, bounds, Versions
<1>0. /\ archiver' = Idle
      /\ \/ UNCHANGED <<call, lock>>
         \/ call' = Idle /\ lock' = FALSE
  BY RaiseFacts
<1>1. TypeOK'
  BY <1>0 DEF TypeOK
<1>2. LinesTrue'
  BY DEF LinesTrue, TypeOK, Runs
<1>3. AcceptedWasTested'
  BY DEF AcceptedWasTested, Known
<1>4. OnePending' /\ Pending' = Pending
  BY DEF OnePending, Pending, Known
<1>5. PrepareFacts'
  BY <1>0, <1>4 DEF PrepareFacts
<1>6. FinalizeFacts'
  BY <1>0 DEF FinalizeFacts, FinalizePcs
<1>7. ArchiverFacts'
  BY <1>0 DEF ArchiverFacts, ArchiverPcs
<1> QED BY <1>1, <1>2, <1>3, <1>4, <1>5, <1>6, <1>7 DEF IInv

LEMMA MoveAsideKeeps ==
  ASSUME IInv, MoveAside
  PROVE  IInv'
<1> USE ConstantsHold, IdleIsCall, IdleIsArchiver DEF Constants, IInv, MoveAside, Touch, evidence, archive, shelving, bounds, Versions
<1>a. archiver \in ArchiverCalls /\ archiver # Idle
  BY ArchiverShape DEF TypeOK, ArchiverPcs
<1>b. call.pc \in {"archived", "snapshot", "complete"} => replaced'
  BY <1>a DEF ArchiverFacts
<1>0. /\ archiver' \in ArchiverCalls /\ archiver' \in Archivers /\ archiver'.pc = "body"
      /\ archiver'.plain = archiver.plain /\ archiver'.moved = done /\ archiver'.before = kept
  BY <1>a DEF TypeOK, ArchiverCalls, Archivers, ArchiverPcs
<1>1. TypeOK'
  BY <1>0 DEF TypeOK, WholeOf, Whole
<1>2. LinesTrue'
  BY DEF LinesTrue, TypeOK, Runs
<1>3. AcceptedWasTested'
  BY DEF AcceptedWasTested, Known
<1>4. OnePending' /\ Pending' = Pending
  BY DEF OnePending, Pending, Known
<1>5. PrepareFacts'
  BY <1>0, <1>4 DEF PrepareFacts
<1>6. FinalizeFacts'
  BY <1>b DEF FinalizeFacts, FinalizePcs
<1>7. ArchiverFacts'
  BY <1>a, <1>0 DEF ArchiverFacts, ArchiverPcs
<1> QED BY <1>1, <1>2, <1>3, <1>4, <1>5, <1>6, <1>7 DEF IInv

LEMMA CopyBodyKeeps ==
  ASSUME IInv, CopyBody
  PROVE  IInv'
<1> USE ConstantsHold, IdleIsCall, IdleIsArchiver DEF Constants, IInv, CopyBody, Touch, evidence, archive, shelving, bounds, Versions
<1>a. archiver \in ArchiverCalls /\ archiver # Idle
  BY ArchiverShape DEF TypeOK, ArchiverPcs
<1>b. call.pc \in {"archived", "snapshot", "complete"} => replaced'
  BY <1>a DEF ArchiverFacts
<1>0. /\ archiver' \in ArchiverCalls /\ archiver' \in Archivers /\ archiver'.pc = "info"
      /\ archiver'.plain = archiver.plain
      /\ archiver'.moved = archiver.moved /\ archiver'.before = archiver.before
  BY <1>a, ProceedFacts DEF ArchiverPcs
<1>c. done' \in Archives /\ ~done'.note
  BY DEF TypeOK, Bytes, Archives
<1>1. TypeOK'
  BY <1>0, <1>c DEF TypeOK
<1>2. LinesTrue'
  BY DEF LinesTrue, TypeOK, Runs
<1>3. AcceptedWasTested'
  BY DEF AcceptedWasTested, Known
<1>4. OnePending' /\ Pending' = Pending
  BY DEF OnePending, Pending, Known
<1>5. PrepareFacts'
  BY <1>0, <1>4 DEF PrepareFacts
<1>6. FinalizeFacts'
  BY <1>b DEF FinalizeFacts, FinalizePcs
<1>7. ArchiverFacts'
  BY <1>a, <1>0, <1>c DEF ArchiverFacts, ArchiverPcs
<1> QED BY <1>1, <1>2, <1>3, <1>4, <1>5, <1>6, <1>7 DEF IInv

LEMMA CopyInfoKeeps ==
  ASSUME IInv, CopyInfo
  PROVE  IInv'
<1> USE ConstantsHold, IdleIsCall, IdleIsArchiver DEF Constants, IInv, CopyInfo, Touch, evidence, archive, shelving, bounds, Versions
<1>a. archiver \in ArchiverCalls /\ archiver # Idle
  BY ArchiverShape DEF TypeOK, ArchiverPcs
<1>b. call.pc \in {"archived", "snapshot", "complete"} => replaced'
  BY <1>a DEF ArchiverFacts
<1>0. /\ archiver' \in ArchiverCalls /\ archiver' \in Archivers /\ archiver'.pc = "note"
      /\ archiver'.plain = archiver.plain
      /\ archiver'.moved = archiver.moved /\ archiver'.before = archiver.before
  BY <1>a, ProceedFacts DEF ArchiverPcs
<1>c. done' \in Archives /\ ~done'.note
  <2>1. done \in Archives /\ ~done.note /\ working.version \in Versions
    BY DEF ArchiverFacts, TypeOK, Bytes
  <2> QED BY <2>1 DEF Archives
<1>1. TypeOK'
  BY <1>0, <1>c DEF TypeOK
<1>2. LinesTrue'
  BY DEF LinesTrue, TypeOK, Runs
<1>3. AcceptedWasTested'
  BY DEF AcceptedWasTested, Known
<1>4. OnePending' /\ Pending' = Pending
  BY DEF OnePending, Pending, Known
<1>5. PrepareFacts'
  BY <1>0, <1>4 DEF PrepareFacts
<1>6. FinalizeFacts'
  BY <1>b DEF FinalizeFacts, FinalizePcs
<1>7. ArchiverFacts'
  BY <1>a, <1>0, <1>c DEF ArchiverFacts, ArchiverPcs
<1> QED BY <1>1, <1>2, <1>3, <1>4, <1>5, <1>6, <1>7 DEF IInv

LEMMA WriteNoteKeeps ==
  ASSUME IInv, WriteNote
  PROVE  IInv'
<1> USE ConstantsHold, IdleIsCall, IdleIsArchiver DEF Constants, IInv, WriteNote, Touch, evidence, archive, shelving, bounds, Versions
<1>a. archiver \in ArchiverCalls /\ archiver # Idle
  BY ArchiverShape DEF TypeOK, ArchiverPcs
<1>b. call.pc \in {"archived", "snapshot", "complete"} => replaced'
  BY <1>a DEF ArchiverFacts
<1>0. /\ archiver' \in ArchiverCalls /\ archiver' \in Archivers /\ archiver'.pc = "log"
      /\ archiver'.plain = archiver.plain
      /\ archiver'.moved = archiver.moved /\ archiver'.before = archiver.before
  BY <1>a, ProceedFacts DEF ArchiverPcs
<1>c. done' \in Archives
  <2>1. done \in Archives
    BY DEF ArchiverFacts, TypeOK
  <2> QED BY <2>1 DEF Archives
<1>1. TypeOK'
  BY <1>0, <1>c DEF TypeOK
<1>2. LinesTrue'
  BY DEF LinesTrue, TypeOK, Runs
<1>3. AcceptedWasTested'
  BY DEF AcceptedWasTested, Known
<1>4. OnePending' /\ Pending' = Pending
  BY DEF OnePending, Pending, Known
<1>5. PrepareFacts'
  BY <1>0, <1>4 DEF PrepareFacts
<1>6. FinalizeFacts'
  BY <1>b DEF FinalizeFacts, FinalizePcs
<1>7. ArchiverFacts'
  BY <1>a, <1>0, <1>c DEF ArchiverFacts, ArchiverPcs
<1> QED BY <1>1, <1>2, <1>3, <1>4, <1>5, <1>6, <1>7 DEF IInv

LEMMA WriteLogKeeps ==
  ASSUME IInv, WriteLog
  PROVE  IInv'
<1> USE ConstantsHold, IdleIsCall, IdleIsArchiver DEF Constants, IInv, WriteLog, evidence, archive, shelving, bounds, Versions
<1>a. archiver \in ArchiverCalls /\ archiver # Idle
  BY ArchiverShape DEF TypeOK, ArchiverPcs
<1>0. /\ archiver' = Idle
      /\ \/ UNCHANGED call
         \/ /\ call.pc = "archiving" /\ call' \in Calls /\ call'.pc = "written"
            /\ call'.rev = call.rev /\ call'.test = call.test
  <2>1. CASE archiver.plain
    BY <2>1
  <2>2. CASE ~archiver.plain
    <3>1. call.pc = "archiving" /\ Goto("written")
      BY <1>a, <2>2 DEF ArchiverFacts
    <3>2. call \in FinalizeCalls
      BY <3>1, CallShape DEF TypeOK, FinalizePcs
    <3> QED BY <3>1, <3>2, GotoFinalize DEF FinalizePcs
  <2> QED BY <2>1, <2>2
<1>1. TypeOK'
  BY <1>0 DEF TypeOK
<1>2. LinesTrue'
  BY DEF LinesTrue, TypeOK, Runs
<1>3. AcceptedWasTested'
  BY DEF AcceptedWasTested, Known
<1>4. OnePending' /\ Pending' = Pending
  BY DEF OnePending, Pending, Known
<1>5. PrepareFacts'
  BY <1>0, <1>4 DEF PrepareFacts
<1>6. FinalizeFacts'
  BY <1>0 DEF FinalizeFacts, FinalizePcs
<1>7. ArchiverFacts'
  BY <1>0 DEF ArchiverFacts, ArchiverPcs
<1> QED BY <1>1, <1>2, <1>3, <1>4, <1>5, <1>6, <1>7 DEF IInv

LEMMA VerifyKeeps ==
  ASSUME IInv, Verify
  PROVE  IInv'
<1> USE ConstantsHold, IdleIsCall DEF Constants, IInv, Verify, Entry, evidence, archive, shelving, bounds, Versions
<1>0. /\ call \in FinalizeCalls
      /\ \/ call' = Idle
         \/ /\ call' \in FinalizeCalls /\ call' \in Calls /\ call'.pc \in {"archived"}
            /\ call'.rev = call.rev /\ call'.test = call.test
  BY CallShape, GotoFinalize DEF TypeOK, Return, PreparePcs, FinalizePcs, ArchiverPcs
<1>1. TypeOK'
  BY <1>0 DEF TypeOK, Bytes, Runs, Journals, Archives, States, Return
<1>2. LinesTrue'
  BY <1>0 DEF LinesTrue, TypeOK, Runs
<1>3. AcceptedWasTested'
  BY <1>0 DEF AcceptedWasTested, Known, TypeOK, FinalizeFacts, LinesTrue
<1>4. OnePending'
  BY <1>0 DEF OnePending, Pending, Known, PrepareFacts, FinalizeFacts, TypeOK
<1>5. PrepareFacts'
  BY <1>0 DEF PrepareFacts, Pending, Known, TypeOK, Bytes, PreparePcs, FinalizePcs, ArchiverPcs
<1>6. FinalizeFacts'
  <2>1. CASE call' = Idle
    BY <2>1 DEF FinalizeFacts, FinalizePcs, ArchiverPcs
  <2>2. CASE call' # Idle
    <3>1. Holds(done, Entry.candidate)
      BY <2>2 DEF Return
    <3>2. call.rev \in Versions
      BY <1>0 DEF FinalizeCalls
    <3> QED BY <1>0, <2>2, <3>1, <3>2 DEF FinalizeFacts, FinalizePcs, ArchiverPcs
  <2> QED BY <2>1, <2>2
<1>7. ArchiverFacts'
  BY <1>0 DEF ArchiverFacts, PreparePcs, FinalizePcs
<1> QED BY <1>1, <1>2, <1>3, <1>4, <1>5, <1>6, <1>7 DEF IInv

LEMMA MoveFailedKeeps ==
  ASSUME IInv, MoveFailed
  PROVE  IInv'
<1> USE ConstantsHold, IdleIsCall, IdleIsArchiver DEF Constants, IInv, MoveFailed, Touch, evidence, archive, shelving, bounds, Versions
<1>a. archiver \in ArchiverCalls /\ archiver # Idle
  BY ArchiverShape DEF TypeOK, ArchiverPcs
<1>b. call.pc \in {"archived", "snapshot", "complete"} => replaced'
  BY <1>a DEF ArchiverFacts
<1>0. /\ archiver' \in ArchiverCalls /\ archiver' \in Archivers /\ archiver'.pc = "putback"
      /\ archiver'.plain = archiver.plain /\ archiver'.moved = archiver.moved
      /\ archiver'.before = archiver.before \union WholeOf(done)
  <2>1. archiver.before \union WholeOf(done) \subseteq Archives
    BY <1>a DEF TypeOK, ArchiverCalls, WholeOf, Whole
  <2>2. archiver' = [archiver EXCEPT !.pc = "putback", !.before = archiver.before \union WholeOf(done)]
    BY <1>a DEF ArchiverCalls
  <2> QED BY <1>a, <2>1, <2>2 DEF ArchiverCalls, Archivers, ArchiverPcs
<1>1. TypeOK'
  BY <1>0 DEF TypeOK, WholeOf, Whole
<1>2. LinesTrue'
  BY DEF LinesTrue, TypeOK, Runs
<1>3. AcceptedWasTested'
  BY DEF AcceptedWasTested, Known
<1>4. OnePending' /\ Pending' = Pending
  BY DEF OnePending, Pending, Known
<1>5. PrepareFacts'
  BY <1>0, <1>4 DEF PrepareFacts
<1>6. FinalizeFacts'
  BY <1>b DEF FinalizeFacts, FinalizePcs
<1>7. ArchiverFacts'
  BY <1>a, <1>0 DEF ArchiverFacts, ArchiverPcs, WholeOf, Whole
<1> QED BY <1>1, <1>2, <1>3, <1>4, <1>5, <1>6, <1>7 DEF IInv

LEMMA PutBackKeeps ==
  ASSUME IInv, PutBack
  PROVE  IInv'
<1> USE ConstantsHold, IdleIsCall, IdleIsArchiver DEF Constants, IInv, PutBack, Touch, evidence, archive, shelving, bounds, Versions
<1>a. archiver \in ArchiverCalls /\ archiver # Idle
  BY ArchiverShape DEF TypeOK, ArchiverPcs
<1>b. call.pc \in {"archived", "snapshot", "complete"} => replaced'
  BY <1>a DEF ArchiverFacts
<1>0. /\ archiver' = Idle
      /\ \/ archiver.plain /\ UNCHANGED <<call, lock>>
         \/ call' = Idle /\ lock' = FALSE
  BY RaiseFacts
<1>1. TypeOK'
  BY <1>a, <1>0 DEF TypeOK, ArchiverCalls
<1>2. LinesTrue'
  BY DEF LinesTrue, TypeOK, Runs
<1>3. AcceptedWasTested'
  BY DEF AcceptedWasTested, Known
<1>4. OnePending' /\ Pending' = Pending
  BY DEF OnePending, Pending, Known
<1>5. PrepareFacts'
  BY <1>0, <1>4 DEF PrepareFacts
<1>6. FinalizeFacts'
  BY <1>0, <1>b DEF FinalizeFacts, FinalizePcs
<1>7. ArchiverFacts'
  BY <1>0 DEF ArchiverFacts, ArchiverPcs
<1> QED BY <1>1, <1>2, <1>3, <1>4, <1>5, <1>6, <1>7 DEF IInv

LEMMA FailsKeeps ==
  ASSUME IInv, Fails
  PROVE  IInv'
<1> USE ConstantsHold, IdleIsCall, IdleIsArchiver DEF Constants, IInv, Fails, evidence, archive, shelving, bounds, Versions
<1>0. \/ archiver' = archiver /\ call.pc # "archiving" /\ call' = Idle /\ lock' = FALSE
      \/ archiver' = Idle /\ UNCHANGED <<call, lock>>
      \/ archiver' = Idle /\ call' = Idle /\ lock' = FALSE
      \/ /\ UNCHANGED <<call, lock>> /\ archiver' \in Archivers /\ archiver'.pc = "restore"
         /\ archiver # Idle /\ archiver.pc \in ArchiverPcs \ {"aside"}
         /\ archiver'.plain = archiver.plain
         /\ archiver'.moved = archiver.moved /\ archiver'.before = archiver.before
  BY ArchiverShape, ProceedFacts, RaiseFacts DEF TypeOK, ArchiverPcs, Return
<1>1. TypeOK'
  <2>1. lock' \in BOOLEAN /\ call' \in Calls /\ archiver' \in Archivers
    BY <1>0 DEF TypeOK
  <2> QED BY <2>1 DEF TypeOK
<1>2. LinesTrue'
  BY DEF LinesTrue, TypeOK, Runs
<1>3. AcceptedWasTested'
  BY DEF AcceptedWasTested, Known
<1>4. OnePending' /\ Pending' = Pending
  BY DEF OnePending, Pending, Known
<1>5. PrepareFacts'
  BY <1>0, <1>4 DEF PrepareFacts
<1>6. FinalizeFacts'
  BY <1>0 DEF FinalizeFacts, FinalizePcs
<1>7. ArchiverFacts'
  BY <1>0 DEF ArchiverFacts, ArchiverPcs
<1> QED BY <1>1, <1>2, <1>3, <1>4, <1>5, <1>6, <1>7 DEF IInv

LEMMA CrashKeeps ==
  ASSUME IInv, Crash
  PROVE  IInv'
<1> USE ConstantsHold, IdleIsCall, IdleIsArchiver DEF Constants, IInv, Crash, evidence, archive, shelving, bounds, Versions
<1>0. \/ call' = Idle /\ archiver' = archiver /\ (archiver = Idle \/ archiver.plain)
      \/ call' = Idle /\ archiver' = Idle
      \/ UNCHANGED call /\ archiver' = Idle
  OBVIOUS
<1>1. TypeOK'
  BY <1>0 DEF TypeOK
<1>2. LinesTrue'
  BY DEF LinesTrue, TypeOK, Runs
<1>3. AcceptedWasTested'
  BY DEF AcceptedWasTested, Known
<1>4. OnePending' /\ Pending' = Pending
  BY DEF OnePending, Pending, Known
<1>5. PrepareFacts'
  BY <1>0, <1>4 DEF PrepareFacts
<1>6. FinalizeFacts'
  BY <1>0 DEF FinalizeFacts, FinalizePcs
<1>7. ArchiverFacts'
  BY <1>0 DEF ArchiverFacts, ArchiverPcs
<1> QED BY <1>1, <1>2, <1>3, <1>4, <1>5, <1>6, <1>7 DEF IInv

LEMMA RemoveLockKeeps ==
  ASSUME IInv, RemoveLock
  PROVE  IInv'
<1> USE ConstantsHold, IdleIsCall DEF Constants, IInv, RemoveLock, evidence, archive, shelving, bounds, Versions
<1>1. TypeOK'
  BY DEF TypeOK, Bytes, Runs, Journals, Archives, States
<1>2. LinesTrue'
  BY DEF LinesTrue, TypeOK, Runs
<1>3. AcceptedWasTested'
  BY DEF AcceptedWasTested, Known, TypeOK, FinalizeFacts, LinesTrue
<1>4. OnePending'
  BY DEF OnePending, Pending, Known, PrepareFacts, FinalizeFacts, TypeOK
<1>5. PrepareFacts'
  BY DEF PrepareFacts, Pending, Known, TypeOK, Bytes, PreparePcs, FinalizePcs, ArchiverPcs
<1>6. FinalizeFacts'
  BY DEF FinalizeFacts, PrepareFacts, TypeOK, PreparePcs, FinalizePcs, ArchiverPcs
<1>7. ArchiverFacts'
  BY DEF ArchiverFacts, PreparePcs, FinalizePcs
<1> QED BY <1>1, <1>2, <1>3, <1>4, <1>5, <1>6, <1>7 DEF IInv

LEMMA EditKeeps ==
  ASSUME IInv, Edit
  PROVE  IInv'
<1> USE ConstantsHold, IdleIsCall DEF Constants, IInv, Edit, evidence, archive, shelving, bounds, Versions
<1>1. TypeOK'
  BY DEF TypeOK, Bytes, Runs, Journals, Archives, States
<1>2. LinesTrue'
  BY DEF LinesTrue, TypeOK, Runs
<1>3. AcceptedWasTested'
  BY DEF AcceptedWasTested, Known, TypeOK, FinalizeFacts, LinesTrue
<1>4. OnePending'
  BY DEF OnePending, Pending, Known, PrepareFacts, FinalizeFacts, TypeOK
<1>5. PrepareFacts'
  BY DEF PrepareFacts, Pending, Known, TypeOK, Bytes, PreparePcs, FinalizePcs, ArchiverPcs
<1>6. FinalizeFacts'
  BY DEF FinalizeFacts, PrepareFacts, TypeOK, PreparePcs, FinalizePcs, ArchiverPcs
<1>7. ArchiverFacts'
  BY DEF ArchiverFacts, PreparePcs, FinalizePcs
<1> QED BY <1>1, <1>2, <1>3, <1>4, <1>5, <1>6, <1>7 DEF IInv

LEMMA RegateKeeps ==
  ASSUME IInv, Regate
  PROVE  IInv'
<1> USE ConstantsHold, IdleIsCall DEF Constants, IInv, Regate, evidence, archive, shelving, bounds, Versions
<1>1. TypeOK'
  BY DEF TypeOK, Bytes, Runs, Journals, Archives, States
<1>2. LinesTrue'
  BY DEF LinesTrue, TypeOK, Runs
<1>3. AcceptedWasTested'
  BY DEF AcceptedWasTested, Known, TypeOK, FinalizeFacts, LinesTrue
<1>4. OnePending'
  BY DEF OnePending, Pending, Known, PrepareFacts, FinalizeFacts, TypeOK
<1>5. PrepareFacts'
  BY DEF PrepareFacts, Pending, Known, TypeOK, Bytes, PreparePcs, FinalizePcs, ArchiverPcs
<1>6. FinalizeFacts'
  BY DEF FinalizeFacts, PrepareFacts, TypeOK, PreparePcs, FinalizePcs, ArchiverPcs
<1>7. ArchiverFacts'
  BY DEF ArchiverFacts, PreparePcs, FinalizePcs
<1> QED BY <1>1, <1>2, <1>3, <1>4, <1>5, <1>6, <1>7 DEF IInv

LEMMA Invariance == Spec => []IInv
<1>1. IInv /\ [Next]_vars => IInv'
  <2> SUFFICES ASSUME IInv, [Next]_vars PROVE IInv'
    OBVIOUS
  <2>1. ASSUME NEW keep \in BOOLEAN, NEW refresh \in BOOLEAN, Prepare(keep, refresh) PROVE IInv'
    BY <2>1, PrepareKeeps
  <2>2. ASSUME Lock PROVE IInv'
    BY <2>2, LockKeeps
  <2>3. ASSUME ResumePending PROVE IInv'
    BY <2>3, ResumePendingKeeps
  <2>4. ASSUME ChooseVersion PROVE IInv'
    BY <2>4, ChooseVersionKeeps
  <2>5. ASSUME WriteVersion PROVE IInv'
    BY <2>5, WriteVersionKeeps
  <2>6. ASSUME SavePrepared PROVE IInv'
    BY <2>6, SavePreparedKeeps
  <2>7. ASSUME NEW t \in Tests, Play(t) PROVE IInv'
    BY <2>7, PlayKeeps
  <2>8. ASSUME NEW pass \in BOOLEAN, NEW acceptable \in BOOLEAN, Record(pass, acceptable) PROVE IInv'
    BY <2>8, RecordKeeps
  <2>9. ASSUME NEW v \in Versions, NEW t \in Tests, Finalize(v, t) PROVE IInv'
    BY <2>9, FinalizeKeeps
  <2>10. ASSUME CheckCandidate PROVE IInv'
    BY <2>10, CheckCandidateKeeps
  <2>11. ASSUME BoundRun PROVE IInv'
    BY <2>11, BoundRunKeeps
  <2>12. ASSUME RunRefused PROVE IInv'
    BY <2>12, RunRefusedKeeps
  <2>13. ASSUME StepArchive PROVE IInv'
    BY <2>13, StepArchiveKeeps
  <2>14. ASSUME SetArchived PROVE IInv'
    BY <2>14, SetArchivedKeeps
  <2>15. ASSUME StepSnapshot PROVE IInv'
    BY <2>15, StepSnapshotKeeps
  <2>16. ASSUME SetComplete PROVE IInv'
    BY <2>16, SetCompleteKeeps
  <2>17. ASSUME Archive PROVE IInv'
    BY <2>17, ArchiveKeeps
  <2>30. ASSUME CallArchiveMod PROVE IInv'
    BY <2>30, CallArchiveModKeeps
  <2>31. ASSUME Refuse PROVE IInv'
    BY <2>31, RefuseKeeps
  <2>32. ASSUME WriteLog PROVE IInv'
    BY <2>32, WriteLogKeeps
  <2>33. ASSUME Regate PROVE IInv'
    BY <2>33, RegateKeeps
  <2>18. ASSUME MoveAside PROVE IInv'
    BY <2>18, MoveAsideKeeps
  <2>19. ASSUME CopyBody PROVE IInv'
    BY <2>19, CopyBodyKeeps
  <2>20. ASSUME CopyInfo PROVE IInv'
    BY <2>20, CopyInfoKeeps
  <2>21. ASSUME WriteNote PROVE IInv'
    BY <2>21, WriteNoteKeeps
  <2>22. ASSUME Verify PROVE IInv'
    BY <2>22, VerifyKeeps
  <2>23. ASSUME MoveFailed PROVE IInv'
    BY <2>23, MoveFailedKeeps
  <2>24. ASSUME PutBack PROVE IInv'
    BY <2>24, PutBackKeeps
  <2>25. ASSUME Fails PROVE IInv'
    BY <2>25, FailsKeeps
  <2>26. ASSUME Crash PROVE IInv'
    BY <2>26, CrashKeeps
  <2>27. ASSUME RemoveLock PROVE IInv'
    BY <2>27, RemoveLockKeeps
  <2>28. ASSUME Edit PROVE IInv'
    BY <2>28, EditKeeps
  <2>29. CASE UNCHANGED vars
    <3>1. /\ UNCHANGED <<working, staged, lines, trusted, proven>>
          /\ UNCHANGED <<journal, lock, done, kept, gates, call, archiver, replaced>>
          /\ UNCHANGED <<faults, edits, runs, archives>>
      BY <2>29 DEF vars, evidence, archive, shelving, bounds
    <3>2. TypeOK' /\ LinesTrue'
      BY <3>1 DEF IInv, TypeOK, LinesTrue
    <3>3. AcceptedWasTested' /\ OnePending' /\ Pending' = Pending
      BY <3>1 DEF IInv, AcceptedWasTested, OnePending, Pending, Known
    <3>4. PrepareFacts' /\ FinalizeFacts' /\ ArchiverFacts'
      BY <3>1, <3>3 DEF IInv, PrepareFacts, FinalizeFacts, ArchiverFacts
    <3> QED BY <3>2, <3>3, <3>4 DEF IInv
  <2> QED BY <2>1, <2>2, <2>3, <2>4, <2>5, <2>6, <2>7, <2>8, <2>9, <2>10, <2>11, <2>12, <2>13, <2>14, <2>15, <2>16, <2>17, <2>18, <2>19, <2>20, <2>21, <2>22, <2>23, <2>24, <2>25, <2>26, <2>27, <2>28, <2>29, <2>30, <2>31, <2>32, <2>33 DEF Next, Step
<1> QED BY InitHolds, <1>1, PTL DEF Spec

(* The types of the variables. *)
THEOREM TypeCorrect == Spec => []TypeOK
BY Invariance, PTL DEF IInv

(* A revision past PREPARED has a candidate that a game loaded in an       *)
(* acceptable passing run, and that carries the version of the revision.   *)
THEOREM AcceptedWasTestedHolds == Spec => []AcceptedWasTested
BY Invariance, PTL DEF IInv

(* There are never two pending revisions. *)
THEOREM OnePendingHolds == Spec => []OnePending
BY Invariance, PTL DEF IInv

(* The steps that change a journal. *)
JournalStep ==
  ResumePending \/ SavePrepared \/ BoundRun \/ SetArchived \/ StepSnapshot \/ SetComplete

LEMMA OtherStepsKeepJournal ==
  ASSUME [Next]_vars, ~JournalStep
  PROVE  journal' = journal
<1>1. ASSUME NEW keep \in BOOLEAN, NEW refresh \in BOOLEAN, Prepare(keep, refresh) PROVE journal' = journal
  BY <1>1 DEF Prepare, bounds
<1>2. ASSUME Lock PROVE journal' = journal
  BY <1>2 DEF Lock, bounds
<1>3. ASSUME ChooseVersion PROVE journal' = journal
  BY <1>3 DEF ChooseVersion, bounds
<1>4. ASSUME WriteVersion PROVE journal' = journal
  BY <1>4 DEF WriteVersion, bounds
<1>5. ASSUME NEW t \in Tests, Play(t) PROVE journal' = journal
  BY <1>5 DEF Play, bounds
<1>6. ASSUME NEW pass \in BOOLEAN, NEW acceptable \in BOOLEAN, Record(pass, acceptable) PROVE journal' = journal
  BY <1>6 DEF Record, bounds
<1>7. ASSUME NEW v \in Versions, NEW t \in Tests, Finalize(v, t) PROVE journal' = journal
  BY <1>7 DEF Finalize, bounds
<1>8. ASSUME CheckCandidate PROVE journal' = journal
  BY <1>8 DEF CheckCandidate, bounds
<1>9. ASSUME RunRefused PROVE journal' = journal
  BY <1>9 DEF RunRefused, bounds
<1>10. ASSUME StepArchive PROVE journal' = journal
  BY <1>10 DEF StepArchive, bounds
<1>11. ASSUME Archive PROVE journal' = journal
  BY <1>11 DEF Archive, bounds
<1>12. ASSUME MoveAside PROVE journal' = journal
  BY <1>12 DEF MoveAside, bounds
<1>13. ASSUME CopyBody PROVE journal' = journal
  BY <1>13 DEF CopyBody, bounds
<1>14. ASSUME CopyInfo PROVE journal' = journal
  BY <1>14 DEF CopyInfo, bounds
<1>15. ASSUME WriteNote PROVE journal' = journal
  BY <1>15 DEF WriteNote, bounds
<1>16. ASSUME Verify PROVE journal' = journal
  BY <1>16 DEF Verify, bounds
<1>17. ASSUME MoveFailed PROVE journal' = journal
  BY <1>17 DEF MoveFailed, bounds
<1>18. ASSUME PutBack PROVE journal' = journal
  BY <1>18 DEF PutBack, bounds
<1>19. ASSUME Fails PROVE journal' = journal
  BY <1>19 DEF Fails, bounds
<1>20. ASSUME Crash PROVE journal' = journal
  BY <1>20 DEF Crash, bounds
<1>21. ASSUME RemoveLock PROVE journal' = journal
  BY <1>21 DEF RemoveLock, bounds
<1>22. ASSUME Edit PROVE journal' = journal
  BY <1>22 DEF Edit, bounds
<1>23. ASSUME CallArchiveMod PROVE journal' = journal
  BY <1>23 DEF CallArchiveMod
<1>24. ASSUME Refuse PROVE journal' = journal
  BY <1>24 DEF Refuse
<1>25. ASSUME WriteLog PROVE journal' = journal
  BY <1>25 DEF WriteLog
<1>26. ASSUME Regate PROVE journal' = journal
  BY <1>26 DEF Regate
<1>27. CASE UNCHANGED vars
  BY <1>27 DEF vars
<1> QED BY <1>1, <1>2, <1>3, <1>4, <1>5, <1>6, <1>7, <1>8, <1>9, <1>10, <1>11, <1>12, <1>13, <1>14, <1>15, <1>16, <1>17, <1>18, <1>19, <1>20, <1>21, <1>22, <1>23, <1>24, <1>25, <1>26, <1>27 DEF Next, Step, JournalStep

(* A revision prepared again keeps its state and has none but PREPARED. *)
LEMMA ResumedStaysPrepared ==
  ASSUME IInv, ResumePending, NEW v \in Versions, journal'[v] # journal[v]
  PROVE  /\ journal[v] # Nothing /\ journal[v].state = "PREPARED"
         /\ journal'[v] # Nothing /\ journal'[v].state = "PREPARED"
<1>1. CASE \E u \in Pending : Pending = {u}
  <2>1. PICK u \in Pending : Pending = {u}
    BY <1>1
  <2>2. journal' = Refreshed(u) /\ u \in Versions /\ journal[u] # Nothing
    BY <1>1, <2>1 DEF ResumePending, Pending, Known
  <2> DEFINE j == [journal[u] EXCEPT !.candidate = working]
  <2>3. journal[u].state = "PREPARED" /\ journal' = [journal EXCEPT ![u] = j]
    BY <2>2 DEF Refreshed
  <2>4. journal[u] \in Journals /\ working \in Bytes
    BY <2>2 DEF IInv, TypeOK
  <2>5. j \in Journals /\ j.state = "PREPARED"
    BY <2>3, <2>4 DEF Journals
  <2> HIDE DEF j
  <2>6. v = u /\ journal'[v] = j /\ j # Nothing
    BY <2>2, <2>3, <2>5, ConstantsHold, EntryReplaced DEF IInv
  <2> QED BY <2>2, <2>3, <2>5, <2>6
<1>2. CASE ~\E u \in Pending : Pending = {u}
  BY <1>2 DEF ResumePending
<1> QED BY <1>1, <1>2

(* A saved new revision is PREPARED and was not there before. *)
LEMMA SavedIsPrepared ==
  ASSUME IInv, SavePrepared, NEW v \in Versions, journal'[v] # journal[v]
  PROVE  journal[v] = Nothing /\ journal'[v].state = "PREPARED"
<1> DEFINE j == [state |-> "PREPARED", candidate |-> working, test |-> Nothing]
<1>1. call.rev \in Versions
  BY DEF IInv, PrepareFacts, SavePrepared
<1>2. journal[call.rev] = Nothing /\ journal' = [journal EXCEPT ![call.rev] = j]
  BY DEF SavePrepared
<1>3. j.state = "PREPARED"
  OBVIOUS
<1> HIDE DEF j
<1> QED BY <1>1, <1>2, <1>3 DEF IInv, TypeOK

(* The accepted run is written into a PREPARED journal only. *)
LEMMA BoundIsAccepted ==
  ASSUME IInv, BoundRun, NEW v \in Versions, journal'[v] # journal[v]
  PROVE  /\ journal[v] # Nothing /\ journal[v].state = "PREPARED"
         /\ journal'[v] # Nothing /\ journal'[v].state = "LIVE_ACCEPTED"
<1> DEFINE j == [journal[call.rev] EXCEPT !.state = "LIVE_ACCEPTED", !.test = call.test]
<1>1. /\ call.rev \in Versions /\ call.test \in Tests
      /\ journal[call.rev] # Nothing /\ journal[call.rev] \in Journals
  BY DEF IInv, TypeOK, FinalizeFacts, FinalizePcs, BoundRun
<1>2. journal[call.rev].state = "PREPARED" /\ journal' = [journal EXCEPT ![call.rev] = j]
  BY <1>1 DEF BoundRun, Entry, IInv, TypeOK
<1>3. j \in Journals /\ j.state = "LIVE_ACCEPTED"
  BY <1>1 DEF Journals, States
<1> HIDE DEF j
<1>4. v = call.rev /\ journal'[v] = j /\ j # Nothing
  BY <1>1, <1>2, <1>3, ConstantsHold, EntryReplaced DEF IInv
<1> QED BY <1>1, <1>2, <1>3, <1>4

(* A later step of finalize moves the journal of its revision on, while    *)
(* Done/ holds the candidate or another command has replaced it.           *)
LEMMA FinalizeMovesOn ==
  ASSUME IInv, SetArchived \/ StepSnapshot \/ SetComplete,
         NEW v \in Versions, journal'[v] # journal[v]
  PROVE  /\ journal[v] # Nothing /\ journal'[v] # Nothing
         /\ journal'[v].candidate = journal[v].candidate
         /\ journal'[v].test = journal[v].test
         /\ Holds(done', journal'[v].candidate) \/ replaced
         /\ \/ journal[v].state = "LIVE_ACCEPTED" /\ journal'[v].state = "ARCHIVED"
            \/ /\ journal[v].state \in {"ARCHIVED", "SNAPSHOTTED"}
               /\ journal'[v].state = "SNAPSHOTTED"
            \/ journal[v].state = "SNAPSHOTTED" /\ journal'[v].state = "COMPLETE"
<1>1. /\ call.rev \in Versions /\ journal[call.rev] # Nothing
      /\ Holds(done, journal[call.rev].candidate) \/ replaced
      /\ done' = done
  BY DEF IInv, FinalizeFacts, FinalizePcs, SetArchived, StepSnapshot, SetComplete, archive, shelving
<1>2. ASSUME NEW state \in States, SetState(state)
      PROVE  /\ v = call.rev /\ journal'[v] # Nothing
             /\ journal'[v].state = state
             /\ journal'[v].candidate = journal[v].candidate
             /\ journal'[v].test = journal[v].test
  BY <1>1, <1>2, ConstantsHold, SetStateFacts DEF IInv
<1>3. CASE SetArchived
  BY <1>1, <1>2, <1>3 DEF SetArchived, IInv, FinalizeFacts, States
<1>4. CASE StepSnapshot
  BY <1>1, <1>2, <1>4 DEF StepSnapshot, IInv, FinalizeFacts, States
<1>5. CASE SetComplete
  BY <1>1, <1>2, <1>5 DEF SetComplete, IInv, FinalizeFacts, States
<1> QED BY <1>3, <1>4, <1>5

(* A revision is journalled as archived or complete only while Done/ is a  *)
(* whole archive of its candidate, whatever other archive commands did     *)
(* before finalize found the candidate there, or after such a command has  *)
(* changed Done/ since.                                                    *)
THEOREM ArchivedAsTestedHolds == Spec => ArchivedAsTested
<1> DEFINE P == \A v \in Versions :
       journal'[v] # journal[v] /\ journal'[v].state \in {"ARCHIVED", "SNAPSHOTTED", "COMPLETE"}
         => Holds(done', journal'[v].candidate) \/ replaced
<1>1. IInv /\ [Next]_vars => [P]_journal
  <2> SUFFICES ASSUME IInv, [Next]_vars, JournalStep PROVE P
    BY OtherStepsKeepJournal
  <2>1. ASSUME NEW v \in Versions, journal'[v] # journal[v],
               journal'[v].state \in {"ARCHIVED", "SNAPSHOTTED", "COMPLETE"}
        PROVE  Holds(done', journal'[v].candidate) \/ replaced
    BY <2>1, ResumedStaysPrepared, SavedIsPrepared, BoundIsAccepted, FinalizeMovesOn DEF JournalStep
  <2> QED BY <2>1
<1> QED BY <1>1, Invariance, PTL DEF Spec, ArchivedAsTested

(* A journal is never removed, its state never goes back, and from the     *)
(* accepted run on its candidate and its run are fixed.                    *)
THEOREM JournalOnlyAdvancesHolds == Spec => JournalOnlyAdvances
<1> DEFINE Q(v) ==
       /\ journal'[v] # Nothing
       /\ Rank(journal[v].state) <= Rank(journal'[v].state)
       /\ journal[v].state # "PREPARED" =>
            /\ journal'[v].candidate = journal[v].candidate
            /\ journal'[v].test = journal[v].test
<1>1. IInv /\ [Next]_vars => [\A v \in Known : Q(v)]_journal
  <2> SUFFICES ASSUME IInv, [Next]_vars, JournalStep, NEW v \in Known PROVE Q(v)
    BY OtherStepsKeepJournal
  <2>1. v \in Versions /\ journal[v] # Nothing /\ journal[v].state \in States
    BY DEF Known, IInv, TypeOK, Journals
  <2>2. \A s \in States : Rank(s) <= Rank(s)
    BY DEF Rank, States
  <2>3. CASE journal'[v] = journal[v]
    BY <2>1, <2>2, <2>3
  <2>4. CASE journal'[v] # journal[v]
    <3>1. CASE ResumePending
      BY <2>1, <2>4, <3>1, ResumedStaysPrepared DEF Rank
    <3>2. CASE SavePrepared
      BY <2>1, <2>4, <3>2, SavedIsPrepared
    <3>3. CASE BoundRun
      BY <2>1, <2>4, <3>3, BoundIsAccepted DEF Rank
    <3>4. CASE SetArchived \/ StepSnapshot \/ SetComplete
      BY <2>1, <2>4, <3>4, FinalizeMovesOn DEF Rank
    <3> QED BY <3>1, <3>2, <3>3, <3>4 DEF JournalStep
  <2> QED BY <2>3, <2>4
<1> QED BY <1>1, Invariance, PTL DEF Spec, JournalOnlyAdvances

(* The steps that change Done/. *)
ArchiverStep ==
  MoveAside \/ CopyBody \/ CopyInfo \/ WriteNote \/ MoveFailed \/ PutBack

LEMMA OtherStepsKeepArchive ==
  ASSUME [Next]_vars, ~ArchiverStep
  PROVE  done' = done /\ kept' = kept
<1>1. ASSUME NEW keep \in BOOLEAN, NEW refresh \in BOOLEAN, Prepare(keep, refresh) PROVE done' = done /\ kept' = kept
  BY <1>1 DEF Prepare, archive, shelving
<1>2. ASSUME Lock PROVE done' = done /\ kept' = kept
  BY <1>2 DEF Lock, archive, shelving
<1>3. ASSUME ResumePending PROVE done' = done /\ kept' = kept
  BY <1>3 DEF ResumePending, archive, shelving
<1>4. ASSUME ChooseVersion PROVE done' = done /\ kept' = kept
  BY <1>4 DEF ChooseVersion, archive, shelving
<1>5. ASSUME WriteVersion PROVE done' = done /\ kept' = kept
  BY <1>5 DEF WriteVersion, archive, shelving
<1>6. ASSUME SavePrepared PROVE done' = done /\ kept' = kept
  BY <1>6 DEF SavePrepared, archive, shelving
<1>7. ASSUME NEW t \in Tests, Play(t) PROVE done' = done /\ kept' = kept
  BY <1>7 DEF Play, archive, shelving
<1>8. ASSUME NEW pass \in BOOLEAN, NEW acceptable \in BOOLEAN, Record(pass, acceptable) PROVE done' = done /\ kept' = kept
  BY <1>8 DEF Record, archive, shelving
<1>9. ASSUME NEW v \in Versions, NEW t \in Tests, Finalize(v, t) PROVE done' = done /\ kept' = kept
  BY <1>9 DEF Finalize, archive, shelving
<1>10. ASSUME CheckCandidate PROVE done' = done /\ kept' = kept
  BY <1>10 DEF CheckCandidate, archive, shelving
<1>11. ASSUME BoundRun PROVE done' = done /\ kept' = kept
  BY <1>11 DEF BoundRun, archive, shelving
<1>12. ASSUME RunRefused PROVE done' = done /\ kept' = kept
  BY <1>12 DEF RunRefused, archive, shelving
<1>13. ASSUME StepArchive PROVE done' = done /\ kept' = kept
  BY <1>13 DEF StepArchive, archive, shelving
<1>14. ASSUME SetArchived PROVE done' = done /\ kept' = kept
  BY <1>14 DEF SetArchived, archive, shelving
<1>15. ASSUME StepSnapshot PROVE done' = done /\ kept' = kept
  BY <1>15 DEF StepSnapshot, archive, shelving
<1>16. ASSUME SetComplete PROVE done' = done /\ kept' = kept
  BY <1>16 DEF SetComplete, archive, shelving
<1>17. ASSUME Archive PROVE done' = done /\ kept' = kept
  BY <1>17 DEF Archive, archive, shelving
<1>18. ASSUME Verify PROVE done' = done /\ kept' = kept
  BY <1>18 DEF Verify, archive, shelving
<1>19. ASSUME Fails PROVE done' = done /\ kept' = kept
  BY <1>19 DEF Fails, archive, shelving
<1>20. ASSUME Crash PROVE done' = done /\ kept' = kept
  BY <1>20 DEF Crash, archive, shelving
<1>21. ASSUME RemoveLock PROVE done' = done /\ kept' = kept
  BY <1>21 DEF RemoveLock, archive, shelving
<1>22. ASSUME Edit PROVE done' = done /\ kept' = kept
  BY <1>22 DEF Edit, archive, shelving
<1>23. ASSUME CallArchiveMod PROVE done' = done /\ kept' = kept
  BY <1>23 DEF CallArchiveMod, archive
<1>24. ASSUME Refuse PROVE done' = done /\ kept' = kept
  BY <1>24 DEF Refuse, archive
<1>25. ASSUME WriteLog PROVE done' = done /\ kept' = kept
  BY <1>25 DEF WriteLog, archive
<1>26. ASSUME Regate PROVE done' = done /\ kept' = kept
  BY <1>26 DEF Regate, archive
<1>27. CASE UNCHANGED vars
  BY <1>27 DEF vars, archive, shelving
<1> QED BY <1>1, <1>2, <1>3, <1>4, <1>5, <1>6, <1>7, <1>8, <1>9, <1>10, <1>11, <1>12, <1>13, <1>14, <1>15, <1>16, <1>17, <1>18, <1>19, <1>20, <1>21, <1>22, <1>23, <1>24, <1>25, <1>26, <1>27 DEF Next, Step, ArchiverStep

(* Every step on Done/ is a step of the shelf, or none it can see: what is *)
(* written before the note, and a partial archive, are not on it.          *)
LEMMA ShelfStep ==
  ASSUME IInv, ArchiverStep
  PROVE  [Shelf!Next]_(Shelf!shelf)
<1> USE ConstantsHold DEF Constants
<1> DEFINE cur == IF Whole(done) THEN done ELSE Nothing
<1>1. ASSUME ~Whole(done), ~Whole(done'), kept' = kept
      PROVE  UNCHANGED Shelf!shelf
  BY <1>1 DEF Shelf!shelf
<1>2. ASSUME done' = Nothing, kept' = kept \union WholeOf(done)
      PROVE  [Shelf!Next]_(Shelf!shelf)
  <2>1. CASE Whole(done)
    <3>1. done # Nothing /\ WholeOf(done) = {done} /\ ~Whole(done')
      BY <1>2, <2>1 DEF Whole, WholeOf
    <3>2. Shelf!SetAside
      BY <1>2, <2>1, <3>1 DEF Shelf!SetAside
    <3> QED BY <3>2 DEF Shelf!Next
  <2>2. CASE ~Whole(done)
    <3>1. WholeOf(done) = {} /\ ~Whole(done')
      BY <1>2, <2>2 DEF Whole, WholeOf
    <3> QED BY <1>1, <1>2, <2>2, <3>1
  <2> QED BY <2>1, <2>2
<1>3. CASE MoveAside \/ MoveFailed
  BY <1>2, <1>3 DEF MoveAside, MoveFailed
<1>4. CASE CopyBody
  <2>1. done = Nothing
    BY <1>4 DEF IInv, ArchiverFacts, CopyBody
  <2>2. done' = [body |-> working.body, version |-> Nothing, note |-> FALSE] /\ kept' = kept
    BY <1>4 DEF CopyBody
  <2>3. ~Whole(done) /\ ~Whole(done')
    BY <2>1, <2>2 DEF Whole
  <2> QED BY <1>1, <2>2, <2>3
<1>5. CASE CopyInfo
  <2>1. done # Nothing /\ ~done.note /\ done \in Archives
    BY <1>5 DEF IInv, ArchiverFacts, CopyInfo, TypeOK
  <2>2. done' = [done EXCEPT !.version = working.version] /\ kept' = kept
    BY <1>5 DEF CopyInfo
  <2>3. ~Whole(done) /\ ~Whole(done')
    BY <2>1, <2>2 DEF Whole, Archives
  <2> QED BY <1>1, <2>2, <2>3
<1>6. CASE WriteNote
  <2>1. done # Nothing /\ ~done.note /\ done \in Archives
    BY <1>6 DEF IInv, ArchiverFacts, WriteNote, TypeOK
  <2>2. done' = [done EXCEPT !.note = TRUE] /\ kept' = kept
    BY <1>6 DEF WriteNote
  <2>3. done' \in Archives /\ done'.note
    BY <2>1, <2>2 DEF Archives
  <2>4. ~Whole(done) /\ Whole(done')
    BY <2>1, <2>3 DEF Whole
  <2>5. Shelf!Publish(done')
    BY <2>2, <2>4 DEF Shelf!Publish
  <2> QED BY <2>3, <2>5 DEF Shelf!Next
<1>7. CASE PutBack
  <2>1. done = Nothing /\ kept = archiver.before \union WholeOf(archiver.moved)
    BY <1>7 DEF IInv, ArchiverFacts, ArchiverPcs, PutBack
  <2>2. done' = archiver.moved /\ kept' = archiver.before
    BY <1>7 DEF PutBack
  <2>3. ~Whole(done)
    BY <2>1 DEF Whole
  <2>4. CASE Whole(archiver.moved)
    <3>1. WholeOf(archiver.moved) = {archiver.moved}
      BY <2>4 DEF WholeOf
    <3>2. archiver.moved \in kept /\ kept' \in {kept, kept \ {archiver.moved}}
      BY <2>1, <2>2, <3>1
    <3>3. archiver.moved \in Archives
      BY <3>2 DEF IInv, TypeOK
    <3>4. Shelf!PutBack(archiver.moved)
      BY <2>2, <2>3, <2>4, <3>2 DEF Shelf!PutBack
    <3> QED BY <3>3, <3>4 DEF Shelf!Next
  <2>5. CASE ~Whole(archiver.moved)
    <3>1. WholeOf(archiver.moved) = {}
      BY <2>5 DEF WholeOf
    <3> QED BY <1>1, <2>1, <2>2, <2>3, <2>5, <3>1
  <2> QED BY <2>4, <2>5
<1> QED BY <1>3, <1>4, <1>5, <1>6, <1>7 DEF ArchiverStep

(* Done/ implements the shelf: whole archives, none of which is lost. *)
THEOREM ShelfRefinement == Spec => ShelfImplemented
<1>1. Init => Shelf!Init
  BY DEF Init, Shelf!Init, Whole
<1>2. IInv /\ [Next]_vars => [Shelf!Next]_(Shelf!shelf)
  <2> SUFFICES ASSUME IInv, [Next]_vars, ~ArchiverStep PROVE UNCHANGED Shelf!shelf
    BY ShelfStep
  <2> QED BY OtherStepsKeepArchive DEF Shelf!shelf, Whole
<1> QED BY <1>1, <1>2, Invariance, PTL DEF Spec, ShelfImplemented, Shelf!Spec

-----------------------------------------------------------------------------
(* How many steps of its code a call has before it at most: a bound on     *)
(* what is left, for finalize with the archiver inside it, for prepare and *)
(* for the restoration of an earlier archive.                              *)
StepsLeft ==
  [pc \in {"idle"} \union PreparePcs \union FinalizePcs \union ArchiverPcs |->
    CASE pc = "idle" -> 0
      [] pc \in {"complete", "save", "putback"} -> 1
      [] pc \in {"snapshot", "version", "restore"} -> 2
      [] pc \in {"archived", "pending"} -> 3
      [] pc \in {"written", "opening"} -> 4
      [] pc = "log" -> 5
      [] pc = "note" -> 6
      [] pc = "info" -> 7
      [] pc = "body" -> 8
      [] pc = "aside" -> 9
      [] pc = "archiving" -> 10
      [] pc = "archive" -> 11
      [] pc = "run" -> 12
      [] pc = "candidate" -> 13
      [] pc = "finalize" -> 14]

(* The archive_mod that the running finalize called, and the place of a    *)
(* call: its own, or that of its archive_mod.                              *)
Own == archiver # Idle /\ ~archiver.plain
Place == IF Own THEN archiver.pc ELSE call.pc

Nearer == StepsLeft[Place'] < StepsLeft[Place]

(* Everything an error, a death or another actor can do to a call of       *)
(* finalize: a fault, an edit of the working copy, a gate that closes, a   *)
(* command of its own that changes Done/, and, until the call has read     *)
(* them, other run records.                                                *)
Reading == {"finalize", "candidate", "run"}
Disturbed ==
  \/ faults' # faults
  \/ working' # working
  \/ gates' # gates
  \/ archiver # Idle /\ archiver.plain /\ done' # done
  \/ call.pc \in Reading /\ <<lines, trusted>>' # <<lines, trusted>>

(* A call of finalize for v that nothing has disturbed: what it found or   *)
(* copied so far is the candidate, and what it has still to read is there. *)
Undisturbed(v) ==
  /\ call.pc \in FinalizePcs
  /\ call.rev = v
  /\ journal[v] # Nothing
  /\ journal[v].state # "PREPARED"
  /\ working = journal[v].candidate
  /\ call.pc = "finalize" => ~lock
  /\ call.pc \in Reading => call.test = journal[v].test /\ Qualifies(v, call.test)
  /\ call.pc \in Reading \union {"archive"} /\ journal[v].state \in {"ARCHIVED", "SNAPSHOTTED"} =>
       Holds(done, working)
  /\ call.pc \in Reading \union {"archive", "archiving"} /\ journal[v].state = "LIVE_ACCEPTED" =>
       gates /\ working.body \notin Refused
  /\ Own =>
       /\ archiver.pc \in {"aside", "body", "info", "note", "log"}
       /\ archiver.pc \in {"info", "note", "log"} => done.body = working.body
       /\ archiver.pc \in {"note", "log"} => done.version = working.version
       /\ archiver.pc = "log" => done.note
  /\ call.pc = "written" => Holds(done, working)

(* The core of FinalizeCompletes that is not about fairness: finalize,     *)
(* started again on a revision that can be resumed and left alone, meets   *)
(* no step that refuses or fails it; each step brings it nearer to its     *)
(* end, and it ends with the revision complete.                            *)
ResumedCompletes ==
  [][\A v \in Versions :
       /\ Resumable(v) /\ ~lock /\ Finalize(v, journal[v].test) => Undisturbed(v)'
       /\ Undisturbed(v) /\ ~Disturbed =>
            \/ Undisturbed(v)' /\ (UNCHANGED Place \/ Nearer)
            \/ call' = Idle /\ journal'[v].state = "COMPLETE"]_vars

(* Every call ends: whatever happens to it, it is never set back.          *)
CallsShorten == [][call = Idle \/ UNCHANGED Place \/ Nearer]_vars

(* A revision names the run that accepted it from then on, and only then.  *)
TestNamed == \A v \in Known : journal[v].test = Nothing <=> journal[v].state = "PREPARED"

(* A new revision and a refreshed one have no run yet, an accepted one     *)
(* gets its run in the write that accepts it.                              *)
LEMMA StepNamed ==
  ASSUME IInv, TestNamed, [Next]_vars
  PROVE  TestNamed'
<1> SUFFICES ASSUME NEW v \in Versions, journal'[v] # Nothing
             PROVE  journal'[v].test = Nothing <=> journal'[v].state = "PREPARED"
  BY DEF TestNamed, Known
<1> USE ConstantsHold DEF Constants
<1>1. CASE journal'[v] = journal[v]
  BY <1>1 DEF TestNamed, Known
<1>2. CASE journal'[v] # journal[v]
  <2>1. JournalStep
    BY <1>2, OtherStepsKeepJournal
  <2>2. CASE ResumePending
    <3>1. \E u \in Pending : Pending = {u}
      BY <1>2, <2>2 DEF ResumePending
    <3>2. PICK u \in Pending : Pending = {u}
      BY <3>1
    <3>3. journal' = Refreshed(u) /\ u \in Versions /\ journal[u] # Nothing
      BY <2>2, <3>1, <3>2 DEF ResumePending, Pending, Known
    <3>4. journal' = [journal EXCEPT ![u].candidate = working]
      BY <1>2, <3>3 DEF Refreshed
    <3>5. u = v /\ journal'[v] = [journal[v] EXCEPT !.candidate = working]
      BY <1>2, <3>3, <3>4 DEF IInv, TypeOK
    <3>6. journal[v] \in Journals
      BY <3>3, <3>5 DEF IInv, TypeOK
    <3>7. journal'[v].test = journal[v].test /\ journal'[v].state = journal[v].state
      BY <3>5, <3>6 DEF Journals
    <3> QED BY <3>3, <3>5, <3>7 DEF TestNamed, Known
  <2>3. CASE SavePrepared
    <3> DEFINE j == [state |-> "PREPARED", candidate |-> working, test |-> Nothing]
    <3>1. journal' = [journal EXCEPT ![call.rev] = j]
      BY <1>2, <2>3 DEF SavePrepared
    <3>2. j.test = Nothing /\ j.state = "PREPARED"
      OBVIOUS
    <3> HIDE DEF j
    <3> QED BY <1>2, <3>1, <3>2 DEF IInv, TypeOK
  <2>4. CASE BoundRun
    <3> DEFINE j == [journal[call.rev] EXCEPT !.state = "LIVE_ACCEPTED", !.test = call.test]
    <3>1. /\ call.rev \in Versions /\ call.test \in Tests
          /\ journal[call.rev] # Nothing /\ journal[call.rev] \in Journals
      BY <2>4 DEF IInv, TypeOK, FinalizeFacts, FinalizePcs, BoundRun
    <3>2. journal' = [journal EXCEPT ![call.rev] = j]
      BY <1>2, <2>4, <3>1 DEF BoundRun, Entry, IInv, TypeOK
    <3>3. j.test # Nothing /\ j.state # "PREPARED"
      BY <3>1 DEF Journals
    <3> HIDE DEF j
    <3> QED BY <1>2, <3>2, <3>3 DEF IInv, TypeOK
  <2>5. CASE SetArchived \/ StepSnapshot \/ SetComplete
    <3>1. /\ journal[v] # Nothing /\ journal'[v].test = journal[v].test
          /\ journal[v].state # "PREPARED" /\ journal'[v].state # "PREPARED"
      BY <1>2, <2>5, FinalizeMovesOn
    <3> QED BY <3>1 DEF TestNamed, Known
  <2> QED BY <2>1, <2>2, <2>3, <2>4, <2>5 DEF JournalStep
<1> QED BY <1>1, <1>2

LEMMA PlacesLeft ==
  /\ StepsLeft["idle"] = 0 /\ StepsLeft["complete"] = 1 /\ StepsLeft["save"] = 1
  /\ StepsLeft["putback"] = 1 /\ StepsLeft["snapshot"] = 2 /\ StepsLeft["version"] = 2
  /\ StepsLeft["restore"] = 2 /\ StepsLeft["archived"] = 3 /\ StepsLeft["pending"] = 3
  /\ StepsLeft["written"] = 4 /\ StepsLeft["opening"] = 4 /\ StepsLeft["log"] = 5
  /\ StepsLeft["note"] = 6 /\ StepsLeft["info"] = 7 /\ StepsLeft["body"] = 8
  /\ StepsLeft["aside"] = 9 /\ StepsLeft["archiving"] = 10 /\ StepsLeft["archive"] = 11
  /\ StepsLeft["run"] = 12 /\ StepsLeft["candidate"] = 13 /\ StepsLeft["finalize"] = 14
BY DEF StepsLeft, PreparePcs, FinalizePcs, ArchiverPcs

(* What is left after a Goto, a move of the archiver or a return.          *)
LEMMA GotoLeads ==
  ASSUME call \in PrepareCalls \union FinalizeCalls, NEW pc, Goto(pc)
  PROVE  call'.pc = pc
BY DEF Goto, PrepareCalls, FinalizeCalls

LEMMA ReturnLeads ==
  ASSUME Return PROVE call' = Idle /\ call'.pc = "idle"
BY DEF Return, Idle

LEMMA RunningCall ==
  ASSUME TypeOK, call # Idle
  PROVE  /\ call \in PrepareCalls \union FinalizeCalls
         /\ call.pc \in PreparePcs \union FinalizePcs
BY DEF TypeOK, Calls, PrepareCalls, FinalizeCalls

(* While finalize is not inside archive_mod, its place is its own.         *)
LEMMA CallPlace ==
  ASSUME IInv, call.pc # "archiving", UNCHANGED archiver
  PROVE  ~Own /\ ~Own' /\ Place = call.pc /\ Place' = call'.pc
BY DEF IInv, ArchiverFacts, Own, Place

(* A step of the revise call itself.                                       *)
CallStep ==
  \/ Lock \/ ResumePending \/ ChooseVersion \/ WriteVersion \/ SavePrepared
  \/ CheckCandidate \/ BoundRun \/ RunRefused \/ StepArchive
  \/ Verify \/ SetArchived \/ StepSnapshot \/ SetComplete

LEMMA CallStepKeepsArchiver ==
  ASSUME CallStep
  PROVE  UNCHANGED archiver /\ call.pc # "archiving"
<1> USE DEF shelving
<1>1. CASE Lock \/ ResumePending \/ ChooseVersion \/ WriteVersion \/ SavePrepared
  BY <1>1 DEF Lock, ResumePending, ChooseVersion, WriteVersion, SavePrepared
<1>2. CASE CheckCandidate \/ BoundRun \/ RunRefused \/ StepArchive
  BY <1>2 DEF CheckCandidate, BoundRun, RunRefused, StepArchive
<1>3. CASE Verify \/ SetArchived \/ StepSnapshot \/ SetComplete
  BY <1>3 DEF Verify, SetArchived, StepSnapshot, SetComplete
<1> QED BY <1>1, <1>2, <1>3 DEF CallStep

LEMMA CallStepShortens ==
  ASSUME IInv, call # Idle, CallStep
  PROVE  Nearer
<1>0. /\ call \in PrepareCalls \union FinalizeCalls
      /\ call.pc \in PreparePcs \union FinalizePcs
      /\ Place = call.pc /\ Place' = call'.pc
  BY RunningCall, CallPlace, CallStepKeepsArchiver DEF IInv
<1>1. CASE Lock
  BY <1>0, <1>1, PlacesLeft, GotoLeads, ReturnLeads DEF Nearer, Lock, Idle
<1>2. CASE ResumePending
  BY <1>0, <1>2, PlacesLeft, GotoLeads, ReturnLeads DEF Nearer, ResumePending
<1>3. CASE ChooseVersion
  <2>1. CASE Return
    BY <1>0, <1>3, <2>1, PlacesLeft, GotoLeads, ReturnLeads DEF Nearer, ChooseVersion
  <2>2. CASE ~Return
    <3> DEFINE chosen == IF call.keep THEN call.old ELSE call.old + 1
    <3>1. call' = [call EXCEPT !.pc = "version", !.rev = chosen]
      BY <1>3, <2>2 DEF ChooseVersion
    <3> HIDE DEF chosen
    <3>2. call'.pc = "version"
      BY <1>0, <3>1 DEF PrepareCalls, FinalizeCalls
    <3> QED BY <1>0, <1>3, <3>2, PlacesLeft DEF Nearer, ChooseVersion
  <2> QED BY <2>1, <2>2
<1>4. CASE WriteVersion
  BY <1>0, <1>4, PlacesLeft, GotoLeads, ReturnLeads DEF Nearer, WriteVersion
<1>5. CASE SavePrepared
  BY <1>0, <1>5, PlacesLeft, GotoLeads, ReturnLeads DEF Nearer, SavePrepared
<1>6. CASE CheckCandidate
  BY <1>0, <1>6, PlacesLeft, GotoLeads, ReturnLeads DEF Nearer, CheckCandidate
<1>7. CASE BoundRun
  BY <1>0, <1>7, PlacesLeft, GotoLeads, ReturnLeads DEF Nearer, BoundRun
<1>8. CASE RunRefused
  BY <1>0, <1>8, PlacesLeft, GotoLeads, ReturnLeads DEF Nearer, RunRefused
<1>9. CASE StepArchive
  <2>1. Return \/ \E pc \in {"archived", "snapshot", "archiving"} : Goto(pc)
    BY <1>9 DEF StepArchive
  <2> QED BY <1>0, <1>9, <2>1, PlacesLeft, GotoLeads, ReturnLeads DEF Nearer, StepArchive
<1>10. CASE Verify
  BY <1>0, <1>10, PlacesLeft, GotoLeads, ReturnLeads DEF Nearer, Verify
<1>11. CASE SetArchived
  BY <1>0, <1>11, PlacesLeft, GotoLeads, ReturnLeads DEF Nearer, SetArchived
<1>12. CASE StepSnapshot
  BY <1>0, <1>12, PlacesLeft, GotoLeads, ReturnLeads DEF Nearer, StepSnapshot
<1>13. CASE SetComplete
  BY <1>0, <1>13, PlacesLeft, GotoLeads, ReturnLeads DEF Nearer, SetComplete
<1> QED
  BY <1>1, <1>2, <1>3, <1>4, <1>5, <1>6, <1>7, <1>8, <1>9, <1>10, <1>11, <1>12, <1>13 DEF CallStep

(* What a step of archive_mod does to its place and to the call.           *)
ArchiveModStep ==
  Refuse \/ MoveAside \/ CopyBody \/ CopyInfo \/ WriteNote \/ WriteLog \/ MoveFailed \/ PutBack

LEMMA ArchiveModMoves ==
  ASSUME IInv, ArchiveModStep
  PROVE  /\ archiver \in ArchiverCalls /\ archiver # Idle
         /\ archiver.plain => UNCHANGED call /\ ~Own'
         /\ Own => StepsLeft[Place'] < StepsLeft[archiver.pc]
<1>0. archiver \in ArchiverCalls /\ archiver # Idle
  BY ArchiverShape DEF IInv, TypeOK, ArchiverPcs, ArchiveModStep, Refuse, MoveAside, CopyBody,
     CopyInfo, WriteNote, WriteLog, MoveFailed, PutBack
<1>1. CASE Refuse \/ PutBack
  <2>1. Raise /\ archiver.pc \in {"aside", "putback"}
    BY <1>1 DEF Refuse, PutBack
  <2>2. archiver' = Idle /\ ~Own'
    BY <2>1, RaiseFacts DEF Own
  <2>3. CASE archiver.plain
    BY <1>0, <2>1, <2>2, <2>3, RaiseFacts DEF Own
  <2>4. CASE ~archiver.plain
    <3>1. Place' = "idle"
      BY <2>1, <2>2, <2>4, RaiseFacts, IdleIsCall DEF Place
    <3> QED BY <1>0, <2>1, <2>2, <2>4, <3>1, PlacesLeft
  <2> QED BY <2>3, <2>4
<1>2. ASSUME NEW pc \in ArchiverPcs, Proceed(pc), UNCHANGED call, StepsLeft[pc] < StepsLeft[archiver.pc]
      PROVE  /\ archiver.plain => UNCHANGED call /\ ~Own'
             /\ Own => StepsLeft[Place'] < StepsLeft[archiver.pc]
  <2>1. archiver' \in ArchiverCalls /\ archiver'.pc = pc /\ archiver'.plain = archiver.plain
    BY <1>0, <1>2, ProceedFacts
  <2>2. archiver' # Idle
    BY <1>2, <2>1 DEF Idle, ArchiverPcs
  <2> QED BY <1>2, <2>1, <2>2 DEF Own, Place
<1>3. CASE CopyBody
  BY <1>0, <1>2, <1>3, PlacesLeft DEF CopyBody, ArchiverPcs
<1>4. CASE CopyInfo
  BY <1>0, <1>2, <1>4, PlacesLeft DEF CopyInfo, ArchiverPcs
<1>5. CASE WriteNote
  BY <1>0, <1>2, <1>5, PlacesLeft DEF WriteNote, ArchiverPcs
<1>6. CASE MoveAside \/ MoveFailed
  <2>1. /\ archiver'.plain = archiver.plain /\ archiver' # Idle /\ UNCHANGED call
        /\ \/ archiver.pc = "aside" /\ archiver'.pc = "body"
           \/ archiver.pc = "restore" /\ archiver'.pc = "putback"
    BY <1>0, <1>6 DEF MoveAside, MoveFailed, ArchiverCalls, Idle
  <2> QED BY <1>0, <2>1, PlacesLeft DEF Own, Place
<1>7. CASE WriteLog
  <2>1. archiver' = Idle /\ archiver.pc = "log"
    BY <1>7 DEF WriteLog
  <2>2. CASE archiver.plain
    BY <1>0, <1>7, <2>1, <2>2 DEF WriteLog, Own
  <2>3. CASE ~archiver.plain
    <3>1. call.pc = "archiving" /\ Goto("written")
      BY <1>0, <1>7, <2>3 DEF WriteLog, IInv, ArchiverFacts
    <3>2. call \in FinalizeCalls
      BY <3>1, CallShape DEF IInv, TypeOK, FinalizePcs
    <3>3. call'.pc = "written"
      BY <3>1, <3>2, GotoLeads
    <3> QED BY <1>0, <2>1, <2>3, <3>3, PlacesLeft DEF Own, Place
  <2> QED BY <2>2, <2>3
<1> QED BY <1>0, <1>1, <1>3, <1>4, <1>5, <1>6, <1>7 DEF ArchiveModStep

(* No step sets a call back.                                               *)
LEMMA StepShortens ==
  ASSUME IInv, call # Idle, [Next]_vars
  PROVE  UNCHANGED Place \/ Nearer
<1>0. /\ call \in PrepareCalls \union FinalizeCalls
      /\ call.pc \in PreparePcs \union FinalizePcs
  BY RunningCall DEF IInv
<1>1. CASE CallStep
  BY <1>1, CallStepShortens
<1>2. CASE ArchiveModStep
  <2>1. CASE Own
    BY <1>2, <2>1, ArchiveModMoves DEF Nearer, Place
  <2>2. CASE ~Own
    BY <1>2, <2>2, ArchiveModMoves DEF Own, Place
  <2> QED BY <2>1, <2>2
<1>3. CASE CallArchiveMod
  <2>1. /\ call.pc = "archiving" /\ ~Own /\ Own' /\ archiver'.pc = "aside"
    BY <1>3 DEF CallArchiveMod, Started, Own, Idle
  <2> QED BY <2>1, PlacesLeft DEF Nearer, Place
<1>4. CASE Archive
  BY <1>4 DEF Archive, Started, Own, Place
<1>5. CASE Fails
  <2>1. CASE UNCHANGED archiver /\ Return /\ call.pc # "archiving"
    BY <1>0, <2>1, CallPlace, PlacesLeft, ReturnLeads DEF Nearer, PreparePcs, FinalizePcs
  <2>2. CASE archiver # Idle /\ Raise
    <3>1. archiver \in ArchiverCalls
      BY <2>2, ArchiverShape DEF IInv, TypeOK
    <3>2. archiver.pc \in ArchiverPcs /\ ~Own'
      BY <3>1, <2>2, RaiseFacts DEF ArchiverCalls, Own
    <3>3. CASE archiver.plain
      BY <2>2, <3>2, <3>3, RaiseFacts DEF Own, Place
    <3>4. CASE ~archiver.plain
      <4>1. Place = archiver.pc /\ Place' = "idle"
        BY <2>2, <3>2, <3>4, RaiseFacts, IdleIsCall DEF Own, Place
      <4> QED BY <3>2, <4>1, PlacesLeft DEF Nearer, ArchiverPcs
    <3> QED BY <3>3, <3>4
  <2>3. CASE archiver.pc \in {"body", "info", "note", "log"} /\ Proceed("restore") /\ UNCHANGED call
    <3>1. archiver \in ArchiverCalls
      BY <2>3, ArchiverShape DEF IInv, TypeOK, ArchiverPcs
    <3>2. archiver'.pc = "restore" /\ archiver'.plain = archiver.plain
      BY <2>3, <3>1, ProceedFacts DEF ArchiverPcs
    <3>3. archiver # Idle /\ archiver' # Idle
      BY <2>3, <3>2 DEF Idle
    <3> QED BY <2>3, <3>2, <3>3, PlacesLeft DEF Nearer, Own, Place
  <2> QED BY <1>5, <2>1, <2>2, <2>3 DEF Fails
<1>6. CASE Crash
  <2>1. CASE call' = Idle /\ archiver' = IF archiver # Idle /\ archiver.plain THEN archiver ELSE Idle
    <3>1. ~Own' /\ Place' = "idle"
      BY <2>1, IdleIsCall DEF Own, Place
    <3>2. CASE Own
      <4>1. archiver.pc \in ArchiverPcs
        BY <3>2, ArchiverShape DEF IInv, TypeOK, Own
      <4> QED BY <3>1, <3>2, <4>1, PlacesLeft DEF Nearer, Place, ArchiverPcs
    <3>3. CASE ~Own
      BY <1>0, <3>1, <3>3, PlacesLeft DEF Nearer, Place, PreparePcs, FinalizePcs
    <3> QED BY <3>2, <3>3
  <2>2. CASE archiver # Idle /\ archiver.plain /\ archiver' = Idle /\ UNCHANGED call
    BY <2>2 DEF Own, Place
  <2> QED BY <1>6, <2>1, <2>2 DEF Crash
<1>7. CASE UNCHANGED <<call, archiver>>
  BY <1>7 DEF Place, Own
<1>8. ASSUME NEW keep \in BOOLEAN, NEW refresh \in BOOLEAN, Prepare(keep, refresh) PROVE FALSE
  BY <1>8 DEF Prepare
<1>9. ASSUME NEW v \in Versions, NEW t \in Tests, Finalize(v, t) PROVE FALSE
  BY <1>9 DEF Finalize
<1>10. RemoveLock \/ Edit \/ Regate \/ UNCHANGED vars => UNCHANGED <<call, archiver>>
  BY DEF RemoveLock, Edit, Regate, vars, shelving
<1>11. ASSUME NEW t \in Tests, Play(t) PROVE UNCHANGED <<call, archiver>>
  BY <1>11 DEF Play, shelving
<1>12. ASSUME NEW pass \in BOOLEAN, NEW acceptable \in BOOLEAN, Record(pass, acceptable)
       PROVE UNCHANGED <<call, archiver>>
  BY <1>12 DEF Record, shelving
<1> QED
  BY <1>1, <1>2, <1>3, <1>4, <1>5, <1>6, <1>7, <1>8, <1>9, <1>10, <1>11, <1>12
     DEF Next, Step, CallStep, ArchiveModStep

-----------------------------------------------------------------------------
(* What an undisturbed call comes to: still undisturbed, or complete.      *)
Goes(v) ==
  \/ Undisturbed(v)'
  \/ call' = Idle /\ journal'[v].state = "COMPLETE"

(* What is known of an undisturbed call.                                   *)
LEMMA UndisturbedFacts ==
  ASSUME IInv, NEW v \in Versions, Undisturbed(v)
  PROVE  /\ call \in FinalizeCalls /\ call # Idle
         /\ Entry = journal[v] /\ journal[v] \in Journals /\ Entry.candidate = working
         /\ done \in Archives \union {Nothing}
         /\ working \in Bytes
<1> USE ConstantsHold DEF Constants
<1>1. call \in FinalizeCalls
  BY CallShape DEF IInv, TypeOK, Undisturbed
<1>2. call # Idle
  BY DEF Undisturbed, Idle, FinalizePcs
<1> QED BY <1>1, <1>2 DEF IInv, TypeOK, Undisturbed, Entry

(* Before the archiver: what the call reads is what the revision needs.    *)
LEMMA ReadingGoes ==
  ASSUME IInv, NEW v \in Versions, Undisturbed(v), UNCHANGED working,
         Lock \/ CheckCandidate \/ BoundRun \/ RunRefused \/ StepArchive
  PROVE  Goes(v)
<1> USE ConstantsHold, UndisturbedFacts DEF Constants, Goes, Reading
<1>0. ~Own'
  BY CallPlace, CallStepKeepsArchiver DEF CallStep
<1>1. CASE Lock
  <2>1. call.pc = "finalize" /\ Goto("candidate")
    BY <1>1 DEF Lock, Undisturbed, FinalizePcs
  <2>2. /\ call'.pc = "candidate" /\ call'.rev = v /\ call'.test = call.test
    BY <2>1 DEF Goto, FinalizeCalls, Undisturbed
  <2>3. UNCHANGED <<journal, working, done, lines, trusted, gates>>
    BY <1>1 DEF Lock, evidence, archive, shelving
  <2> QED BY <1>0, <2>1, <2>2, <2>3 DEF Undisturbed, Qualifies, Holds, Whole, FinalizePcs
<1>2. CASE CheckCandidate
  <2>0. UNCHANGED <<journal, working, done, lines, trusted, gates>> /\ call.pc = "candidate"
    BY <1>2 DEF CheckCandidate, evidence, archive, shelving
  <2>1. CASE journal[v].state = "COMPLETE"
    <3>1. Return
      BY <1>2, <2>1 DEF CheckCandidate
    <3> QED BY <2>0, <2>1, <3>1, ReturnLeads
  <2>2. CASE journal[v].state # "COMPLETE"
    <3>1. Goto("run")
      BY <1>2, <2>2 DEF CheckCandidate, Undisturbed
    <3>2. call'.pc = "run" /\ call'.rev = v /\ call'.test = call.test
      BY <3>1 DEF Goto, FinalizeCalls, Undisturbed
    <3> QED BY <1>0, <2>0, <3>2 DEF Undisturbed, Qualifies, Holds, Whole, FinalizePcs
  <2> QED BY <2>1, <2>2
<1>3. CASE BoundRun
  <2>1. UNCHANGED <<journal, working, done, gates>> /\ call.pc = "run"
    BY <1>3 DEF BoundRun, archive, shelving, Undisturbed
  <2>2. call'.pc = "archive" /\ call'.rev = v
    BY <1>3 DEF BoundRun, Goto, FinalizeCalls, Undisturbed
  <2> QED BY <1>0, <2>1, <2>2 DEF Undisturbed, Holds, Whole, FinalizePcs
<1>4. ~RunRefused
  BY DEF RunRefused, Undisturbed
<1>5. CASE StepArchive
  <2>0. UNCHANGED <<journal, working, done, gates>> /\ call.pc = "archive"
    BY <1>5 DEF StepArchive, archive
  <2>1. Entry.state \in {"LIVE_ACCEPTED", "ARCHIVED", "SNAPSHOTTED"}
    BY <2>0 DEF IInv, FinalizeFacts, Undisturbed
  <2>2. \E pc \in {"archived", "snapshot", "archiving"} : Goto(pc)
    BY <1>5, <2>0, <2>1 DEF StepArchive, Undisturbed
  <2>3. call'.pc \in {"archived", "snapshot", "archiving"} /\ call'.rev = v
    BY <2>2 DEF Goto, FinalizeCalls, Undisturbed
  <2> QED BY <1>0, <2>0, <2>3 DEF Undisturbed, FinalizePcs
<1> QED BY <1>1, <1>2, <1>3, <1>4, <1>5

(* archive_mod, called by finalize, refuses nothing, copies the candidate  *)
(* file by file and leaves it whole.                                       *)
LEMMA CopyingGoes ==
  ASSUME IInv, NEW v \in Versions, Undisturbed(v), UNCHANGED working, Own, ArchiveModStep
  PROVE  Goes(v)
<1> USE ConstantsHold, UndisturbedFacts DEF Constants, Goes, Reading
<1>0. /\ call.pc = "archiving" /\ journal[v].state = "LIVE_ACCEPTED"
      /\ archiver \in ArchiverCalls /\ ~archiver.plain
      /\ gates /\ working.body \notin Refused
  BY ArchiverShape DEF IInv, TypeOK, ArchiverFacts, FinalizeFacts, Own, Undisturbed
<1>a. ASSUME UNCHANGED <<call, journal, gates>>, NEW pc \in {"body", "info", "note", "log"},
             archiver'.pc = pc,
             pc \in {"info", "note", "log"} => done'.body = working.body,
             pc \in {"note", "log"} => done'.version = working.version,
             pc = "log" => done'.note
      PROVE  Goes(v)
  BY <1>0, <1>a DEF Undisturbed, FinalizePcs
<1>1. ~Refuse /\ ~MoveFailed /\ ~PutBack
  BY <1>0 DEF Refuse, MoveFailed, PutBack, Undisturbed
<1>2. CASE MoveAside
  <2>1. archiver'.pc = "body"
    BY <1>0, <1>2 DEF MoveAside, ArchiverCalls
  <2> QED BY <1>2, <1>a, <2>1 DEF MoveAside
<1>3. CASE CopyBody
  <2>1. archiver'.pc = "info"
    BY <1>0, <1>3 DEF CopyBody, Proceed, ArchiverCalls
  <2> QED BY <1>3, <1>a, <2>1 DEF CopyBody
<1>4. CASE CopyInfo
  <2>1. archiver'.pc = "note"
    BY <1>0, <1>4 DEF CopyInfo, Proceed, ArchiverCalls
  <2>2. done # Nothing /\ done.body = working.body
    BY <1>4 DEF CopyInfo, IInv, ArchiverFacts, Undisturbed
  <2>3. done'.body = working.body /\ done'.version = working.version
    BY <1>4, <2>2 DEF CopyInfo, Archives
  <2> QED BY <1>4, <1>a, <2>1, <2>3 DEF CopyInfo
<1>5. CASE WriteNote
  <2>1. archiver'.pc = "log"
    BY <1>0, <1>5 DEF WriteNote, Proceed, ArchiverCalls
  <2>2. done # Nothing /\ done.body = working.body /\ done.version = working.version
    BY <1>5 DEF WriteNote, IInv, ArchiverFacts, Undisturbed
  <2>3. done'.body = working.body /\ done'.version = working.version /\ done'.note
    BY <1>5, <2>2 DEF WriteNote, Archives
  <2> QED BY <1>5, <1>a, <2>1, <2>3 DEF WriteNote
<1>6. CASE WriteLog
  <2>1. done # Nothing /\ Holds(done, working)
    BY <1>6 DEF WriteLog, IInv, ArchiverFacts, Undisturbed, Holds, Whole
  <2>2. call'.pc = "written" /\ call'.rev = v
    BY <1>0, <1>6 DEF WriteLog, Goto, FinalizeCalls, Undisturbed
  <2>3. UNCHANGED <<journal, done>> /\ ~Own'
    BY <1>6 DEF WriteLog, archive, Own
  <2> QED BY <2>1, <2>2, <2>3 DEF Undisturbed, Holds, Whole, FinalizePcs
<1> QED BY <1>1, <1>2, <1>3, <1>4, <1>5, <1>6 DEF ArchiveModStep

(* After the archiver: what it left is verified, and the journal is saved  *)
(* after each step, to the last.                                           *)
LEMMA SavingGoes ==
  ASSUME IInv, NEW v \in Versions, Undisturbed(v), UNCHANGED working,
         Verify \/ SetArchived \/ StepSnapshot \/ SetComplete
  PROVE  Goes(v)
<1> USE ConstantsHold, UndisturbedFacts DEF Constants, Goes, Reading
<1>a. ~Own'
  BY CallPlace, CallStepKeepsArchiver DEF CallStep
<1>0. ASSUME NEW state \in States, SetState(state)
      PROVE  /\ journal'[v] # Nothing /\ journal'[v].state = state
             /\ journal'[v].candidate = journal[v].candidate
  <2>1. journal' = [journal EXCEPT ![v] = [journal[v] EXCEPT !.state = state]]
    BY <1>0 DEF SetState, Undisturbed
  <2>2. [journal[v] EXCEPT !.state = state] \in Journals
    BY DEF Journals
  <2> QED BY <2>1, <2>2 DEF IInv, TypeOK, Journals
<1>1. CASE SetArchived
  <2>1. call'.pc = "snapshot" /\ call'.rev = v
    BY <1>1 DEF SetArchived, Goto, FinalizeCalls, Undisturbed
  <2>2. journal'[v] # Nothing /\ journal'[v].state = "ARCHIVED" /\ journal'[v].candidate = working
    BY <1>0, <1>1 DEF SetArchived, States
  <2> QED BY <1>a, <2>1, <2>2 DEF Undisturbed, FinalizePcs
<1>2. CASE StepSnapshot
  <2>1. call'.pc = "complete" /\ call'.rev = v
    BY <1>2 DEF StepSnapshot, Goto, FinalizeCalls, Undisturbed
  <2>2. journal'[v] # Nothing /\ journal'[v].state = "SNAPSHOTTED" /\ journal'[v].candidate = working
    BY <1>0, <1>2 DEF StepSnapshot, States
  <2> QED BY <1>a, <2>1, <2>2 DEF Undisturbed, FinalizePcs
<1>3. CASE SetComplete
  BY <1>0, <1>3, ReturnLeads DEF SetComplete, States
<1>4. CASE Verify
  <2>1. Goto("archived")
    BY <1>4 DEF Verify, Undisturbed
  <2>2. call'.pc = "archived" /\ call'.rev = v
    BY <2>1 DEF Goto, FinalizeCalls, Undisturbed
  <2> QED BY <1>4, <1>a, <2>2 DEF Verify, Undisturbed, FinalizePcs
<1> QED BY <1>1, <1>2, <1>3, <1>4

(* Every step, unless it disturbs the call.                                *)
LEMMA UndisturbedGoes ==
  ASSUME IInv, NEW v \in Versions, Undisturbed(v), ~Disturbed, [Next]_vars
  PROVE  Goes(v)
<1>0. /\ call \in FinalizeCalls /\ call # Idle
      /\ UNCHANGED working /\ UNCHANGED faults /\ UNCHANGED gates
      /\ faults \in Nat
      /\ call.pc \in Reading => UNCHANGED <<lines, trusted>>
      /\ archiver # Idle /\ archiver.plain => UNCHANGED done
  BY UndisturbedFacts, ConstantsHold DEF Disturbed, IInv, TypeOK, Constants
<1>1. CASE Lock \/ CheckCandidate \/ BoundRun \/ RunRefused \/ StepArchive
  BY <1>0, <1>1, ReadingGoes
<1>2. CASE Own /\ ArchiveModStep
  BY <1>0, <1>2, CopyingGoes
<1>3. CASE Verify \/ SetArchived \/ StepSnapshot \/ SetComplete
  BY <1>0, <1>3, SavingGoes
<1>4. ~ResumePending /\ ~ChooseVersion /\ ~WriteVersion /\ ~SavePrepared
  BY DEF Undisturbed, FinalizePcs, ResumePending, ChooseVersion, WriteVersion, SavePrepared
<1>5. ~Fails /\ ~Crash
  BY <1>0 DEF Fails, Crash
<1>6. ~RemoveLock /\ ~Edit /\ ~Regate
  BY <1>0, UndisturbedFacts DEF RemoveLock, Edit, Regate, IInv, TypeOK
<1>7. ASSUME NEW keep \in BOOLEAN, NEW refresh \in BOOLEAN, Prepare(keep, refresh) PROVE FALSE
  BY <1>0, <1>7 DEF Prepare
<1>8. ASSUME NEW w \in Versions, NEW t \in Tests, Finalize(w, t) PROVE FALSE
  BY <1>0, <1>8 DEF Finalize
<1>9. CASE UNCHANGED <<call, journal, lock, done>> /\ (~Own' \/ UNCHANGED archiver)
  BY <1>0, <1>9 DEF Goes, Undisturbed, Qualifies, Holds, Whole, Own
<1>10. CASE ~Own /\ ArchiveModStep
  <2>1. archiver.plain /\ UNCHANGED <<call, done>> /\ ~Own'
    BY <1>0, <1>10, ArchiveModMoves DEF Own
  <2>2. UNCHANGED <<journal, lock>>
    BY <1>10, <2>1, RaiseFacts DEF ArchiveModStep, Refuse, MoveAside, CopyBody, CopyInfo, WriteNote,
       WriteLog, MoveFailed, PutBack
  <2> QED BY <1>9, <2>1, <2>2
<1>11. CASE Archive
  <2>1. UNCHANGED <<call, journal, lock, done>> /\ ~Own'
    BY <1>11 DEF Archive, Started, Own, archive
  <2> QED BY <1>9, <2>1
<1>12. CASE CallArchiveMod
  <2>1. /\ UNCHANGED <<call, journal, done, gates>> /\ call.pc = "archiving"
        /\ archiver'.pc = "aside"
    BY <1>12 DEF CallArchiveMod, Started, archive
  <2> QED BY <1>0, <2>1 DEF Goes, Undisturbed, Reading, Holds, Whole
<1>13. ASSUME NEW t \in Tests, Play(t) PROVE UNCHANGED <<call, journal, lock, done, archiver>>
  BY <1>13 DEF Play, shelving, archive
<1>14. ASSUME NEW pass \in BOOLEAN, NEW acceptable \in BOOLEAN, Record(pass, acceptable)
       PROVE UNCHANGED <<call, journal, lock, done, archiver>>
  BY <1>14 DEF Record, shelving, archive
<1>15. UNCHANGED vars => UNCHANGED <<call, journal, lock, done, archiver>>
  BY DEF vars, shelving, archive
<1> QED
  BY <1>1, <1>2, <1>3, <1>4, <1>5, <1>6, <1>7, <1>8, <1>9, <1>10, <1>11, <1>12, <1>13, <1>14, <1>15
     DEF Next, Step, ArchiveModStep

(* A revision that can be resumed: the call that does so is undisturbed.   *)
LEMMA ResumedStarts ==
  ASSUME IInv, TestNamed, NEW v \in Versions, Resumable(v), ~lock, Finalize(v, journal[v].test)
  PROVE  Undisturbed(v)'
<1> USE ConstantsHold DEF Constants
<1>1. journal[v].state # "PREPARED"
  BY DEF TestNamed, Resumable, Known
<1>2. call'.pc = "finalize" /\ call'.rev = v /\ call'.test = journal[v].test
  BY DEF Finalize
<1>3. UNCHANGED <<working, lines, trusted, journal, lock, done, gates>>
  BY DEF Finalize, evidence, archive, shelving
<1>4. ~Own'
  BY DEF Finalize, Own, shelving, IInv, ArchiverFacts, Idle
<1> QED BY <1>1, <1>2, <1>3, <1>4 DEF Undisturbed, Resumable, Qualifies, Holds, Whole, FinalizePcs, Reading

(* A revision names the run that accepted it from then on, and only then:  *)
(* what a resumed finalize is started with.                                *)
THEOREM TestNamedHolds == Spec => []TestNamed
<1>1. Init => TestNamed
  BY DEF Init, TestNamed, Known
<1> QED BY <1>1, StepNamed, Invariance, PTL DEF Spec

(* Finalize, started again on a revision that can be resumed and left      *)
(* alone, comes step by step to its end, and the revision is complete.     *)
THEOREM ResumedCompletesHolds == Spec => ResumedCompletes
<1> DEFINE
  Q(v) ==
    /\ Resumable(v) /\ ~lock /\ Finalize(v, journal[v].test) => Undisturbed(v)'
    /\ Undisturbed(v) /\ ~Disturbed =>
         \/ Undisturbed(v)' /\ (UNCHANGED Place \/ Nearer)
         \/ call' = Idle /\ journal'[v].state = "COMPLETE"
<1>1. IInv /\ TestNamed /\ [Next]_vars => [\A v \in Versions : Q(v)]_vars
  <2> SUFFICES ASSUME IInv, TestNamed, [Next]_vars, NEW v \in Versions PROVE Q(v)
    OBVIOUS
  <2>1. Resumable(v) /\ ~lock /\ Finalize(v, journal[v].test) => Undisturbed(v)'
    BY ResumedStarts
  <2>2. ASSUME Undisturbed(v), ~Disturbed
        PROVE  \/ Undisturbed(v)' /\ (UNCHANGED Place \/ Nearer)
               \/ call' = Idle /\ journal'[v].state = "COMPLETE"
    BY <2>2, UndisturbedGoes, UndisturbedFacts, StepShortens DEF Goes, IInv
  <2> QED BY <2>1, <2>2
<1> QED BY <1>1, Invariance, TestNamedHolds, PTL DEF Spec, ResumedCompletes

(* No call is ever set back: it goes down from place to place until it     *)
(* ends, whatever fails.                                                   *)
THEOREM CallsShortenHolds == Spec => CallsShorten
<1>1. IInv /\ [Next]_vars => [call = Idle \/ UNCHANGED Place \/ Nearer]_vars
  BY StepShortens
<1> QED BY <1>1, Invariance, PTL DEF Spec, CallsShorten
=============================================================================
