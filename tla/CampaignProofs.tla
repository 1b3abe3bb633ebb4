--------------------------- MODULE CampaignProofs ---------------------------
(***************************************************************************)
(* Theorems about the campaign controller, for any repositories, roles,    *)
(* providers and capacities, any number of workers and items, with writes  *)
(* that may fail and with restarts.                                        *)
(***************************************************************************)
EXTENDS Campaign, FiniteSetTheorems, TLAPS

USE DEF nodeVars

-----------------------------------------------------------------------------
\* The record.

\* What any step of run makes of the record, the file and the context: it
\* writes, or halts, or leaves all alone; an active record stays active, only
\* Stop makes it stopping, and a context once cancelled stays so.
RecordKept ==
  /\ RecordTypeOK'
  /\ IsActive(record) => IsActive(record')
  /\ record'.status = "stopping" => record.status = "stopping"
  /\ disk' = record' \/ stateFailed' \/ UNCHANGED recordVars
  /\ stateFailed => stateFailed'
  /\ ctx' = "live" => ctx = "live" /\ UNCHANGED stateFailed
  /\ ctx = "none" => ctx' = "none"

\* A status and a detail make a record (Record of campaign.go).
LEMMA RecordsDef ==
  ASSUME NEW status \in ActiveStatus \cup {"stopped", "never-run"},
         NEW detail \in Details
  PROVE  Rec(status, detail) \in Records
BY DEF Rec, Records

\* A halted record is a record.
LEMMA HaltedType == \A r \in Records : Halted(r) \in Records
BY DEF Halted, Rec, Records, IsActive, ActiveStatus, Details

\* A write that keeps the campaign active, and does not begin a stop, keeps what
\* is known of the record, its file, the latch and the context.
LEMMA PersistKeeps ==
  ASSUME RecordTypeOK, NEW r \in Records, IsActive(record) => IsActive(r),
         r.status = "stopping" => record.status = "stopping",
         Persist(r) \/ PersistAll(r)
  PROVE  RecordKept
<1>1. Halted(r) \in Records
  BY HaltedType
<1>2. CASE Saved(r)
  BY <1>2 DEF Saved, RecordKept, RecordTypeOK
<1>3. CASE \E files \in {{disk}, {disk, r, Halted(r)}} : Unsaved(r, files)
  <2>1. disk' \in Records /\ record' = Halted(r) /\ stateFailed' /\ Cancel
    BY <1>1, <1>3 DEF Unsaved, RecordTypeOK
  <2>2. /\ ctx' \in {"none", "live", "cancelled"} /\ ctx' # "live"
        /\ ctx = "none" => ctx' = "none"
    BY <2>1 DEF Cancel, RecordTypeOK
  <2>3. /\ IsActive(r) => IsActive(record')
        /\ record'.status = "stopping" => r.status = "stopping"
    BY <2>1 DEF Halted, Rec, IsActive, ActiveStatus, Records
  <2> QED
    BY <1>1, <1>3, <2>1, <2>2, <2>3 DEF Unsaved, RecordKept, RecordTypeOK
<1> QED
  BY <1>2, <1>3 DEF Persist, PersistAll

\* degrade keeps it.
LEMMA DegradeKeeps == RecordTypeOK /\ Degrade => RecordKept
<1>1. /\ Rec("degraded", "plain") \in Records
      /\ IsActive(Rec("degraded", "plain"))
      /\ Rec("degraded", "plain").status # "stopping"
  BY DEF Rec, Records, ActiveStatus, Details, IsActive
<1> QED
  BY <1>1, PersistKeeps DEF Degrade

\* Several writes of the same record within one step keep it.
LEMMA PersistAllKeeps == RecordTypeOK /\ PersistAll(record) => RecordKept
BY PersistKeeps DEF RecordTypeOK

\* So does a step that leaves the record alone.
LEMMA UnchangedKeeps == RecordTypeOK /\ UNCHANGED recordVars => RecordKept
BY DEF RecordTypeOK, recordVars, RecordKept

\* Setting the status at the end of a tick (or once, at its start) keeps it.
LEMMA SetStatusKeeps ==
  ASSUME RecordTypeOK, NEW status \in {"running", "degraded"}, SetStatus(status)
  PROVE  RecordKept
<1>1. /\ Rec(status, "plain") \in Records
      /\ IsActive(Rec(status, "plain"))
      /\ Rec(status, "plain").status # "stopping"
  BY DEF Rec, Records, ActiveStatus, Details, IsActive
<1> QED
  BY <1>1, PersistKeeps, UnchangedKeeps DEF SetStatus

\* The steps that are neither the API's, nor a crash or a boot, nor the last.
Other ==
  \/ RunStep \/ NextTick
  \/ \E l \in Lanes : ShowBackedOff(l) \/ Admit(l)
  \/ TimePasses \/ \E p \in Providers : ProofExpires(p)
  \/ \E w \in Workers : Claim(w) \/ EndAttempt(w) \/ Exit(w) \/ Retire(w)

\* Every step that is not Start, Stop, Close, Crash, Boot or Finalize keeps it.
LEMMA OtherKeeps == RecordTypeOK /\ Other => RecordKept
<1> SUFFICES ASSUME RecordTypeOK, Other PROVE RecordKept
  OBVIOUS
<1> USE PersistAllKeeps, UnchangedKeeps, DegradeKeeps, SetStatusKeeps
<1>1. CASE SetupRepositories
  BY <1>1 DEF SetupRepositories
<1>2. CASE RefreshPreflights
  BY <1>2 DEF RefreshPreflights
<1>3. CASE SetRunningStatus
  BY <1>3 DEF SetRunningStatus
<1>4. CASE ListWorkers
  BY <1>4 DEF ListWorkers
<1>5. CASE \/ EndTick \/ ConfirmPendingClaims \/ SettleExits \/ PassInspection
           \/ BeginLaunch \/ AllowStart \/ StartProvider
  BY <1>5
  DEF EndTick, ConfirmPendingClaims, SettleExits, PassInspection, BeginLaunch,
      AllowStart, StartProvider, LaunchGoesOn
<1>6. CASE ObserveQueue
  BY <1>6 DEF ObserveQueue
<1>7. CASE SweepCleanupCandidates
  BY <1>7 DEF SweepCleanupCandidates
<1>8. CASE Plan
  BY <1>8 DEF Plan
<1>9. CASE \E l \in Lanes : ChooseLane(l)
  BY <1>9 DEF ChooseLane
<1>10. CASE RefreshBase
  BY <1>10 DEF RefreshBase, LaneBackedOff
<1>11. CASE RefuseLaunch
  BY <1>11 DEF RefuseLaunch, LaneBackedOff
<1>12. CASE FinishLaunch
  BY <1>12 DEF FinishLaunch
<1>13. CASE FailLaunch
  BY <1>13 DEF FailLaunch, LaneBackedOff
<1>14. CASE FinishTick
  BY <1>14 DEF FinishTick
<1>15. CASE NextTick
  BY <1>15 DEF NextTick
<1>16. CASE \E l \in Lanes : ShowBackedOff(l)
  BY <1>16 DEF ShowBackedOff
<1>17. CASE \/ \E l \in Lanes : Admit(l)
            \/ TimePasses \/ \E p \in Providers : ProofExpires(p)
            \/ \E w \in Workers : Claim(w) \/ EndAttempt(w) \/ Exit(w) \/ Retire(w)
  BY <1>17
  DEF Admit, TimePasses, ProofExpires, Claim, EndAttempt, Exit, Retire, WorldStep
<1> QED
  BY <1>1, <1>2, <1>3, <1>4, <1>5, <1>6, <1>7, <1>8, <1>9, <1>10, <1>11,
     <1>12, <1>13, <1>14, <1>15, <1>16, <1>17 DEF Other, RunStep

-----------------------------------------------------------------------------
\* What the file, the halt reason and the launches rest on: while run is
\* running the campaign is active, a live context means a campaign that is
\* neither stopping nor halted, and the process that is down runs nothing.
RecordInv ==
  /\ RecordTypeOK
  /\ ~up => pc = "none" /\ ctx = "none"
  /\ pc # "none" => IsActive(record)
  /\ ctx = "live" => pc # "none" /\ ~stateFailed /\ record.status # "stopping"
  /\ DiskIsCurrent
  /\ HaltReasonSurvives

\* The invariant of the record holds at first.
LEMMA RecordInitially == Init => RecordInv
<1>1. Rec("never-run", "plain") \in Records /\ Rec("never-run", "plain").status = "never-run"
  BY DEF Rec, Records, Details
<1> QED
  BY <1>1 DEF Init, RecordInit, RecordInv, RecordTypeOK, DiskIsCurrent,
              HaltReasonSurvives

\* Start keeps the invariant of the record, whether its write fails or not.
LEMMA StartKeepsRecord == RecordInv /\ Start => RecordInv'
<1> SUFFICES ASSUME RecordInv, Start PROVE RecordInv'
  OBVIOUS
<1>1. pc = "none" /\ ctx # "live" /\ up /\ up'
  BY DEF RecordInv, Start
<1>2. /\ Rec("starting", "plain") \in Records
      /\ IsActive(Rec("starting", "plain"))
      /\ Rec("starting", "plain").status = "starting"
  BY DEF Rec, Records, ActiveStatus, Details, IsActive
<1>3. CASE StartWritten /\ pc' = "setup"
  BY <1>1, <1>2, <1>3
  DEF StartWritten, RecordInv, RecordTypeOK, DiskIsCurrent, HaltReasonSurvives
<1>4. CASE StartUnwritten /\ UNCHANGED pc
  BY <1>1, <1>2, <1>4
  DEF StartUnwritten, RecordInv, RecordTypeOK, DiskIsCurrent, HaltReasonSurvives
<1> QED
  BY <1>3, <1>4 DEF Start, runVars

\* Stop and Close keep it.
LEMMA StopKeepsRecord == RecordInv /\ (Stop \/ Close) => RecordInv'
<1> SUFFICES ASSUME RecordInv, Stop \/ Close PROVE RecordInv'
  OBVIOUS
<1>1. ctx' \in {"none", "live", "cancelled"} /\ ctx' # "live" /\ (~up => ctx' = "none")
  BY DEF RecordInv, RecordTypeOK, Stop, StopRecord, Close, Cancel
<1>2. /\ Rec("stopping", "plain") \in Records
      /\ IsActive(Rec("stopping", "plain"))
      /\ Rec("stopping", "plain").status = "stopping"
  BY DEF Rec, Records, ActiveStatus, Details, IsActive
<1>3. CASE Stop
  BY <1>1, <1>2, <1>3
  DEF Stop, StopRecord, RecordInv, RecordTypeOK, DiskIsCurrent, HaltReasonSurvives
<1>4. CASE Close
  BY <1>1, <1>4
  DEF Close, RecordInv, RecordTypeOK, DiskIsCurrent, HaltReasonSurvives, IsActive
<1> QED
  BY <1>3, <1>4

\* A crash and the boot after it keep it.
LEMMA BootKeepsRecord == RecordInv /\ (Crash \/ Boot) => RecordInv'
<1> SUFFICES ASSUME RecordInv, Crash \/ Boot PROVE RecordInv'
  OBVIOUS
<1>1. CASE Crash
  BY <1>1 DEF Crash, RecordInv, RecordTypeOK, DiskIsCurrent, HaltReasonSurvives
<1>2. CASE Boot
  <2>1. Reopened \in Records
    BY DEF Reopened, Rec, Records, Details, RecordInv, RecordTypeOK
  <2> QED
    BY <1>2, <2>1
    DEF Boot, OpenRecord, RecordInv, RecordTypeOK, DiskIsCurrent, HaltReasonSurvives
<1> QED
  BY <1>1, <1>2

\* The goroutine's last step keeps it.
LEMMA FinalizeKeepsRecord == RecordInv /\ Finalize => RecordInv'
<1> SUFFICES ASSUME RecordInv, Finalize PROVE RecordInv'
  OBVIOUS
<1>1. /\ FinalRecord \in Records /\ FinalRecord.status = "stopped"
      /\ stateFailed => FinalRecord.detail = "stale"
  BY DEF FinalRecord, Rec, Records, Details
<1>2. ~IsActive(FinalRecord)
  BY <1>1 DEF IsActive, ActiveStatus
<1>3. /\ Halted(FinalRecord) \in Records
      /\ Halted(FinalRecord).status = "stopped"
      /\ Halted(FinalRecord).detail = "stale"
  BY <1>1, <1>2, HaltedType DEF Halted, Records
<1>4. up /\ up' /\ pc' = "none" /\ ctx' = "none"
  BY DEF Finalize, FinalizeStopped
<1>5. RecordTypeOK'
  BY <1>1, <1>3 DEF Finalize, FinalizeStopped, RecordInv, RecordTypeOK
<1>6. stateFailed' => record'.detail = "stale"
  BY <1>1, <1>3 DEF Finalize, FinalizeStopped
<1> QED
  BY <1>4, <1>5, <1>6 DEF RecordInv, DiskIsCurrent, HaltReasonSurvives

\* Only run changes where it is, and then the record; it never gets nowhere.
LEMMA OtherKeepsPlace ==
  ASSUME Other
  PROVE  /\ up' = up /\ (pc = "none" <=> pc' = "none")
         /\ pc = "none" => UNCHANGED recordVars
<1> SUFFICES /\ up' = up /\ (pc = "none" <=> pc' = "none")
             /\ pc = "none" => UNCHANGED recordVars
  OBVIOUS
<1>1. CASE \/ SetupRepositories \/ RefreshPreflights \/ SetRunningStatus
           \/ ListWorkers \/ EndTick \/ ConfirmPendingClaims \/ ObserveQueue
           \/ SettleExits \/ SweepCleanupCandidates \/ Plan
  BY <1>1
  DEF SetupRepositories, RefreshPreflights, SetRunningStatus, ListWorkers,
      EndTick, ConfirmPendingClaims, ObserveQueue, SettleExits,
      SweepCleanupCandidates, Plan
<1>2. CASE \/ \E l \in Lanes : ChooseLane(l) \/ ShowBackedOff(l)
           \/ RefreshBase \/ RefuseLaunch \/ PassInspection \/ BeginLaunch
           \/ AllowStart \/ StartProvider \/ FinishLaunch \/ FailLaunch
           \/ FinishTick \/ NextTick
  BY <1>2
  DEF ChooseLane, ShowBackedOff, RefreshBase, RefuseLaunch, PassInspection,
      BeginLaunch, AllowStart, StartProvider, FinishLaunch, FailLaunch,
      FinishTick, NextTick, LaunchGoesOn, LaneBackedOff, Placing
<1>3. CASE \/ \E l \in Lanes : Admit(l)
           \/ TimePasses \/ \E p \in Providers : ProofExpires(p)
           \/ \E w \in Workers : Claim(w) \/ EndAttempt(w) \/ Exit(w) \/ Retire(w)
  BY <1>3
  DEF Admit, TimePasses, ProofExpires, Claim, EndAttempt, Exit, Retire, WorldStep
<1> QED
  BY <1>1, <1>2, <1>3 DEF Other, RunStep

\* All other steps keep it.
LEMMA OtherKeepsRecord == RecordInv /\ Other => RecordInv'
<1> SUFFICES ASSUME RecordInv, Other PROVE RecordInv'
  OBVIOUS
<1>1. RecordKept
  BY OtherKeeps DEF RecordInv
<1>2. up' = up /\ (pc = "none" <=> pc' = "none")
  BY OtherKeepsPlace
<1>3. ~up' => pc' = "none"
  BY <1>2 DEF RecordInv
<1>4. ~up' => ctx' = "none"
  BY <1>1, <1>2 DEF RecordInv, RecordKept
<1>5. pc' # "none" => IsActive(record')
  BY <1>1, <1>2 DEF RecordInv, RecordKept
<1>6. ctx' = "live" => pc' # "none" /\ ~stateFailed' /\ record'.status # "stopping"
  BY <1>1, <1>2 DEF RecordInv, RecordKept
<1>7. DiskIsCurrent'
  BY <1>1, <1>2 DEF RecordInv, RecordKept, DiskIsCurrent, recordVars
<1>8. HaltReasonSurvives'
  BY <1>2, <1>5, OtherKeepsPlace
  DEF RecordInv, HaltReasonSurvives, recordVars, IsActive, ActiveStatus
<1> QED
  BY <1>1, <1>3, <1>4, <1>5, <1>6, <1>7, <1>8
  DEF RecordInv, RecordKept

\* The invariant of the record holds in every reachable state.
LEMMA RecordInvKept == Spec => []RecordInv
<1>1. RecordInv /\ [Next]_vars => RecordInv'
  <2>1. RecordInv /\ UNCHANGED vars => RecordInv'
    BY DEF vars, RecordInv, RecordTypeOK, DiskIsCurrent, HaltReasonSurvives, IsActive
  <2> QED
    BY <2>1, StartKeepsRecord, StopKeepsRecord, BootKeepsRecord,
       FinalizeKeepsRecord, OtherKeepsRecord DEF Next, Other
<1> QED
  BY <1>1, RecordInitially, PTL DEF Spec

\* While a campaign runs and is not halted, no write of its record has been
\* lost: campaign.json is what the node API reports (persistLocked).
THEOREM DiskKept == Spec => []DiskIsCurrent
BY RecordInvKept, PTL DEF RecordInv

\* A campaign that lost a write says so when it has stopped, whether or not
\* its last write succeeds (finalizeStopped, haltLocked).
THEOREM HaltReasonKept == Spec => []HaltReasonSurvives
BY RecordInvKept, PTL DEF RecordInv

-----------------------------------------------------------------------------
\* Types.

WorkerRecords == [lane : Lanes \cup {NoLane}, status : WorkerStatus,
                  item : {"none", "claimed", "done"}, provider : BOOLEAN]

\* With a lane being launched: it is one, and has a slot and an item left.
TargetReady ==
  pc \in InLaunch \cup {"refreshing"} =>
    target \in Lanes /\ slots[target[2]] > 0 /\ left[target] > 0

\* A worker that was begun, exited, or may be cleaned has a lane.
LanesKnown ==
  /\ \A w \in Workers : worker[w].status # "none" => worker[w].lane \in Lanes
  /\ \A x \in exits : worker[x.id].lane \in Lanes
  /\ \A w \in candidates : worker[w].lane \in Lanes

Typed == TypeOK /\ TargetReady /\ LanesKnown

\* Any set of workers is finite and can be counted.
LEMMA WorkersFinite ==
  \A S \in SUBSET Workers : IsFiniteSet(S) /\ Cardinality(S) \in Nat
<1>a. MaxWorkers \in Nat
  BY CampaignAssumption DEF CampaignAssumption
<1>1. IsFiniteSet(Workers)
  BY <1>a, FS_Interval DEF Workers
<1> QED
  BY <1>1, FS_Subset, FS_CardinalityType

\* A role has a natural number of free slots.
LEMMA FreeSlotsType ==
  ASSUME NEW shown
  PROVE  FreeSlots(shown) \in [Roles -> Nat]
<1>1. \A k \in Roles : Cardinality(Listed(shown, k)) \in Nat
  BY WorkersFinite DEF Listed
<1>2. \A k \in Roles : Capacity[k] \in Nat
  BY CampaignAssumption DEF CampaignAssumption
<1> QED
  BY <1>1, <1>2 DEF FreeSlots

\* Backing names off keeps the backoffs within their bound.
LEMMA BackedOffType ==
  ASSUME TypeOK, NEW names
  PROVE  BackedOff(names) \in [BackoffKeys -> 0 .. Backoff]
BY CampaignAssumption DEF CampaignAssumption, BackedOff, TypeOK

\* Reserving items leaves no more than there were, and no fewer than none.
LEMMA AfterReservingType ==
  \A n \in 0 .. MaxItems, r \in Nat : AfterReserving(n, r) \in 0 .. MaxItems
BY CampaignAssumption DEF CampaignAssumption, AfterReserving

\* What the start of a tick resets has its type.
LEMMA ForgottenType ==
  /\ TickForgotten =>
       /\ slots' \in [Roles -> Nat] /\ left' \in [Lanes -> 0 .. MaxItems]
       /\ exits' \subseteq Exits /\ exits' = {}
       /\ paused' \subseteq Roles /\ proven' \subseteq Providers
       /\ target' \in Lanes \cup {NoLane} /\ missed' = {}
  /\ RunForgotten =>
       /\ ready' \subseteq Repos /\ fresh' \subseteq Providers
       /\ backoff' \in [BackoffKeys -> 0 .. Backoff]
       /\ laneFailure' \in [Lanes -> 0 .. Backoff]
       /\ probe' \in [Workers -> Probes] /\ candidates' = {}
<1> USE CampaignAssumption DEF CampaignAssumption
<1>1. ASSUME TickForgotten
      PROVE  /\ slots' \in [Roles -> Nat] /\ left' \in [Lanes -> 0 .. MaxItems]
             /\ exits' \subseteq Exits /\ exits' = {}
             /\ paused' \subseteq Roles /\ proven' \subseteq Providers
             /\ target' \in Lanes \cup {NoLane} /\ missed' = {}
  BY <1>1 DEF TickForgotten
<1>2. ASSUME RunForgotten
      PROVE  /\ ready' \subseteq Repos /\ fresh' \subseteq Providers
             /\ backoff' \in [BackoffKeys -> 0 .. Backoff]
             /\ laneFailure' \in [Lanes -> 0 .. Backoff]
             /\ probe' \in [Workers -> Probes] /\ candidates' = {}
  BY <1>2 DEF RunForgotten, Probes
<1> QED
  BY <1>1, <1>2

\* The type invariant holds at first.
LEMMA TypedInitially == Init => Typed
<1> SUFFICES ASSUME Init PROVE Typed
  OBVIOUS
<1>1. RecordTypeOK
  BY RecordInitially DEF RecordInv
<1>2. worker \in [Workers -> WorkerRecords]
  BY DEF Init, WorkerRecords, NoWorker, WorkerStatus
<1>3. TypeOK
  BY <1>1, <1>2, CampaignAssumption
  DEF CampaignAssumption, Init, TypeOK, WorkerRecords, Phases, Probes
<1> QED
  BY <1>3 DEF Typed, TargetReady, LanesKnown, Init, NoWorker, InLaunch, Placing

\* The API, a crash and a boot.
LEMMA NodeStepsTyped ==
  ASSUME Typed, RecordTypeOK', Start \/ Stop \/ Close \/ Crash \/ Boot \/ Finalize
  PROVE  Typed'
<1> USE DEF Typed, LanesKnown, TypeOK, Phases, Placing, InLaunch, runVars, tickVars,
            worldVars
<1>1. CASE Start
  BY <1>1, ForgottenType DEF Start, TargetReady
<1>2. CASE Stop \/ Close
  <2>1. cut' \in {"none", "recording", "starting"}
    BY <1>2 DEF Stop, Close, Cross
  <2> QED
    BY <1>2, <2>1 DEF Stop, Close, TargetReady
<1>3. CASE Crash
  BY <1>3, ForgottenType DEF Crash, TargetReady
<1>4. CASE Boot
  BY <1>4 DEF Boot, TargetReady
<1>5. CASE Finalize
  BY <1>5, ForgottenType DEF Finalize, TargetReady
<1> QED
  BY <1>1, <1>2, <1>3, <1>4, <1>5

\* run, up to its loop, and from one tick to the next.
LEMMA SetupStepsTyped ==
  ASSUME Typed, RecordTypeOK',
         SetupRepositories \/ RefreshPreflights \/ SetRunningStatus \/ NextTick
  PROVE  Typed'
<1> USE DEF Typed, LanesKnown, TypeOK, Phases, Placing, InLaunch, runVars, tickVars,
            worldVars
<1>1. CASE SetupRepositories
  <2>1. backoff' \in [BackoffKeys -> 0 .. Backoff]
    BY <1>1, BackedOffType DEF SetupRepositories
  <2> QED
    BY <1>1, <2>1 DEF SetupRepositories, TargetReady
<1>2. CASE RefreshPreflights
  <2>1. backoff' \in [BackoffKeys -> 0 .. Backoff]
    BY <1>2, BackedOffType DEF RefreshPreflights
  <2> QED
    BY <1>2, <2>1 DEF RefreshPreflights, TargetReady
<1>3. CASE SetRunningStatus
  BY <1>3 DEF SetRunningStatus, TargetReady
<1>4. CASE NextTick
  <2>1. backoff' \in [BackoffKeys -> 0 .. Backoff]
    BY <1>4, BackedOffType DEF NextTick
  <2> QED
    BY <1>4, <2>1 DEF NextTick, TargetReady
<1> QED
  BY <1>1, <1>2, <1>3, <1>4

\* What the worker list shows, when it can be had.
LEMMA ListShows ==
  ASSUME Typed, ListWorkers, pc' # "waiting"
  PROVE  \E silent \in SUBSET {w \in Workers : worker[w].status \in {"running", "exited"}},
            shown \in [Workers -> WorkerStatus] :
           /\ shown = [w \in Workers |->
                         IF w \in silent THEN "failed" ELSE worker[w].status]
           /\ missed' = {w \in silent : worker[w].status = "running"}
           /\ stray' = stray \cup missed'
           /\ slots' = FreeSlots(shown)
           /\ InspectLaunchProbes(shown)
           /\ pc' = "confirm"
<1>1. PICK silent \in SUBSET {w \in Workers : worker[w].status \in {"running", "exited"}} :
        /\ missed' = {w \in silent : worker[w].status = "running"}
        /\ stray' = stray \cup missed'
        /\ slots' = FreeSlots([w \in Workers |->
                                IF w \in silent THEN "failed" ELSE worker[w].status])
        /\ InspectLaunchProbes([w \in Workers |->
                                IF w \in silent THEN "failed" ELSE worker[w].status])
        /\ pc' = "confirm"
  BY DEF ListWorkers
<1>2. [w \in Workers |-> IF w \in silent THEN "failed" ELSE worker[w].status]
        \in [Workers -> WorkerStatus]
  BY DEF Typed, TypeOK, WorkerStatus
<1> QED
  BY <1>1, <1>2

\* reconcile, up to the plan.
LEMMA ObservationTyped ==
  ASSUME Typed, RecordTypeOK',
         ListWorkers \/ EndTick \/ ConfirmPendingClaims \/ ObserveQueue
  PROVE  Typed'
<1> USE DEF Typed, LanesKnown, TypeOK, Phases, Placing, InLaunch, runVars, tickVars,
            worldVars
<1>1. CASE ListWorkers
  <2>a. CASE pc' = "waiting"
    BY <1>1, <2>a DEF ListWorkers, TargetReady
  <2>b. CASE pc' # "waiting"
    <3>1. PICK silent \in SUBSET {w \in Workers : worker[w].status \in {"running", "exited"}},
               shown \in [Workers -> WorkerStatus] :
            /\ shown = [w \in Workers |->
                          IF w \in silent THEN "failed" ELSE worker[w].status]
            /\ missed' = {w \in silent : worker[w].status = "running"}
            /\ stray' = stray \cup missed'
            /\ slots' = FreeSlots(shown)
            /\ InspectLaunchProbes(shown)
            /\ pc' = "confirm"
      BY <1>1, <2>b, ListShows
    <3>2. slots' \in [Roles -> Nat]
      BY <3>1, FreeSlotsType
    <3>3. probe' \in [Workers -> Probes] /\ exits' \subseteq Exits
      BY <3>1 DEF InspectLaunchProbes, Probes
    <3>4. \A x \in exits' : worker[x.id].lane \in Lanes
      BY <3>1 DEF InspectLaunchProbes, Exits
    <3>5. LanesKnown'
      BY <1>1, <3>4 DEF ListWorkers
    <3> QED
      BY <1>1, <3>1, <3>2, <3>3, <3>5 DEF ListWorkers, TargetReady
  <2> QED
    BY <2>a, <2>b
<1>2. CASE EndTick
  BY <1>2, ForgottenType DEF EndTick, TargetReady
<1>3. CASE ConfirmPendingClaims
  <2>1. probe' \in [Workers -> Probes]
    BY <1>3 DEF ConfirmPendingClaims, Probes
  <2> QED
    BY <1>3, <2>1 DEF ConfirmPendingClaims, TargetReady
<1>4. CASE ObserveQueue
  <2>1. left' \in [Lanes -> 0 .. MaxItems]
    BY <1>4, CampaignAssumption DEF ObserveQueue, CampaignAssumption
  <2> QED
    BY <1>4, <2>1 DEF ObserveQueue, TargetReady
<1> QED
  BY <1>1, <1>2, <1>3, <1>4

\* Settling the exits of a tick keeps the types.
LEMMA SettleExitsTyped == Typed /\ RecordTypeOK' /\ SettleExits => Typed'
<1> SUFFICES ASSUME Typed, RecordTypeOK', SettleExits PROVE Typed'
  OBVIOUS
<1> USE DEF Typed, TypeOK
<1>1. probe' \in [Workers -> Probes]
  BY DEF SettleExits, Probes
<1>2. backoff' \in [BackoffKeys -> 0 .. Backoff]
  BY BackedOffType DEF SettleExits
<1>3. laneFailure' \in [Lanes -> 0 .. Backoff]
  BY CampaignAssumption DEF SettleExits, CampaignAssumption
<1>4. candidates' \subseteq Workers
  BY DEF SettleExits, Exits
<1>5. paused' \subseteq Roles
  <2>1. \A l \in Lanes : l[2] \in Roles
    BY DEF Lanes
  <2>2. \A x \in exits : worker[x.id].lane[2] \in Roles
    BY <2>1 DEF LanesKnown
  <2> QED
    BY <2>2 DEF SettleExits
<1>6. LanesKnown'
  <2>1. \A w \in candidates' : w \in candidates \/ \E x \in exits : w = x.id
    BY DEF SettleExits
  <2> QED
    BY <2>1 DEF SettleExits, LanesKnown, worldVars
<1> QED
  BY <1>1, <1>2, <1>3, <1>4, <1>5, <1>6
  DEF SettleExits, TargetReady, Phases, Placing, InLaunch, worldVars

\* Most steps leave the lanes of the workers alone.
LanesKept ==
  /\ worker' \in [Workers -> WorkerRecords]
  /\ \A w \in Workers :
       /\ worker'[w].lane = worker[w].lane
       /\ worker'[w].status # "none" => worker[w].status # "none" \/ w \in candidates
  /\ exits' \subseteq exits /\ candidates' \subseteq candidates

\* A step that assigns no lane leaves every worker the lane it has.
LEMMA KnownLanesStay == Typed /\ LanesKept => LanesKnown'
BY DEF Typed, LanesKnown, LanesKept, TypeOK, Exits

\* The retention sweep keeps the types.
LEMMA SweepTyped == Typed /\ RecordTypeOK' /\ SweepCleanupCandidates => Typed'
<1> SUFFICES ASSUME Typed, RecordTypeOK', SweepCleanupCandidates PROVE Typed'
  OBVIOUS
<1>1. PICK cleaned \in SUBSET candidates :
        /\ worker' = [w \in Workers |-> IF w \in cleaned
                        THEN [worker[w] EXCEPT !.status = "cleaned"] ELSE worker[w]]
        /\ candidates' = candidates \ cleaned
  BY DEF SweepCleanupCandidates
<1>2. ASSUME NEW w \in Workers
      PROVE  /\ worker'[w] \in WorkerRecords
             /\ worker'[w].lane = worker[w].lane
             /\ worker'[w].status # "none" =>
                  worker[w].status # "none" \/ w \in candidates
  <2>1. worker[w] \in WorkerRecords
    BY DEF Typed, TypeOK, WorkerRecords
  <2>2. CASE w \in cleaned
    BY <1>1, <2>1, <2>2 DEF WorkerRecords, WorkerStatus
  <2>3. CASE w \notin cleaned
    BY <1>1, <2>1, <2>3
  <2> QED
    BY <2>2, <2>3
<1>3. worker' \in [Workers -> WorkerRecords]
  BY <1>1, <1>2
<1>4. LanesKnown'
  BY <1>1, <1>2, <1>3, KnownLanesStay
  DEF LanesKept, SweepCleanupCandidates, tickVars
<1> QED
  BY <1>1, <1>3, <1>4
  DEF SweepCleanupCandidates, Typed, TypeOK, TargetReady, WorkerRecords,
      Phases, Placing, InLaunch, tickVars

\* The plan, and the steps of a launch that touch no worker.
LEMMA PlanTyped ==
  ASSUME Typed, RecordTypeOK', Plan
  PROVE  Typed'
<1> USE DEF Typed, TypeOK
<1>1. left' \in [Lanes -> 0 .. MaxItems]
  <2>1. \A l \in Lanes : Cardinality(Reserved(l)) \in Nat
    BY WorkersFinite DEF Reserved
  <2> QED
    BY <2>1, AfterReservingType DEF Plan
<1>2. backoff' \in [BackoffKeys -> 0 .. Backoff]
  BY BackedOffType DEF Plan
<1>3. fresh' \subseteq Providers /\ proven' \subseteq Providers
  <2>1. AskedProviders \subseteq Providers
    BY DEF AskedProviders, Providers
  <2>2. fresh' \subseteq fresh \cup AskedProviders /\ proven' \subseteq AskedProviders
    BY DEF Plan
  <2> QED
    BY <2>1, <2>2
<1> QED
  BY <1>1, <1>2, <1>3
  DEF Plan, TargetReady, LanesKnown, Phases, Placing, InLaunch, worldVars

\* Choosing, showing and refreshing a lane, and a launch that passes a check of
\* its context, keep the types.
LEMMA LaneStepsTyped ==
  ASSUME Typed, RecordTypeOK',
         \/ \E l \in Lanes : ChooseLane(l) \/ ShowBackedOff(l)
         \/ RefreshBase \/ RefuseLaunch \/ PassInspection \/ AllowStart
         \/ FinishTick
  PROVE  Typed'
<1> USE DEF Typed, TypeOK, LanesKnown, Phases, Placing, InLaunch
<1>1. ASSUME NEW l \in Lanes, ChooseLane(l) PROVE Typed'
  BY <1>1 DEF ChooseLane, Launchable, TargetReady, runVars, worldVars
<1>2. ASSUME NEW l \in Lanes, ShowBackedOff(l) PROVE Typed'
  BY <1>2 DEF ShowBackedOff, TargetReady, runVars, tickVars, worldVars
<1>3. CASE RefreshBase \/ RefuseLaunch
  <2>1. CASE LaneBackedOff
    BY <1>3, <2>1, BackedOffType
    DEF LaneBackedOff, RefreshBase, RefuseLaunch, TargetReady, worldVars, tickVars
  <2>2. CASE pc = "refreshing" /\ pc' = "launching" /\ UNCHANGED <<nodeVars, runVars, tickVars>>
    BY <1>3, <2>2
    DEF RefreshBase, RefuseLaunch, TargetReady, runVars, tickVars, worldVars
  <2> QED
    BY <1>3, <2>1, <2>2 DEF RefreshBase, RefuseLaunch
<1>4. CASE FinishTick
  BY <1>4, ForgottenType DEF FinishTick, TargetReady, runVars, worldVars
<1>5. CASE PassInspection \/ AllowStart
  BY <1>5
  DEF PassInspection, AllowStart, LaunchGoesOn, TargetReady, runVars, tickVars,
      worldVars
<1> QED
  BY <1>1, <1>2, <1>3, <1>4, <1>5

\* The steps of Launch that write a worker's record.
LEMMA BeginLaunchTyped == Typed /\ RecordTypeOK' /\ BeginLaunch => Typed'
<1> SUFFICES ASSUME Typed, RecordTypeOK', BeginLaunch PROVE Typed'
  OBVIOUS
<1>1. target \in Lanes /\ slots[target[2]] > 0 /\ left[target] > 0
  BY DEF Typed, TargetReady, BeginLaunch, InLaunch
<1>2. PICK w \in Workers :
        worker' = [worker EXCEPT ![w] =
                     [lane |-> target, status |-> "allocating", item |-> "none",
                      provider |-> FALSE]]
  BY DEF BeginLaunch
<1>3. worker \in [Workers -> WorkerRecords]
  BY DEF Typed, TypeOK, WorkerRecords
<1>4. worker' \in [Workers -> WorkerRecords]
  BY <1>1, <1>2, <1>3 DEF WorkerRecords, WorkerStatus
<1>5. worker'[w].lane = target /\ \A v \in Workers \ {w} : worker'[v] = worker[v]
  BY <1>2, <1>3
<1>6. LanesKnown'
  BY <1>1, <1>5
  DEF Typed, TypeOK, LanesKnown, Exits, BeginLaunch, LaunchGoesOn, runVars, tickVars
<1> QED
  BY <1>1, <1>4, <1>6
  DEF Typed, TypeOK, TargetReady, BeginLaunch, LaunchGoesOn, Phases, Placing,
      InLaunch, WorkerRecords, runVars, tickVars

\* One worker's status and provider change.
Becomes(w, status, provider) ==
  worker' = [worker EXCEPT ![w].status = status, ![w].provider = provider]

\* Its record keeps the lane and the item, and the others keep theirs.
LEMMA BecomesChanges ==
  ASSUME Typed, NEW w \in Workers, NEW status \in WorkerStatus,
         NEW provider \in BOOLEAN, Becomes(w, status, provider)
  PROVE  /\ worker' \in [Workers -> WorkerRecords]
         /\ worker'[w].lane = worker[w].lane /\ worker'[w].item = worker[w].item
         /\ worker'[w].status = status /\ worker'[w].provider = provider
         /\ \A v \in Workers \ {w} : worker'[v] = worker[v]
<1>1. worker \in [Workers -> WorkerRecords]
  BY DEF Typed, TypeOK, WorkerRecords
<1>2. /\ worker'[w] = [worker[w] EXCEPT !.status = status, !.provider = provider]
      /\ \A v \in Workers \ {w} : worker'[v] = worker[v]
  BY <1>1 DEF Becomes
<1>3. DOMAIN worker' = Workers /\ worker' = [v \in Workers |-> worker'[v]]
  BY <1>1 DEF Becomes
<1>4. worker'[w] \in WorkerRecords
  BY <1>1, <1>2 DEF WorkerRecords
<1>5. worker' \in [Workers -> WorkerRecords]
  BY <1>1, <1>2, <1>3, <1>4
<1> QED
  BY <1>1, <1>2, <1>5 DEF WorkerRecords

\* A begun worker changes in that way only: no lane is assigned.
LEMMA StatusChange ==
  ASSUME Typed, NEW w \in Workers, NEW status \in WorkerStatus,
         NEW provider \in BOOLEAN, Becomes(w, status, provider),
         worker[w].status # "none", exits' = exits, candidates' = candidates
  PROVE  LanesKept
BY BecomesChanges DEF LanesKept

\* What the steps of a launch and the end of a worker make of its record.
LEMMA LaunchBecomes ==
  ASSUME Typed
  PROVE  /\ StartProvider => \E w \in Workers :
              /\ Launching(w) /\ Becomes(w, "allocating", TRUE)
              /\ stray' = stray \cup {w}
         /\ FinishLaunch => \E w \in Workers :
              /\ Launching(w) /\ Becomes(w, "running", worker[w].provider)
              /\ probe' = [probe EXCEPT ![w] = "fresh"] /\ stray' = stray \ {w}
         /\ FailLaunch => \E w \in Workers, status \in {"failed", "allocating"},
                              provider \in BOOLEAN :
              /\ Launching(w) /\ Becomes(w, status, provider)
              /\ stray' = IF provider THEN stray \cup {w} ELSE stray
              /\ missed' = missed \cup {w}
         /\ \A w \in Workers : Exit(w) =>
              \E status \in {"exited", "failed"} :
                 worker[w].status = "running" /\ Becomes(w, status, FALSE)
         /\ \A w \in Workers : Retire(w) => \E provider \in BOOLEAN :
              /\ worker[w].status \in {"allocating", "running", "exited", "failed"}
              /\ provider => worker[w].provider
              /\ Becomes(w, "stopped", provider)
              /\ stray' = IF provider THEN stray \cup {w} ELSE stray
<1>1. worker \in [Workers -> WorkerRecords]
  BY DEF Typed, TypeOK, WorkerRecords
<1>2. ASSUME NEW w \in Workers
      PROVE  /\ [worker EXCEPT ![w].status = "running"] =
                  [worker EXCEPT ![w].status = "running", ![w].provider = worker[w].provider]
             /\ worker[w].status = "allocating" =>
                  [worker EXCEPT ![w].provider = TRUE] =
                  [worker EXCEPT ![w].status = "allocating", ![w].provider = TRUE]
             /\ worker[w].provider \in BOOLEAN
  <2>1. worker[w] \in WorkerRecords
    BY <1>1
  <2>2. /\ [worker[w] EXCEPT !.status = "running"] =
             [worker[w] EXCEPT !.status = "running", !.provider = worker[w].provider]
        /\ worker[w].status = "allocating" =>
             [worker[w] EXCEPT !.provider = TRUE] =
             [worker[w] EXCEPT !.status = "allocating", !.provider = TRUE]
    BY <2>1 DEF WorkerRecords
  <2> QED
    BY <1>1, <2>1, <2>2 DEF WorkerRecords
<1>3. StartProvider => \E w \in Workers :
        /\ Launching(w) /\ Becomes(w, "allocating", TRUE) /\ stray' = stray \cup {w}
  BY <1>2 DEF StartProvider, Launching, Becomes
<1>4. FinishLaunch => \E w \in Workers :
        /\ Launching(w) /\ Becomes(w, "running", worker[w].provider)
        /\ probe' = [probe EXCEPT ![w] = "fresh"] /\ stray' = stray \ {w}
  BY <1>2 DEF FinishLaunch, Becomes
<1>5. ASSUME FailLaunch
      PROVE  \E w \in Workers, status \in {"failed", "allocating"}, provider \in BOOLEAN :
               /\ Launching(w) /\ Becomes(w, status, provider)
               /\ stray' = IF provider THEN stray \cup {w} ELSE stray
               /\ missed' = missed \cup {w}
  <2>1. PICK w \in Workers, rest \in Remains :
          /\ Launching(w) /\ Becomes(w, rest.status, rest.provider)
          /\ stray' = IF rest.provider THEN stray \cup {w} ELSE stray
          /\ missed' = missed \cup {w}
    BY <1>5 DEF FailLaunch, Becomes
  <2>2. rest.status \in {"failed", "allocating"} /\ rest.provider \in BOOLEAN
    BY <1>5 DEF Remains, FailLaunch, Placing
  <2> QED
    BY <2>1, <2>2
<1>6. \A w \in Workers : Exit(w) =>
        \E status \in {"exited", "failed"} :
          worker[w].status = "running" /\ Becomes(w, status, FALSE)
  BY DEF Exit, Becomes
<1>7. \A w \in Workers : Retire(w) => \E provider \in BOOLEAN :
        /\ worker[w].status \in {"allocating", "running", "exited", "failed"}
        /\ provider => worker[w].provider
        /\ Becomes(w, "stopped", provider)
        /\ stray' = IF provider THEN stray \cup {w} ELSE stray
  BY <1>2 DEF Retire, Becomes
<1> QED
  BY <1>3, <1>4, <1>5, <1>6, <1>7

\* The provider's start and the end of a launch, either way, keep the types.
LEMMA EndLaunchTyped ==
  ASSUME Typed, RecordTypeOK', StartProvider \/ FinishLaunch \/ FailLaunch
  PROVE  Typed'
<1>1. target \in Lanes /\ slots[target[2]] > 0 /\ left[target] > 0
  BY DEF Typed, TargetReady, StartProvider, FinishLaunch, FailLaunch, InLaunch, Placing
<1>a. exits' = exits /\ candidates' = candidates
  BY DEF StartProvider, FinishLaunch, FailLaunch, LaneBackedOff, LaunchGoesOn,
         runVars, tickVars
<1>b. PICK w \in Workers, status \in {"running", "failed", "allocating"},
           provider \in BOOLEAN :
        /\ Launching(w) /\ Becomes(w, status, provider)
        /\ stray' \in {stray, stray \cup {w}, stray \ {w}}
        /\ FailLaunch => missed' = missed \cup {w}
  <2>1. \A w \in Workers : worker[w].provider \in BOOLEAN
    BY DEF Typed, TypeOK
  <2> QED
    BY <2>1, LaunchBecomes
    DEF StartProvider, FinishLaunch, LaunchGoesOn
<1>2. LanesKept
  BY <1>a, <1>b, StatusChange DEF Launching, WorkerStatus
<1>3. /\ LanesKnown' /\ worker' \in [Workers -> WorkerRecords]
      /\ stray' \subseteq Workers
      /\ FailLaunch => missed' \subseteq Workers
  BY <1>2, <1>b, KnownLanesStay DEF LanesKept, Typed, TypeOK
<1> USE DEF Typed, TypeOK, TargetReady, WorkerRecords, Phases, Placing, InLaunch
<1>4. CASE FinishLaunch
  <2>1. slots' \in [Roles -> Nat]
    <3>1. target[2] \in Roles
      BY <1>1 DEF Lanes
    <3>2. slots[target[2]] - 1 \in Nat
      BY <1>1, <3>1
    <3> QED
      BY <1>4, <3>2 DEF FinishLaunch, SlotsAfterLaunch
  <2>2. left' \in [Lanes -> 0 .. MaxItems]
    BY <1>1, <1>4, CampaignAssumption DEF FinishLaunch, CampaignAssumption
  <2>3. probe' \in [Workers -> Probes]
    BY <1>4 DEF FinishLaunch, Probes
  <2> QED
    BY <1>3, <1>4, <2>1, <2>2, <2>3 DEF FinishLaunch
<1>5. CASE FailLaunch
  BY <1>3, <1>5, BackedOffType DEF FailLaunch, LaneBackedOff
<1>6. CASE StartProvider
  BY <1>1, <1>3, <1>6 DEF StartProvider, LaunchGoesOn, runVars, tickVars
<1> QED
  BY <1>4, <1>5, <1>6

\* A timer that counts down to zero.
LEMMA CountDownType ==
  \A n \in 0 .. Backoff : (IF n = 0 THEN 0 ELSE n - 1) \in 0 .. Backoff
<1>1. Backoff \in Nat
  BY CampaignAssumption DEF CampaignAssumption
<1> TAKE n \in 0 .. Backoff
<1>2. CASE n = 0
  BY <1>1, <1>2
<1>3. CASE n # 0
  BY <1>1, <1>3
<1> QED
  BY <1>2, <1>3

\* The world.
LEMMA ClockTyped ==
  ASSUME Typed, RecordTypeOK',
         TimePasses \/ (\E p \in Providers : ProofExpires(p))
                    \/ (\E l \in Lanes : Admit(l))
  PROVE  Typed'
<1> USE DEF Typed, TypeOK, TargetReady, LanesKnown
<1>1. CASE TimePasses
  <2>1. /\ backoff' \in [BackoffKeys -> 0 .. Backoff]
        /\ laneFailure' \in [Lanes -> 0 .. Backoff]
    <3>1. \A n \in 0 .. Backoff : (IF n = 0 THEN 0 ELSE n - 1) \in 0 .. Backoff
      BY CountDownType
    <3>2. \A b \in BackoffKeys :
            (IF backoff[b] = 0 THEN 0 ELSE backoff[b] - 1) \in 0 .. Backoff
      BY <3>1
    <3>3. \A l \in Lanes :
            (IF laneFailure[l] = 0 THEN 0 ELSE laneFailure[l] - 1) \in 0 .. Backoff
      BY <3>1
    <3> QED
      BY <1>1, <3>2, <3>3 DEF TimePasses
  <2> QED
    BY <1>1, <2>1 DEF TimePasses, tickVars, worldVars
<1>2. CASE \E p \in Providers : ProofExpires(p)
  BY <1>2 DEF ProofExpires, tickVars, worldVars
<1>3. CASE \E l \in Lanes : Admit(l)
  <2>1. items' \in [Lanes -> 0 .. MaxItems]
    BY <1>3, CampaignAssumption DEF Admit, CampaignAssumption
  <2> QED
    BY <1>3, <2>1 DEF Admit, WorldStep, tickVars, runVars
<1> QED
  BY <1>1, <1>2, <1>3

\* A worker claims, ends its attempt, exits or is stopped.
LEMMA WorkerTyped ==
  ASSUME Typed, RecordTypeOK', NEW w \in Workers,
         Claim(w) \/ EndAttempt(w) \/ Exit(w) \/ Retire(w)
  PROVE  Typed'
<1>1. worker \in [Workers -> WorkerRecords]
  BY DEF Typed, TypeOK, WorkerRecords
<1>2. exits' = exits /\ candidates' = candidates
  BY DEF Claim, EndAttempt, Exit, Retire, WorldStep, runVars, tickVars
<1>3. LanesKept /\ stray' \subseteq Workers
  <2>1. CASE Exit(w) \/ Retire(w)
    <3>1. PICK status \in {"exited", "failed", "stopped"}, provider \in BOOLEAN :
            /\ worker[w].status # "none" /\ Becomes(w, status, provider)
            /\ stray' = stray \/ stray' = stray \cup {w}
      BY <2>1, LaunchBecomes DEF Exit
    <3>2. status \in WorkerStatus
      BY DEF WorkerStatus
    <3>3. LanesKept
      BY <1>2, <3>1, <3>2, StatusChange
    <3> QED
      BY <3>1, <3>3 DEF Typed, TypeOK
  <2>2. CASE Claim(w) \/ EndAttempt(w)
    <3>1. PICK item \in {"claimed", "done"} :
            worker' = [worker EXCEPT ![w].item = item]
      BY <2>2 DEF Claim, EndAttempt
    <3>2. /\ worker'[w] = [worker[w] EXCEPT !.item = item]
          /\ \A v \in Workers \ {w} : worker'[v] = worker[v]
      BY <1>1, <3>1
    <3>3. /\ worker' \in [Workers -> WorkerRecords]
          /\ worker'[w].lane = worker[w].lane
          /\ worker'[w].status = worker[w].status
      BY <1>1, <3>1, <3>2 DEF WorkerRecords
    <3> QED
      BY <1>2, <2>2, <3>2, <3>3 DEF LanesKept, Claim, EndAttempt, Typed, TypeOK
  <2> QED
    BY <2>1, <2>2
<1>4. items' \in [Lanes -> 0 .. MaxItems]
  <2>1. items \in [Lanes -> 0 .. MaxItems]
    BY DEF Typed, TypeOK
  <2>2. CASE Claim(w)
    <3> DEFINE lane == worker[w].lane
    <3>1. items' = [items EXCEPT ![lane] = @ - 1] /\ items[lane] > 0
      BY <2>2 DEF Claim
    <3>2. \A n \in 0 .. MaxItems : n > 0 => n - 1 \in 0 .. MaxItems
      BY CampaignAssumption DEF CampaignAssumption
    <3> HIDE DEF lane
    <3> QED
      BY <2>1, <3>1, <3>2
  <2>3. CASE EndAttempt(w)
    BY <2>1, <2>3, CampaignAssumption DEF EndAttempt, CampaignAssumption
  <2> QED
    BY <2>1, <2>2, <2>3 DEF Exit, Retire
<1> QED
  BY <1>3, <1>4, KnownLanesStay
  DEF Typed, TypeOK, TargetReady, LanesKept, WorkerRecords, WorldStep, runVars,
      tickVars, Claim, EndAttempt, Exit, Retire

\* The types hold in every reachable state.
LEMMA TypedKept == Spec => []Typed
<1>1. Typed /\ RecordInv /\ RecordInv' /\ [Next]_vars => Typed'
  <2> SUFFICES ASSUME Typed, RecordTypeOK', [Next]_vars PROVE Typed'
    BY DEF RecordInv
  <2>1. CASE UNCHANGED vars
    BY <2>1 DEF Typed, TypeOK, TargetReady, LanesKnown, vars
  <2> QED
    BY <2>1, NodeStepsTyped, SetupStepsTyped, ObservationTyped, SettleExitsTyped,
       SweepTyped, PlanTyped, LaneStepsTyped, BeginLaunchTyped, EndLaunchTyped,
       ClockTyped, WorkerTyped
    DEF Next, RunStep
<1> QED
  BY <1>1, TypedInitially, RecordInvKept, PTL DEF Spec

\* The controller's variables, the workers and the queue keep their types:
\* no slot, reservation or item count falls below zero.
THEOREM TypeCorrect == Spec => []TypeOK
BY TypedKept, PTL DEF Typed

-----------------------------------------------------------------------------
\* What becomes of the workers.

\* Every step but BeginLaunch leaves a worker alone, or moves it along its life.
WorkerMoves(w) ==
  /\ worker'[w].lane = worker[w].lane
  /\ \/ worker'[w] = worker[w]
     \/ /\ worker'[w].item = worker[w].item
        /\ \/ /\ worker[w].status = "allocating"
              /\ StartProvider \/ FinishLaunch \/ FailLaunch
              /\ \/ worker'[w].status \in {"allocating", "failed"}
                 \/ worker'[w].status = "running" /\ FinishLaunch
           \/ /\ worker[w].status = "running" /\ ~worker'[w].provider
              /\ worker'[w].status \in {"exited", "failed"}
           \/ /\ worker[w].status \in {"allocating", "running", "exited", "failed"}
              /\ worker'[w].status = "stopped"
              /\ worker'[w].provider => worker[w].provider /\ w \in stray'
           \/ /\ pc = "sweep" /\ w \in candidates \ candidates'
              /\ worker'[w].status = "cleaned"
              /\ worker'[w].provider = worker[w].provider
     \/ /\ worker'[w].status = worker[w].status
        /\ worker'[w].provider = worker[w].provider
        /\ \/ /\ worker[w].provider /\ worker[w].item = "none"
              /\ worker'[w].item = "claimed"
           \/ worker[w].item = "claimed" /\ worker'[w].item = "done"

\* A step that changes what one worker has claimed.
LEMMA ItemChanges ==
  ASSUME Typed, NEW v \in Workers, NEW w \in Workers, NEW item \in {"claimed", "done"},
         worker' = [worker EXCEPT ![v].item = item]
  PROVE  IF w = v THEN /\ worker'[w].lane = worker[w].lane
                       /\ worker'[w].item = item
                       /\ worker'[w].status = worker[w].status
                       /\ worker'[w].provider = worker[w].provider
         ELSE worker'[w] = worker[w]
<1>1. worker \in [Workers -> WorkerRecords]
  BY DEF Typed, TypeOK, WorkerRecords
<1>2. IF w = v THEN worker'[w] = [worker[w] EXCEPT !.item = item]
      ELSE worker'[w] = worker[w]
  BY <1>1
<1> QED
  BY <1>1, <1>2 DEF WorkerRecords

\* What any step but the beginning of a launch can do to a worker's record.
LEMMA WorkersMove ==
  ASSUME Typed, [Next]_vars, ~BeginLaunch, NEW w \in Workers
  PROVE  WorkerMoves(w)
<1>1. CASE UNCHANGED worker
  BY <1>1 DEF WorkerMoves
<1>2. CASE \/ Start \/ Stop \/ Close \/ Crash \/ Boot \/ NextTick \/ Finalize
           \/ TimePasses \/ \E p \in Providers : ProofExpires(p)
           \/ \E l \in Lanes : ShowBackedOff(l) \/ Admit(l)
  BY <1>1, <1>2
  DEF Start, Stop, Close, Crash, Boot, NextTick, Finalize, TimePasses,
      ProofExpires, ShowBackedOff, Admit, worldVars
<1>3. CASE \/ SetupRepositories \/ RefreshPreflights \/ SetRunningStatus
           \/ ListWorkers \/ EndTick \/ ConfirmPendingClaims \/ ObserveQueue
           \/ SettleExits \/ Plan \/ \E l \in Lanes : ChooseLane(l)
           \/ RefreshBase \/ RefuseLaunch \/ PassInspection \/ AllowStart
           \/ FinishTick
  BY <1>1, <1>3
  DEF SetupRepositories, RefreshPreflights, SetRunningStatus, ListWorkers,
      EndTick, ConfirmPendingClaims, ObserveQueue, SettleExits, Plan,
      ChooseLane, RefreshBase, RefuseLaunch, PassInspection, AllowStart,
      FinishTick, worldVars
<1>4. CASE SweepCleanupCandidates
  <2>1. \/ worker'[w] = worker[w]
        \/ /\ pc = "sweep" /\ w \in candidates \ candidates'
           /\ worker'[w] = [worker[w] EXCEPT !.status = "cleaned"]
    BY <1>4 DEF SweepCleanupCandidates
  <2>2. worker[w] \in WorkerRecords
    BY DEF Typed, TypeOK, WorkerRecords
  <2> QED
    BY <2>1, <2>2 DEF WorkerMoves, WorkerRecords
<1>5. CASE StartProvider \/ FinishLaunch \/ FailLaunch
  <2>1. PICK v \in Workers, status \in {"running", "failed", "allocating"},
             provider \in BOOLEAN :
          /\ worker[v].status = "allocating" /\ Becomes(v, status, provider)
          /\ status = "running" => FinishLaunch
    <3>1. \A v \in Workers : worker[v].provider \in BOOLEAN
      BY DEF Typed, TypeOK
    <3> QED
      BY <1>5, <3>1, LaunchBecomes DEF Launching
  <2>2. status \in WorkerStatus
    BY DEF WorkerStatus
  <2>3. /\ worker'[v].lane = worker[v].lane /\ worker'[v].item = worker[v].item
        /\ worker'[v].status = status
        /\ \A u \in Workers \ {v} : worker'[u] = worker[u]
    BY <2>1, <2>2, BecomesChanges
  <2> QED
    BY <1>5, <2>1, <2>2, <2>3 DEF WorkerMoves
<1>6. CASE \E v \in Workers : Exit(v) \/ Retire(v)
  <2>1. PICK v \in Workers, status \in {"exited", "failed", "stopped"},
             provider \in BOOLEAN :
          /\ \/ worker[v].status = "running" /\ status # "stopped" /\ ~provider
             \/ /\ worker[v].status \in {"allocating", "running", "exited", "failed"}
                /\ status = "stopped"
                /\ provider => worker[v].provider /\ v \in stray'
          /\ Becomes(v, status, provider)
    BY <1>6, LaunchBecomes
  <2>2. status \in WorkerStatus
    BY DEF WorkerStatus
  <2>3. /\ worker'[v].lane = worker[v].lane /\ worker'[v].item = worker[v].item
        /\ worker'[v].status = status /\ worker'[v].provider = provider
        /\ \A u \in Workers \ {v} : worker'[u] = worker[u]
    BY <2>1, <2>2, BecomesChanges
  <2> QED
    BY <2>1, <2>3 DEF WorkerMoves
<1>7. CASE \E v \in Workers : Claim(v) \/ EndAttempt(v)
  <2>1. PICK v \in Workers, item \in {"claimed", "done"} :
          /\ \/ /\ item = "claimed" /\ worker[v].provider
                /\ worker[v].item = "none"
             \/ item = "done" /\ worker[v].item = "claimed"
          /\ worker' = [worker EXCEPT ![v].item = item]
    BY <1>7 DEF Claim, EndAttempt
  <2> QED
    BY <2>1, ItemChanges DEF WorkerMoves
<1> QED
  BY <1>1, <1>2, <1>3, <1>4, <1>5, <1>6, <1>7 DEF Next, RunStep, vars

\* BeginLaunch makes the first record of the lowest unused worker.
LEMMA BeginLaunchBegins ==
  ASSUME Typed, BeginLaunch
  PROVE  \E w \in Workers :
           /\ worker[w].status = "none" /\ worker'[w].status = "allocating"
           /\ worker'[w].lane = target /\ worker'[w].item = "none"
           /\ ~worker'[w].provider
           /\ \A v \in Workers : worker[v].status = "none" => w <= v
           /\ \A v \in Workers \ {w} : worker'[v] = worker[v]
<1>1. PICK w \in Workers :
        /\ worker[w].status = "none"
        /\ \A v \in Workers : worker[v].status = "none" => w <= v
        /\ worker' = [worker EXCEPT ![w] =
                        [lane |-> target, status |-> "allocating", item |-> "none",
                         provider |-> FALSE]]
  BY DEF BeginLaunch
<1>2. worker \in [Workers -> WorkerRecords]
  BY DEF Typed, TypeOK, WorkerRecords
<1>3. /\ worker'[w] = [lane |-> target, status |-> "allocating", item |-> "none",
                       provider |-> FALSE]
      /\ \A v \in Workers \ {w} : worker'[v] = worker[v]
  BY <1>1, <1>2
<1> QED
  BY <1>1, <1>3

-----------------------------------------------------------------------------
\* Providers out of the campaign's sight.

\* What the steps do to the stray and missed workers.
LEMMA StrayMoves ==
  ASSUME Typed, [Next]_vars, NEW w \in Workers
  PROVE  /\ w \in stray' => w \in stray \/ worker[w].status # "none"
         /\ w \in missed' => w \in missed \/ worker[w].status # "none"
         /\ ~FinishLaunch => (w \in stray => w \in stray')
         /\ FinishLaunch /\ w \in stray \ stray' => Launching(w)
<1>1. CASE \/ UNCHANGED vars \/ NextTick \/ Finalize \/ Start \/ Stop \/ Close \/ Crash \/ Boot
           \/ TimePasses \/ \E p \in Providers : ProofExpires(p)
           \/ \E l \in Lanes : ShowBackedOff(l) \/ Admit(l)
           \/ \E v \in Workers : Claim(v) \/ EndAttempt(v) \/ Exit(v)
  <2>1. stray' = stray /\ (missed' = missed \/ missed' = {})
    BY <1>1
    DEF NextTick, Finalize, Start, Stop, Close, Crash, Boot, TimePasses,
        ProofExpires, ShowBackedOff, Admit, Claim, EndAttempt, Exit, WorldStep,
        TickForgotten, vars, worldVars, tickVars
  <2> QED
    BY <2>1
<1>2. CASE \/ SetupRepositories \/ RefreshPreflights \/ SetRunningStatus
           \/ EndTick \/ ConfirmPendingClaims \/ ObserveQueue \/ SettleExits
           \/ SweepCleanupCandidates \/ Plan \/ \E l \in Lanes : ChooseLane(l)
           \/ RefreshBase \/ RefuseLaunch \/ PassInspection \/ BeginLaunch
           \/ AllowStart \/ FinishTick
  <2>1. stray' = stray /\ (missed' = missed \/ missed' = {})
    BY <1>2
    DEF SetupRepositories, RefreshPreflights, SetRunningStatus, EndTick,
        ConfirmPendingClaims, ObserveQueue, SettleExits, SweepCleanupCandidates,
        Plan, ChooseLane, RefreshBase, RefuseLaunch, PassInspection, BeginLaunch,
        AllowStart, FinishTick, LaunchGoesOn, LaneBackedOff, TickForgotten,
        worldVars, tickVars
  <2> QED
    BY <2>1
<1>3. CASE ListWorkers
  <2>1. CASE pc' = "waiting"
    BY <1>3, <2>1 DEF ListWorkers
  <2>2. CASE pc' # "waiting"
    <3>1. /\ stray' = stray \cup missed'
          /\ \A v \in missed' : worker[v].status = "running"
      BY <1>3, <2>2, ListShows
    <3> QED
      BY <3>1
  <2> QED
    BY <2>1, <2>2
<1>4. CASE StartProvider \/ FinishLaunch \/ FailLaunch
  <2>1. PICK v \in Workers :
          /\ Launching(v)
          /\ stray' \in {stray, stray \cup {v}, stray \ {v}}
          /\ ~FinishLaunch => stray \subseteq stray'
          /\ missed' = missed \/ missed' = missed \cup {v}
    BY <1>4, LaunchBecomes DEF StartProvider, FinishLaunch, LaunchGoesOn, tickVars
  <2> QED
    BY <2>1 DEF Launching
<1>5. CASE \E v \in Workers : Retire(v)
  <2>1. PICK v \in Workers :
          /\ worker[v].status # "none" /\ missed' = missed
          /\ stray' = stray \/ stray' = stray \cup {v}
    BY <1>5, LaunchBecomes DEF Retire, WorldStep, tickVars
  <2> QED
    BY <2>1
<1> QED
  BY <1>1, <1>2, <1>3, <1>4, <1>5 DEF Next, RunStep

-----------------------------------------------------------------------------
\* Cleaning.

\* A worker whose provider is gone, and whose record says so.
Gone(w) == worker[w].status \in {"exited", "stopped", "cleaned"} /\ ~worker[w].provider

\* A candidate or a cleaned worker has exited and holds no item, and a clean
\* exit that reconcile found is still one when it settles it, unless the
\* operator has stopped the worker meanwhile.  One that still runs is stray.
SettledInv ==
  /\ OnlySettledAreCleaned
  /\ \A w \in Workers : worker[w].status \in {"exited", "cleaned"} => Gone(w)
  /\ \A w \in candidates : Gone(w) /\ worker[w].status # "cleaned"
  /\ \A x \in exits :
       /\ x.status = "exited" => Gone(x.id) /\ worker[x.id].status # "cleaned"
       /\ worker[x.id].status = "running" => x.id \in stray
       /\ worker[x.id].status \notin {"none", "allocating"}
  /\ exits # {} => pc \in {"confirm", "observe", "settle"}

\* Most steps make no candidates and find no exits.
LEMMA CandidatesStay ==
  ASSUME RecordInv, [Next]_vars, ~SettleExits, ~ListWorkers
  PROVE  /\ candidates' \subseteq candidates /\ exits' \subseteq exits
         /\ exits' # {} /\ pc \in {"confirm", "observe", "settle"} =>
              pc' \in {"confirm", "observe", "settle"}
<1>1. CASE Start
  <2>1. pc = "none"
    BY <1>1 DEF RecordInv, Start
  <2> QED
    BY <1>1, <2>1 DEF Start, RunForgotten, runVars, tickVars
<1>2. CASE \/ Stop \/ Close \/ Crash \/ Boot \/ NextTick \/ Finalize
           \/ TimePasses \/ \E p \in Providers : ProofExpires(p)
           \/ \E l \in Lanes : ShowBackedOff(l) \/ Admit(l)
           \/ \E w \in Workers : Claim(w) \/ EndAttempt(w) \/ Exit(w) \/ Retire(w)
  BY <1>2
  DEF Stop, Close, Crash, Boot, NextTick, Finalize, TimePasses, ProofExpires,
      ShowBackedOff, Admit, Claim, EndAttempt, Exit, Retire, WorldStep,
      RunForgotten, TickForgotten, runVars, tickVars
<1>3. CASE \/ SetupRepositories \/ RefreshPreflights \/ SetRunningStatus
           \/ EndTick \/ ConfirmPendingClaims \/ ObserveQueue
           \/ SweepCleanupCandidates \/ Plan \/ \E l \in Lanes : ChooseLane(l)
  BY <1>3
  DEF SetupRepositories, RefreshPreflights, SetRunningStatus, EndTick,
      ConfirmPendingClaims, ObserveQueue, SweepCleanupCandidates, Plan,
      ChooseLane, TickForgotten, runVars, tickVars
<1>4. CASE \/ RefreshBase \/ RefuseLaunch \/ PassInspection \/ BeginLaunch
           \/ AllowStart \/ StartProvider \/ FinishLaunch \/ FailLaunch
           \/ FinishTick
  BY <1>4
  DEF RefreshBase, RefuseLaunch, PassInspection, BeginLaunch, AllowStart,
      StartProvider, FinishLaunch, FailLaunch, FinishTick, LaunchGoesOn,
      LaneBackedOff, TickForgotten, runVars, tickVars, Placing
<1>5. CASE UNCHANGED vars
  BY <1>5 DEF vars
<1> QED
  BY <1>1, <1>2, <1>3, <1>4, <1>5 DEF Next, RunStep

\* The exits that the worker list shows.
LEMMA ListedExits ==
  ASSUME Typed, SettledInv, ListWorkers, NEW x \in exits'
  PROVE  /\ x.id \in Workers
         /\ x.status = "exited" => worker[x.id].status = "exited"
         /\ worker[x.id].status = "running" => x.id \in stray'
         /\ worker[x.id].status \notin {"none", "allocating", "cleaned"}
<1>1. exits = {}
  BY DEF SettledInv, ListWorkers
<1>2. pc' # "waiting"
  BY <1>1 DEF ListWorkers
<1>3. PICK silent \in SUBSET {w \in Workers : worker[w].status \in {"running", "exited"}},
           shown \in [Workers -> WorkerStatus] :
        /\ shown = [w \in Workers |->
                      IF w \in silent THEN "failed" ELSE worker[w].status]
        /\ missed' = {w \in silent : worker[w].status = "running"}
        /\ stray' = stray \cup missed'
        /\ InspectLaunchProbes(shown)
  BY <1>2, ListShows
<1>4. x \in Exits /\ shown[x.id] = x.status
  BY <1>3 DEF InspectLaunchProbes
<1>5. x.id \in Workers /\ x.status \in {"exited", "failed"}
  BY <1>4 DEF Exits
<1>6. CASE x.id \in silent
  BY <1>3, <1>4, <1>5, <1>6
<1>7. CASE x.id \notin silent
  BY <1>3, <1>4, <1>5, <1>7
<1> QED
  BY <1>6, <1>7

\* Every step keeps what is known of settled exits.
LEMMA SettledStep ==
  ASSUME Typed, RecordInv, SettledInv, [Next]_vars
  PROVE  SettledInv'
<1>1. CASE SettleExits
  <2>1. /\ UNCHANGED worker /\ exits' = {}
        /\ \A w \in candidates' :
             \/ w \in candidates
             \/ \E x \in exits, outcome \in Outcomes :
                  w = x.id /\ outcome \in Outcome(x.id) /\ IsCandidate(x, outcome)
    BY <1>1 DEF SettleExits, worldVars
  <2>2. ASSUME NEW w \in candidates'
        PROVE  /\ Gone(w) /\ worker[w].status # "cleaned"
               /\ worker[w].item # "claimed"
    <3>1. CASE w \in candidates
      BY <3>1 DEF SettledInv, OnlySettledAreCleaned, Typed, TypeOK
    <3>2. ASSUME NEW x \in exits, NEW outcome \in Outcomes, w = x.id,
                 outcome \in Outcome(x.id), IsCandidate(x, outcome)
          PROVE  /\ Gone(w) /\ worker[w].status # "cleaned"
                 /\ worker[w].item # "claimed"
      <4>1. /\ Gone(w) /\ worker[w].status # "cleaned"
            /\ outcome \in {"terminal", "unmatched"}
        BY <3>2 DEF SettledInv, IsCandidate
      <4>2. worker[w].item \in {"none", "claimed", "done"}
        BY <3>2 DEF Typed, TypeOK, Exits
      <4>3. worker[w].item # "claimed"
        BY <3>2, <4>1, <4>2 DEF Outcome
      <4> QED
        BY <4>1, <4>3
    <3> QED
      BY <2>1, <3>1, <3>2
  <2> QED
    BY <2>1, <2>2 DEF SettledInv, OnlySettledAreCleaned, Gone
<1>2. CASE ListWorkers
  <2>1. UNCHANGED <<worker, candidates>> /\ exits = {}
    BY <1>2 DEF ListWorkers, SettledInv
  <2>2. exits' # {} => pc' = "confirm"
    BY <1>2, <2>1 DEF ListWorkers
  <2>3. \A x \in exits' : x.id \in Workers
    BY <1>2, ListedExits
  <2> QED
    BY <1>2, <2>1, <2>2, <2>3, ListedExits DEF SettledInv, OnlySettledAreCleaned, Gone
<1>3. CASE BeginLaunch
  <2>1. PICK w \in Workers :
          /\ worker[w].status = "none" /\ worker'[w].status = "allocating"
          /\ \A v \in Workers \ {w} : worker'[v] = worker[v]
    BY <1>3, BeginLaunchBegins
  <2>2. exits' = exits /\ candidates' = candidates /\ exits = {} /\ w \notin candidates
    BY <1>3, <2>1 DEF BeginLaunch, LaunchGoesOn, runVars, tickVars, SettledInv, Gone
  <2> QED
    BY <2>1, <2>2 DEF SettledInv, OnlySettledAreCleaned, Typed, TypeOK, Gone
<1>4. CASE ~SettleExits /\ ~ListWorkers /\ ~BeginLaunch
  <2>1. /\ candidates' \subseteq candidates /\ exits' \subseteq exits
        /\ exits' # {} /\ pc \in {"confirm", "observe", "settle"} =>
             pc' \in {"confirm", "observe", "settle"}
    BY <1>4, CandidatesStay
  <2>2. \A w \in Workers : WorkerMoves(w)
    BY <1>4, WorkersMove
  <2>3. ASSUME NEW w \in candidates'
        PROVE  /\ Gone(w)' /\ worker'[w].status # "cleaned"
               /\ worker'[w].item # "claimed"
    <3>1. /\ w \in Workers /\ Gone(w) /\ worker[w].status # "cleaned"
          /\ worker[w].item # "claimed" /\ WorkerMoves(w)
      BY <2>1, <2>2 DEF SettledInv, OnlySettledAreCleaned, Typed, TypeOK
    <3> QED
      BY <2>1, <3>1 DEF WorkerMoves, Gone
  <2>4. ASSUME NEW w \in Workers, worker'[w].status = "cleaned"
        PROVE  worker'[w].item # "claimed" /\ ~worker'[w].provider
    BY <2>1, <2>2, <2>4
    DEF WorkerMoves, SettledInv, OnlySettledAreCleaned, Typed, TypeOK, Gone
  <2>5. ASSUME NEW w \in Workers, worker'[w].status = "exited"
        PROVE  ~worker'[w].provider
    BY <2>2, <2>5 DEF WorkerMoves, SettledInv, Gone
  <2>6. ASSUME NEW x \in exits'
        PROVE  /\ x.status = "exited" => Gone(x.id)' /\ worker'[x.id].status # "cleaned"
               /\ worker'[x.id].status = "running" => x.id \in stray'
               /\ worker'[x.id].status \notin {"none", "allocating"}
    <3>1. x \in exits /\ x.id \in Workers /\ x.status \in {"exited", "failed"}
      BY <2>1 DEF Typed, TypeOK, Exits
    <3>2. WorkerMoves(x.id) /\ pc \in {"confirm", "observe", "settle"}
      BY <2>2, <3>1 DEF SettledInv
    <3>3. ~(StartProvider \/ FinishLaunch \/ FailLaunch)
      BY <3>2 DEF StartProvider, FinishLaunch, FailLaunch, Placing
    <3>4. x.id \in stray => x.id \in stray'
      BY <3>1, <3>3, StrayMoves
    <3>5. worker'[x.id].status \notin {"none", "allocating"}
      BY <3>1, <3>2, <3>3 DEF WorkerMoves, SettledInv
    <3>6. worker'[x.id].status = "running" => x.id \in stray'
      BY <3>1, <3>2, <3>3, <3>4 DEF WorkerMoves, SettledInv
    <3>7. ASSUME x.status = "exited"
          PROVE  Gone(x.id)' /\ worker'[x.id].status # "cleaned"
      BY <3>1, <3>2, <3>3, <3>7 DEF WorkerMoves, SettledInv, Gone
    <3> QED
      BY <3>5, <3>6, <3>7
  <2> QED
    BY <2>1, <2>3, <2>4, <2>5, <2>6 DEF SettledInv, OnlySettledAreCleaned, Gone
<1> QED
  BY <1>1, <1>2, <1>3, <1>4

\* That holds in every reachable state.
LEMMA SettledInvKept == Spec => []SettledInv
<1>1. Init => SettledInv
  BY DEF Init, SettledInv, OnlySettledAreCleaned, NoWorker
<1>2. Typed /\ RecordInv /\ SettledInv /\ [Next]_vars => SettledInv'
  BY SettledStep
<1> QED
  BY <1>1, <1>2, TypedKept, RecordInvKept, PTL DEF Spec

\* The workspace of a worker is cleaned only when its provider exited cleanly
\* and no item hangs on it: whatever a correlation call missed, and however
\* late the sweep (markCleanupCandidate, sweepCleanupCandidates).
THEOREM SettledOnlyCleaned == Spec => []OnlySettledAreCleaned
BY SettledInvKept, PTL DEF SettledInv

-----------------------------------------------------------------------------
\* Providers out of the campaign's sight.

\* Where a provider runs, its record says running or the worker is known to be
\* stray; a stray or missed worker was begun.
StrayInv ==
  \A w \in Workers :
    /\ worker[w].provider => worker[w].status = "running" \/ w \in stray
    /\ worker[w].status = "none" => w \notin stray /\ w \notin missed

\* Every step keeps what is known of them.
LEMMA StrayStep ==
  ASSUME Typed, SettledInv, StrayInv, [Next]_vars
  PROVE  StrayInv'
<1> SUFFICES ASSUME NEW w \in Workers
             PROVE  /\ worker'[w].provider =>
                         worker'[w].status = "running" \/ w \in stray'
                    /\ worker'[w].status = "none" => w \notin stray' /\ w \notin missed'
  BY DEF StrayInv
<1>1. CASE BeginLaunch
  <2>1. PICK v \in Workers :
          /\ worker'[v].status = "allocating" /\ ~worker'[v].provider
          /\ \A u \in Workers \ {v} : worker'[u] = worker[u]
    BY <1>1, BeginLaunchBegins
  <2>2. stray' = stray /\ missed' = missed
    BY <1>1 DEF BeginLaunch, LaunchGoesOn, tickVars
  <2> QED
    BY <2>1, <2>2 DEF StrayInv
<1>2. CASE StartProvider \/ FinishLaunch \/ FailLaunch
  <2>1. PICK v \in Workers, status \in {"running", "failed", "allocating"},
             provider \in BOOLEAN :
          /\ Launching(v) /\ Becomes(v, status, provider)
          /\ \A u \in Workers \ {v} : u \in stray' <=> u \in stray
          /\ provider => status = "running" \/ v \in stray'
          /\ missed' \subseteq missed \cup {v}
    <3>1. \A v \in Workers : worker[v].provider \in BOOLEAN
      BY DEF Typed, TypeOK
    <3>2. StartProvider \/ FinishLaunch => missed' = missed
      BY DEF StartProvider, FinishLaunch, LaunchGoesOn, tickVars
    <3>3. CASE StartProvider
      BY <3>2, <3>3, LaunchBecomes
    <3>4. CASE FinishLaunch
      BY <3>1, <3>2, <3>4, LaunchBecomes
    <3>5. CASE FailLaunch
      BY <3>5, LaunchBecomes
    <3> QED
      BY <1>2, <3>3, <3>4, <3>5
  <2>2. /\ worker'[v].status = status /\ worker'[v].provider = provider
        /\ \A u \in Workers \ {v} : worker'[u] = worker[u]
    BY <2>1, BecomesChanges DEF WorkerStatus
  <2> QED
    BY <2>1, <2>2 DEF StrayInv
<1>3. CASE ~(BeginLaunch \/ StartProvider \/ FinishLaunch \/ FailLaunch)
  <2>1. WorkerMoves(w) /\ (w \in stray => w \in stray')
    BY <1>3, WorkersMove, StrayMoves
  <2>2. worker'[w].status = "none" => worker[w].status = "none"
    BY <2>1 DEF WorkerMoves
  <2>3. worker'[w].status = "none" => w \notin stray' /\ w \notin missed'
    BY <2>2, StrayMoves DEF StrayInv
  <2>4. w \in candidates => worker[w].status # "running"
    BY DEF SettledInv, Gone
  <2> QED
    BY <1>3, <2>1, <2>3, <2>4 DEF StrayInv, WorkerMoves
<1> QED
  BY <1>1, <1>2, <1>3

\* That holds in every reachable state.
LEMMA StrayInvKept == Spec => []StrayInv
<1>1. Init => StrayInv
  BY DEF Init, StrayInv, NoWorker
<1>2. Typed /\ SettledInv /\ StrayInv /\ [Next]_vars => StrayInv'
  BY StrayStep
<1> QED
  BY <1>1, <1>2, TypedKept, SettledInvKept, PTL DEF Spec

-----------------------------------------------------------------------------
\* Launches.

\* Only BeginLaunch makes a worker's first record.
LEMMA OnlyBeginLaunchBegins ==
  ASSUME Typed, [Next]_vars, NEW w \in Workers,
         worker[w].status = "none", worker'[w].status = "allocating"
  PROVE  BeginLaunch
BY WorkersMove DEF WorkerMoves

\* Where Launch has looked at its context for the last time, a context that is
\* no longer live was cancelled by a Stop or Close since.
CutInv ==
  \A step \in {"recording", "starting"} : pc = step /\ ctx # "live" => cut = step

\* Every step keeps that.
LEMMA CutStep ==
  ASSUME Typed, RecordInv, CutInv, [Next]_vars
  PROVE  CutInv'
<1> SUFFICES ASSUME pc' \in {"recording", "starting"}, ctx' # "live"
             PROVE  cut' = pc'
  BY DEF CutInv
<1>1. CASE Stop \/ Close
  <2>1. CASE ctx = "live"
    BY <1>1, <2>1 DEF Stop, Close, Cross
  <2>2. CASE ctx # "live"
    BY <1>1, <2>2 DEF Stop, Close, Cross, CutInv
  <2> QED
    BY <2>1, <2>2
<1>2. ~PassInspection /\ ~AllowStart
  BY DEF PassInspection, AllowStart, LaunchGoesOn, LaunchAllowed, recordVars
<1>3. CASE \/ Start \/ Crash \/ Boot \/ NextTick \/ Finalize
           \/ TimePasses \/ \E p \in Providers : ProofExpires(p)
           \/ \E l \in Lanes : ShowBackedOff(l) \/ Admit(l)
           \/ \E w \in Workers : Claim(w) \/ EndAttempt(w) \/ Exit(w) \/ Retire(w)
  <2>1. Boot => pc = "none"
    BY DEF Boot, RecordInv
  <2>2. Start => pc = "none"
    BY DEF Start, RecordInv
  <2> QED
    BY <1>3, <2>1, <2>2
    DEF Start, Crash, Boot, NextTick, Finalize, TimePasses, ProofExpires,
        ShowBackedOff, Admit, Claim, EndAttempt, Exit, Retire, WorldStep,
        recordVars, CutInv
<1>4. CASE RunStep
  BY <1>2, <1>4
  DEF RunStep, SetupRepositories, RefreshPreflights, SetRunningStatus,
      ListWorkers, EndTick, ConfirmPendingClaims, ObserveQueue, SettleExits,
      SweepCleanupCandidates, Plan, ChooseLane, RefreshBase, RefuseLaunch,
      BeginLaunch, StartProvider, FinishLaunch, FailLaunch, FinishTick,
      LaunchGoesOn, LaneBackedOff
<1>5. CASE UNCHANGED vars
  BY <1>5 DEF vars, CutInv
<1> QED
  BY <1>1, <1>3, <1>4, <1>5 DEF Next

\* No worker is begun and no provider started once the campaign is stopping,
\* halted or closed, however far its launch had got: but for the step that was
\* already past the last look at the context when Stop or Close came.
THEOREM LaunchesEnd == Spec => StopEndsLaunches
<1>1. Init => CutInv
  BY DEF Init, CutInv
<1>2. Typed /\ RecordInv /\ CutInv /\ [Next]_vars => CutInv'
  BY CutStep
<1>3. Typed /\ RecordInv /\ CutInv /\ [Next]_vars =>
        (Ending => /\ (\E l \in Lanes : Begins(l)) => cut = "recording"
                   /\ Starts => cut = "starting")
  <2> SUFFICES ASSUME Typed, RecordInv, CutInv, [Next]_vars, Ending
               PROVE  /\ (\E l \in Lanes : Begins(l)) => cut = "recording"
                      /\ Starts => cut = "starting"
    OBVIOUS
  <2>1. ctx # "live"
    BY DEF Ending, RecordInv
  <2>2. ASSUME NEW l \in Lanes, Begins(l) PROVE cut = "recording"
    <3>1. BeginLaunch
      BY <2>2, OnlyBeginLaunchBegins DEF Begins
    <3> QED
      BY <2>1, <3>1 DEF BeginLaunch, CutInv
  <2>3. Starts => cut = "starting"
    BY <2>1 DEF Starts, CutInv
  <2> QED
    BY <2>2, <2>3
<1> QED
  BY <1>1, <1>2, <1>3, TypedKept, RecordInvKept, PTL DEF Spec, StopEndsLaunches

-----------------------------------------------------------------------------
\* Capacity.

\* Where slots hold what the worker list of this tick left.
SlotPhases == {"confirm", "observe", "settle", "sweep", "plan", "launch",
               "refreshing"} \cup InLaunch

\* A worker being launched has taken its slot, which is counted down at the end.
Taken(k) == IF pc \in Placing /\ k = target[2] THEN 1 ELSE 0

\* As long as a role has a slot, its slots and the workers that the tick counts
\* are within its capacity (a worker missed when the list was had, or left by a
\* launch that failed, is not counted); the worker being launched is.
CapacityInv ==
  /\ pc \in SlotPhases =>
       \A k \in Roles :
         slots[k] = 0 \/ slots[k] + Cardinality(Counted(k)) <= Capacity[k] + Taken(k)
  /\ \A v, w \in Workers :
       v < w /\ worker[v].status = "none" => worker[w].status = "none"
  /\ pc \in Placing =>
       \A w \in Workers : Launching(w) => worker[w].lane = target /\ w \notin missed

\* The counted workers of a role can be counted.
LEMMA CountedCounts ==
  \A k \in Roles : IsFiniteSet(Counted(k)) /\ Cardinality(Counted(k)) \in Nat
BY WorkersFinite DEF Counted, Alive

\* The steps that take no part in counting.
LEMMA SlotsStay ==
  ASSUME RecordInv, [Next]_vars,
         ~ListWorkers, ~BeginLaunch, ~FinishLaunch, ~FailLaunch
  PROVE  /\ pc' \in SlotPhases => pc \in SlotPhases /\ slots' = slots /\ missed' = missed
         /\ pc' \in SlotPhases => (pc' \in Placing <=> pc \in Placing)
         /\ pc' \in Placing => pc \in Placing /\ target' = target /\ probe' = probe
<1> USE DEF SlotPhases, InLaunch, Placing
<1>1. CASE Start
  <2>1. pc = "none"
    BY <1>1 DEF RecordInv, Start
  <2> QED
    BY <1>1, <2>1 DEF Start
<1>2. CASE \/ Stop \/ Close \/ Crash \/ Boot \/ NextTick \/ Finalize
           \/ TimePasses \/ \E p \in Providers : ProofExpires(p)
           \/ \E l \in Lanes : ShowBackedOff(l) \/ Admit(l)
           \/ \E w \in Workers : Claim(w) \/ EndAttempt(w) \/ Exit(w) \/ Retire(w)
  BY <1>2
  DEF Stop, Close, Crash, Boot, NextTick, Finalize, TimePasses, ProofExpires,
      ShowBackedOff, Admit, Claim, EndAttempt, Exit, Retire, WorldStep, runVars,
      tickVars
<1>3. CASE \/ SetupRepositories \/ RefreshPreflights \/ SetRunningStatus
           \/ EndTick \/ ConfirmPendingClaims \/ ObserveQueue \/ SettleExits
           \/ SweepCleanupCandidates \/ Plan \/ \E l \in Lanes : ChooseLane(l)
  BY <1>3
  DEF SetupRepositories, RefreshPreflights, SetRunningStatus, EndTick,
      ConfirmPendingClaims, ObserveQueue, SettleExits, SweepCleanupCandidates,
      Plan, ChooseLane, tickVars
<1>4. CASE \/ RefreshBase \/ RefuseLaunch \/ PassInspection \/ AllowStart
           \/ StartProvider \/ FinishTick
  BY <1>4
  DEF RefreshBase, RefuseLaunch, PassInspection, AllowStart, StartProvider,
      FinishTick, LaunchGoesOn, LaneBackedOff, tickVars, runVars
<1>5. CASE UNCHANGED vars
  BY <1>5 DEF vars
<1> QED
  BY <1>1, <1>2, <1>3, <1>4, <1>5 DEF Next, RunStep

\* Nothing but BeginLaunch and a new list adds a worker that is counted.
LEMMA CountedShrinks ==
  ASSUME Typed, [Next]_vars, ~BeginLaunch, NEW k \in Roles, missed \subseteq missed'
  PROVE  /\ Counted(k)' \subseteq Counted(k)
         /\ Cardinality(Counted(k)') \in Nat
         /\ Cardinality(Counted(k)') <= Cardinality(Counted(k))
<1>1. Counted(k)' \subseteq Counted(k)
  BY WorkersMove DEF WorkerMoves, Counted, Alive
<1> QED
  BY <1>1, CountedCounts, FS_Subset, FS_CardinalityType

\* Beginning a launch adds one worker of its role, and none of another.
LEMMA CountedGrows ==
  ASSUME Typed, StrayInv, BeginLaunch, NEW k \in Roles
  PROVE  Cardinality(Counted(k)') =
           IF k = target[2] THEN Cardinality(Counted(k)) + 1
           ELSE Cardinality(Counted(k))
<1>1. PICK w \in Workers :
        /\ worker[w].status = "none" /\ worker'[w].status = "allocating"
        /\ worker'[w].lane = target
        /\ \A v \in Workers \ {w} : worker'[v] = worker[v]
  BY BeginLaunchBegins
<1>2. w \notin Counted(k) /\ w \notin missed /\ missed' = missed
  BY <1>1 DEF Counted, Alive, StrayInv, BeginLaunch, LaunchGoesOn, tickVars
<1>3. CASE k = target[2]
  <2>1. Counted(k)' = Counted(k) \cup {w}
    BY <1>1, <1>2, <1>3 DEF Counted, Alive
  <2>2. Cardinality(Counted(k) \cup {w}) = Cardinality(Counted(k)) + 1
    BY <1>2, CountedCounts, FS_AddElement
  <2> QED
    BY <1>3, <2>1, <2>2
<1>4. CASE k # target[2]
  <2>1. Counted(k)' = Counted(k)
    BY <1>1, <1>2, <1>4 DEF Counted, Alive
  <2> QED
    BY <1>4, <2>1
<1> QED
  BY <1>3, <1>4

\* Workers stay in the order they were begun in, and only one is being launched.
LEMMA OrderStep ==
  ASSUME Typed, RecordInv, SettledInv, StrayInv, CapacityInv, [Next]_vars
  PROVE  /\ \A v, w \in Workers :
              v < w /\ worker'[v].status = "none" => worker'[w].status = "none"
         /\ pc' \in Placing =>
              \A w \in Workers : Launching(w)' =>
                worker'[w].lane = target' /\ w \notin missed'
<1>1. CASE BeginLaunch
  <2>1. PICK w \in Workers :
          /\ worker[w].status = "none" /\ worker'[w].status = "allocating"
          /\ worker'[w].lane = target
          /\ \A v \in Workers : worker[v].status = "none" => w <= v
          /\ \A v \in Workers \ {w} : worker'[v] = worker[v]
    BY <1>1, BeginLaunchBegins
  <2>2. Workers \subseteq Int
    BY DEF Workers
  <2>3. ASSUME NEW u \in Workers, NEW v \in Workers, u < v,
               worker'[u].status = "none"
        PROVE  worker'[v].status = "none"
    BY <2>1, <2>2, <2>3 DEF CapacityInv
  <2>4. ASSUME NEW v \in Workers, Launching(v)'
        PROVE  worker'[v].lane = target' /\ v \notin missed'
    <3>1. v = w
      BY <2>1, <2>2, <2>4 DEF Launching, CapacityInv
    <3>2. w \notin missed
      BY <2>1 DEF StrayInv
    <3> QED
      BY <1>1, <2>1, <3>1, <3>2 DEF BeginLaunch, LaunchGoesOn, tickVars
  <2> QED
    BY <2>3, <2>4
<1>2. CASE ~BeginLaunch
  <2>1. ASSUME NEW w \in Workers
        PROVE  worker'[w].status = "none" <=> worker[w].status = "none"
    BY <1>2, WorkersMove DEF WorkerMoves, SettledInv, Gone
  <2>2. ASSUME pc' \in Placing, NEW w \in Workers, Launching(w)'
        PROVE  worker'[w].lane = target' /\ w \notin missed'
    <3>1. /\ pc \in Placing /\ target' = target /\ probe' = probe
          /\ missed' = missed
      <4>1. ~(ListWorkers \/ FinishLaunch \/ FailLaunch)
        BY <2>2 DEF ListWorkers, FinishLaunch, FailLaunch, LaneBackedOff, Placing
      <4> QED
        BY <1>2, <2>2, <4>1, SlotsStay DEF SlotPhases, InLaunch
    <3>2. worker[w].status = "allocating" /\ worker'[w].lane = worker[w].lane
      BY <1>2, <2>2, WorkersMove DEF WorkerMoves, Launching
    <3>3. Launching(w)
      BY <2>1, <2>2, <3>1, <3>2 DEF Launching
    <3> QED
      BY <3>1, <3>2, <3>3 DEF CapacityInv
  <2> QED
    BY <2>1, <2>2 DEF CapacityInv
<1> QED
  BY <1>1, <1>2

\* What the worker list makes of the slots.
LEMMA ListCounts ==
  ASSUME Typed, ListWorkers, pc' # "waiting", NEW k \in Roles
  PROVE  LET N == Cardinality(Counted(k)')
         IN slots'[k] = IF N < Capacity[k] THEN Capacity[k] - N ELSE 0
<1>1. PICK silent \in SUBSET {w \in Workers : worker[w].status \in {"running", "exited"}},
           shown \in [Workers -> WorkerStatus] :
        /\ shown = [w \in Workers |->
                      IF w \in silent THEN "failed" ELSE worker[w].status]
        /\ missed' = {w \in silent : worker[w].status = "running"}
        /\ slots' = FreeSlots(shown)
  BY ListShows
<1>2. worker' = worker
  BY DEF ListWorkers
<1>3. Listed(shown, k) = Counted(k)'
  <2>1. ASSUME NEW w \in Workers
        PROVE  w \in Listed(shown, k) <=> w \in Counted(k)'
    <3>1. CASE w \in silent
      BY <1>1, <1>2, <3>1 DEF Listed, Counted, Alive
    <3>2. CASE w \notin silent
      BY <1>1, <1>2, <3>2 DEF Listed, Counted, Alive
    <3> QED
      BY <3>1, <3>2
  <2> QED
    BY <2>1 DEF Listed, Counted, Alive
<1> QED
  BY <1>1, <1>3 DEF FreeSlots

\* Every step keeps the free slots and the counted workers within capacity.
LEMMA CountStep ==
  ASSUME Typed, RecordInv, StrayInv, CapacityInv, [Next]_vars,
         pc' \in SlotPhases, NEW k \in Roles
  PROVE  slots'[k] = 0 \/ slots'[k] + Cardinality(Counted(k)') <= Capacity[k] + Taken(k)'
<1> DEFINE N == Cardinality(Counted(k))
<1> SUFFICES slots'[k] = 0 \/ slots'[k] + N' <= Capacity[k] + Taken(k)'
  OBVIOUS
<1>1. N \in Nat /\ N' \in Nat /\ Capacity[k] \in Nat /\ slots[k] \in Nat
  <2>1. Counted(k) \subseteq Workers /\ Counted(k)' \subseteq Workers
    BY DEF Counted, Alive
  <2> QED
    BY <2>1, WorkersFinite, CampaignAssumption DEF CampaignAssumption, Typed, TypeOK
<1>2. CASE BeginLaunch
  <2>1. pc = "recording" /\ pc' = "allocating" /\ slots' = slots /\ target' = target
    BY <1>2 DEF BeginLaunch, LaunchGoesOn, tickVars
  <2>2. slots[k] = 0 \/ slots[k] + N <= Capacity[k]
    BY <1>1, <2>1 DEF CapacityInv, SlotPhases, InLaunch, Taken, Placing
  <2>3. N' = IF k = target[2] THEN N + 1 ELSE N
    BY <1>2, CountedGrows
  <2>4. Taken(k)' = IF k = target[2] THEN 1 ELSE 0
    BY <2>1 DEF Taken, Placing
  <2> HIDE DEF N
  <2> QED
    BY <1>1, <2>1, <2>2, <2>3, <2>4
<1>3. CASE ListWorkers
  <2>1. pc' # "waiting" /\ pc' = "confirm"
    BY <1>3 DEF ListWorkers, SlotPhases, InLaunch, Placing
  <2>2. slots'[k] = IF N' < Capacity[k] THEN Capacity[k] - N' ELSE 0
    BY <1>3, <2>1, ListCounts
  <2>3. Taken(k)' = 0
    BY <2>1 DEF Taken, Placing
  <2> HIDE DEF N
  <2> QED
    BY <1>1, <2>2, <2>3
<1>4. CASE FinishLaunch
  <2>1. /\ pc = "started" /\ pc' = "launch" /\ target[2] \in Roles
        /\ slots' = [slots EXCEPT ![target[2]] = @ - 1]
        /\ slots[target[2]] > 0 /\ missed' = missed
    BY <1>4
    DEF FinishLaunch, SlotsAfterLaunch, Typed, TargetReady, Lanes, InLaunch, Placing
  <2>2. slots[k] = 0 \/ slots[k] + N <= Capacity[k] + Taken(k)
    BY <2>1 DEF CapacityInv, SlotPhases, InLaunch, Placing
  <2>3. slots'[k] = IF k = target[2] THEN slots[k] - 1 ELSE slots[k]
    BY <2>1 DEF Typed, TypeOK
  <2>4. Taken(k) = (IF k = target[2] THEN 1 ELSE 0) /\ Taken(k)' = 0
    BY <2>1 DEF Taken, Placing
  <2>5. N' <= N
    <3>1. ~BeginLaunch
      BY <2>1 DEF BeginLaunch
    <3> QED
      BY <2>1, <3>1, CountedShrinks
  <2> HIDE DEF N
  <2> QED
    BY <1>1, <2>1, <2>2, <2>3, <2>4, <2>5
<1>5. CASE FailLaunch
  <2>1. PICK w \in Workers, status \in {"failed", "allocating"}, provider \in BOOLEAN :
          /\ Launching(w) /\ Becomes(w, status, provider)
          /\ missed' = missed \cup {w}
    BY <1>5, LaunchBecomes
  <2>2. /\ pc \in Placing /\ pc' = "launch" /\ slots' = slots
        /\ worker[w].lane = target /\ w \notin missed
    BY <1>5, <2>1 DEF FailLaunch, LaneBackedOff, CapacityInv
  <2>3. slots[k] = 0 \/ slots[k] + N <= Capacity[k] + Taken(k)
    BY <2>2 DEF CapacityInv, SlotPhases, InLaunch
  <2>4. Taken(k) = (IF k = target[2] THEN 1 ELSE 0) /\ Taken(k)' = 0
    BY <2>2 DEF Taken, Placing
  <2>5. Counted(k)' \subseteq Counted(k) /\ N' <= N
    <3>1. ~BeginLaunch
      BY <2>2 DEF BeginLaunch, LaunchGoesOn
    <3> QED
      BY <2>1, <3>1, CountedShrinks
  <2>6. k = target[2] => N' <= N - 1
    <3>1. ASSUME k = target[2] PROVE Cardinality(Counted(k)') <= Cardinality(Counted(k)) - 1
      <4>1. w \in Counted(k) /\ Counted(k)' \subseteq Counted(k) \ {w}
        BY <2>1, <2>2, <2>5, <3>1 DEF Counted, Alive, Launching
      <4>2. /\ IsFiniteSet(Counted(k) \ {w})
            /\ Cardinality(Counted(k) \ {w}) = Cardinality(Counted(k)) - 1
        BY <4>1, CountedCounts, FS_RemoveElement
      <4>3. Cardinality(Counted(k)') <= Cardinality(Counted(k) \ {w})
        BY <4>1, <4>2, FS_Subset
      <4> QED
        BY <4>2, <4>3
    <3> QED
      BY <3>1
  <2> HIDE DEF N
  <2> QED
    BY <1>1, <2>2, <2>3, <2>4, <2>5, <2>6
<1>6. CASE ~BeginLaunch /\ ~ListWorkers /\ ~FinishLaunch /\ ~FailLaunch
  <2>1. /\ pc \in SlotPhases /\ slots' = slots /\ missed' = missed
        /\ Taken(k)' = Taken(k)
    BY <1>6, SlotsStay DEF Taken
  <2>2. slots[k] = 0 \/ slots[k] + N <= Capacity[k] + Taken(k)
    BY <2>1 DEF CapacityInv
  <2>3. Taken(k) \in {0, 1}
    BY DEF Taken
  <2>4. N' <= N
    BY <1>6, <2>1, CountedShrinks
  <2> HIDE DEF N
  <2> QED
    BY <1>1, <2>1, <2>2, <2>3, <2>4
<1> QED
  BY <1>2, <1>3, <1>4, <1>5, <1>6

\* That holds in every reachable state.
LEMMA CapacityInvKept == Spec => []CapacityInv
<1>1. Init => CapacityInv
  BY DEF Init, CapacityInv, SlotPhases, InLaunch, Placing, NoWorker
<1>2. Typed /\ RecordInv /\ SettledInv /\ StrayInv /\ CapacityInv /\ [Next]_vars =>
        CapacityInv'
  BY CountStep, OrderStep DEF CapacityInv
<1> QED
  BY <1>1, <1>2, TypedKept, RecordInvKept, SettledInvKept, StrayInvKept, PTL DEF Spec

\* A worker is begun only while its role has fewer live workers than its
\* capacity, but for those the tick misses: although the list it is counted from
\* is as old as the tick, only this goroutine launches.
THEOREM CapacityIsKept == Spec => CapacityKept
<1>1. Typed /\ CapacityInv /\ [Next]_vars =>
        \A l \in Lanes : Begins(l) => Cardinality(Counted(l[2])) < Capacity[l[2]]
  <2> SUFFICES ASSUME Typed, CapacityInv, [Next]_vars, NEW l \in Lanes, Begins(l)
               PROVE  Cardinality(Counted(l[2])) < Capacity[l[2]]
    OBVIOUS
  <2>1. BeginLaunch
    BY OnlyBeginLaunchBegins DEF Begins
  <2>2. l = target
    BY <2>1, BeginLaunchBegins DEF Begins
  <2>3. /\ l[2] \in Roles /\ slots[l[2]] > 0 /\ pc = "recording"
    BY <2>1, <2>2 DEF BeginLaunch, Typed, TargetReady, InLaunch, Lanes
  <2> DEFINE N == Cardinality(Counted(l[2]))
  <2>4. slots[l[2]] = 0 \/ slots[l[2]] + N <= Capacity[l[2]]
    BY <2>3, CampaignAssumption, CountedCounts
    DEF CapacityInv, SlotPhases, InLaunch, Placing, Taken, CampaignAssumption,
        Typed, TypeOK
  <2>5. N \in Nat /\ slots[l[2]] \in Nat /\ Capacity[l[2]] \in Nat
    BY <2>3, CampaignAssumption, CountedCounts DEF CampaignAssumption, Typed, TypeOK
  <2>6. N < Capacity[l[2]]
    <3> HIDE DEF N
    <3> QED
      BY <2>3, <2>4, <2>5
  <2> QED
    BY <2>6
<1> QED
  BY <1>1, TypedKept, CapacityInvKept, PTL DEF Spec, CapacityKept

-----------------------------------------------------------------------------
\* Blocked roles.

\* No two roles share a provider and MCP server: readiness is kept per
\* provider, so that only then it tells a blocked role from another.
ProvidersDiffer == \A j, k \in Roles : ProviderOf[j] = ProviderOf[k] => j = k

\* From the plan to the end of the tick.
LaunchPhases == {"launch", "refreshing"} \cup InLaunch

\* While run launches, no blocked role's provider counts as proven.
BlockedInv ==
  pc \in LaunchPhases =>
    /\ \A k \in Roles : k \in BlockedRoles => ProviderOf[k] \notin proven
    /\ pc # "launch" => ProviderOf[target[2]] \in proven

\* Between the plan and the end of the tick, roles only cease to be blocked.
LEMMA BlockedShrink ==
  ASSUME RecordInv, Typed, [Next]_vars, ~Plan,
         pc' \in LaunchPhases
  PROVE  /\ pc \in LaunchPhases
         /\ proven' = proven /\ BlockedRoles' \subseteq BlockedRoles
         /\ \/ pc' = "launch"
            \/ pc # "launch" /\ target' = target
            \/ \E l \in Lanes : ChooseLane(l)
<1> USE DEF LaunchPhases, InLaunch, Placing
<1>1. CASE Start
  <2>1. pc = "none"
    BY <1>1 DEF RecordInv, Start
  <2> QED
    BY <1>1, <2>1 DEF Start
<1>2. CASE \/ Stop \/ Close \/ Crash \/ Boot \/ NextTick \/ Finalize
           \/ \E p \in Providers : ProofExpires(p)
           \/ \E l \in Lanes : ShowBackedOff(l) \/ Admit(l)
           \/ \E w \in Workers : Claim(w) \/ EndAttempt(w) \/ Exit(w) \/ Retire(w)
  BY <1>2
  DEF Stop, Close, Crash, Boot, NextTick, Finalize, ProofExpires, ShowBackedOff,
      Admit, Claim, EndAttempt, Exit, Retire, WorldStep, runVars, tickVars,
      BlockedRoles
<1>3. CASE TimePasses
  <2>1. \A l \in Lanes : laneFailure'[l] > 0 => laneFailure[l] > 0
    BY <1>3 DEF TimePasses, Typed, TypeOK
  <2>2. /\ pc' = pc /\ proven' = proven /\ paused' = paused /\ target' = target
    BY <1>3 DEF TimePasses, tickVars
  <2> QED
    BY <2>1, <2>2 DEF BlockedRoles
<1>4. CASE \/ SetupRepositories \/ RefreshPreflights \/ SetRunningStatus
           \/ ListWorkers \/ EndTick \/ ConfirmPendingClaims \/ ObserveQueue
           \/ SettleExits \/ SweepCleanupCandidates \/ FinishTick
  BY <1>4
  DEF SetupRepositories, RefreshPreflights, SetRunningStatus, ListWorkers,
      EndTick, ConfirmPendingClaims, ObserveQueue, SettleExits,
      SweepCleanupCandidates, FinishTick
<1>5. CASE \/ \E l \in Lanes : ChooseLane(l)
           \/ RefreshBase \/ RefuseLaunch \/ PassInspection \/ BeginLaunch
           \/ AllowStart \/ StartProvider
  BY <1>5
  DEF ChooseLane, RefreshBase, RefuseLaunch, PassInspection, BeginLaunch,
      AllowStart, StartProvider, LaunchGoesOn, LaneBackedOff, runVars, tickVars,
      BlockedRoles
<1>6. CASE FinishLaunch \/ FailLaunch
  BY <1>6 DEF FinishLaunch, FailLaunch, LaneBackedOff, BlockedRoles
<1>7. CASE UNCHANGED vars
  BY <1>7 DEF vars, BlockedRoles
<1> QED
  BY <1>1, <1>2, <1>3, <1>4, <1>5, <1>6, <1>7 DEF Next, RunStep

\* Every step keeps blocked roles without a proven provider.
LEMMA BlockedStep ==
  ASSUME ProvidersDiffer, Typed, RecordInv, BlockedInv, [Next]_vars
  PROVE  BlockedInv'
<1> SUFFICES ASSUME pc' \in LaunchPhases
             PROVE  /\ \A k \in Roles : k \in BlockedRoles' => ProviderOf[k] \notin proven'
                    /\ pc' # "launch" => ProviderOf[target'[2]] \in proven'
  BY DEF BlockedInv
<1>1. CASE Plan
  <2>1. /\ pc' = "launch" /\ proven' \subseteq AskedProviders
        /\ BlockedRoles' = BlockedRoles
    BY <1>1 DEF Plan, BlockedRoles
  <2>2. \A k \in Roles : k \in BlockedRoles => ProviderOf[k] \notin AskedProviders
    BY DEF AskedProviders, ProvidersDiffer
  <2> QED
    BY <2>1, <2>2
<1>2. CASE ~Plan
  <2>1. \A k \in Roles : k \in BlockedRoles' => ProviderOf[k] \notin proven'
    BY <1>2, BlockedShrink DEF BlockedInv
  <2>2. ASSUME NEW l \in Lanes, ChooseLane(l) PROVE ProviderOf[target'[2]] \in proven'
    BY <2>2 DEF ChooseLane, Launchable
  <2> QED
    BY <1>2, <2>1, <2>2, BlockedShrink DEF BlockedInv
<1> QED
  BY <1>1, <1>2

\* A role with an exit whose outcome is unknown, or with a failed lane, is not
\* refilled in that tick, provided no two roles share a provider and server
\* (the launch loop looks at the provider's readiness only).
THEOREM BlockedStayEmpty ==
  ASSUME ProvidersDiffer
  PROVE  Spec => BlockedRolesStayEmpty
<1>1. Init => BlockedInv
  BY DEF Init, BlockedInv, LaunchPhases, InLaunch, Placing
<1>2. Typed /\ RecordInv /\ BlockedInv /\ [Next]_vars => BlockedInv'
  BY BlockedStep
<1>3. Typed /\ BlockedInv /\ [Next]_vars =>
        \A l \in Lanes : Begins(l) => l[2] \notin BlockedRoles
  <2> SUFFICES ASSUME Typed, BlockedInv, [Next]_vars, NEW l \in Lanes, Begins(l)
               PROVE  l[2] \notin BlockedRoles
    OBVIOUS
  <2>1. BeginLaunch
    BY OnlyBeginLaunchBegins DEF Begins
  <2>2. l = target
    BY <2>1, BeginLaunchBegins DEF Begins
  <2>3. l[2] \in Roles
    BY DEF Lanes
  <2> QED
    BY <2>1, <2>2, <2>3 DEF BeginLaunch, BlockedInv, LaunchPhases, InLaunch
<1> QED
  BY <1>1, <1>2, <1>3, TypedKept, RecordInvKept, PTL DEF Spec, BlockedRolesStayEmpty

=============================================================================
