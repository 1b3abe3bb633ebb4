--------------------------- MODULE CampaignRecord ---------------------------
(***************************************************************************)
(* The one campaign record of a node: the controller's copy, the file      *)
(* campaign.json, the halt latch and the context of the running campaign   *)
(* (internal/campaign/campaign.go).  Every write goes to a temporary file  *)
(* that is renamed, so the file holds the old record or the new one.       *)
(***************************************************************************)
CONSTANT
  WritesFail  \* may a write of campaign.json fail?

ASSUME RecordAssumption == WritesFail \in BOOLEAN

VARIABLES
  record,       \* controller.record: its status and what its detail says
  disk,         \* the record in campaign.json
  stateFailed,  \* controller.stateFailed
  ctx           \* the campaign's context: "none" while controller.cancel is nil

recordVars == <<record, disk, stateFailed, ctx>>

ActiveStatus == {"starting", "running", "degraded", "stopping"}
Details == {"plain",        \* the usual text of that status
            "interrupted",  \* a node restart ended the campaign
            "halted",       \* haltedDetail
            "stale"}        \* stoppedAfterStateFailureDetail
Records == [status : ActiveStatus \cup {"stopped", "never-run"}, detail : Details]

Rec(status, detail) == [status |-> status, detail |-> detail]
IsActive(r) == r.status \in ActiveStatus

RecordTypeOK ==
  /\ record \in Records /\ disk \in Records
  /\ stateFailed \in BOOLEAN
  /\ ctx \in {"none", "live", "cancelled"}

RecordInit ==
  /\ record = Rec("never-run", "plain") /\ disk = record
  /\ stateFailed = FALSE
  /\ ctx = "none"

-----------------------------------------------------------------------------
NotCancelled == UNCHANGED ctx  \* Mutant: the context is forgotten
Cancel == ctx' = IF ctx = "live" THEN "cancelled" ELSE ctx

\* haltLocked: what becomes of a record whose write failed.
Halted(r) == IF IsActive(r) THEN Rec("degraded", "halted")
             ELSE [r EXCEPT !.detail = "stale"]

\* A write that fails halts the campaign and leaves one of these on disk.
Unsaved(r, left) ==
  /\ WritesFail
  /\ record' = Halted(r) /\ stateFailed' = TRUE
  /\ disk' \in left
  /\ Cancel

Saved(r) == record' = r /\ disk' = r /\ UNCHANGED <<stateFailed, ctx>>

\* The record becomes r and persistLocked writes it, once, or many times over
\* (after a write that failed a later one may succeed).
FailureDiscarded(r) ==  \* Mutant: the error of the write is dropped
  /\ record' = r /\ UNCHANGED <<stateFailed, ctx>>
  /\ disk' \in {r} \cup (IF WritesFail THEN {disk} ELSE {})
Persist(r) == Saved(r) \/ Unsaved(r, {disk})
PersistAll(r) == Saved(r) \/ Unsaved(r, {disk, r, Halted(r)})

-----------------------------------------------------------------------------
\* Start, once its guards have passed, up to the goroutine it starts.
StartWritten ==
  /\ record' = Rec("starting", "plain") /\ disk' = record'
  /\ stateFailed' = FALSE /\ ctx' = "live"

\* The initial write fails: Start returns the error and leaves the record.
StartUnwritten ==
  /\ WritesFail
  /\ record' = Rec("starting", "plain")
  /\ UNCHANGED <<disk, stateFailed, ctx>>

\* Stop of an active campaign: a failed write is returned, not latched.
StopRecord ==
  /\ IsActive(record)
  /\ record' = Rec("stopping", "plain")
  /\ disk' \in {record'} \cup (IF WritesFail THEN {disk} ELSE {})
  /\ Cancel /\ UNCHANGED stateFailed

\* finalizeStopped.
ReasonDropped == Rec("stopped", "plain")  \* Mutant: stateFailed is not looked at
FinalRecord == Rec("stopped", IF stateFailed THEN "stale" ELSE "plain")

FinalizeStopped ==
  /\ \/ record' = FinalRecord /\ disk' = record' /\ UNCHANGED stateFailed
     \/ /\ WritesFail
        /\ record' = Halted(FinalRecord) /\ stateFailed' = TRUE
        /\ UNCHANGED disk
  /\ ctx' = "none"

\* New, in a process just started: a campaign that was active is stopped.
ResumesActive == disk  \* Mutant: the durable record is taken as it is
Reopened == IF IsActive(disk) THEN Rec("stopped", "interrupted") ELSE disk

OpenRecord ==
  /\ record' = Reopened /\ disk' = record'
  /\ stateFailed' = FALSE /\ ctx' = "none"

\* degrade overwrites whatever the status is.
Degrade == Persist(Rec("degraded", "plain"))

\* setRunningStatus and setReconciledStatus leave a stopping campaign alone.
SetStatus(status) ==
  IF record.status = "stopping" THEN UNCHANGED recordVars
  ELSE Persist(Rec(status, "plain"))
=============================================================================
