------------------------------- MODULE Worker -------------------------------
(* One managed worker, from its launch to the end of its cleanup.          *)
(*                                                                         *)
(* A manager (internal/worker) owns a durable record, an isolated          *)
(* workspace, a retained terminal and, in the terminal, a provider.  It    *)
(* serialises its operations behind a mutex, so a manager runs one         *)
(* operation at a time; the node and a command of the CLI are two managers *)
(* over the same state directory.  An operation reads the record once and  *)
(* works, one external command after the other, on the copy it read; the   *)
(* provider, the terminal and the manager's death take their own steps in  *)
(* between.                                                                *)
(*                                                                         *)
(* Worker identities are random, so nothing here relates two workers.      *)
EXTENDS Naturals

CONSTANTS
  Managers,   \* processes holding a worker.Manager on the state directory
  Adapters,   \* the execution adapters a launch may ask for
  Ignores     \* whether the repository's own ignore rules cover .agents/

ASSUME ManagersAssumption == Managers # {}
ASSUME SettingsAssumption == Adapters \subseteq {"host", "oci"} /\ Ignores \subseteq BOOLEAN

VARIABLES
  setting,    \* the adapter of the worker, and what its repository ignores
  record,     \* the worker's record on disk
  workspace,  \* absent, torn (Git reports missing files) or whole
  dirty,      \* uncommitted work of the provider is in the workspace
  unkept,     \* the worker's branch has commits its source lacks
  skills,     \* Cockpit-owned skill files are in the workspace
  helper,     \* the private .agents/bin helper is in the workspace
  target,     \* the pull-request marker: none, bound, or left behind by HEAD
  provider,   \* the provider (for oci, its container) is running
  terminal,   \* the worker's tmux server is up
  unseen,     \* history: when last asked, tmux did not say that it is up
  job,        \* per manager: its operation, where it is, the record it read
  faults      \* commands may still fail, callers give up and managers die

ambient == <<setting, faults>>
files == <<workspace, dirty, unkept, skills, helper, target>>
processes == <<provider, terminal, unseen>>
vars == <<setting, record, files, processes, job, faults>>

Statuses == {"allocating", "running", "failed", "stopped", "cleaned"}
Records == [status : Statuses, kit : BOOLEAN, bound : BOOLEAN]
NoRecord == [status |-> "none", kit |-> FALSE, bound |-> FALSE]

Requests == {"look", "stop", "cleanup"}
LaunchSteps == {"allocate", "checkout", "kit", "equip", "start", "finish"}
RequestSteps == {"sync", "inspect", "container", "terminal", "skills",
                 "retain", "remove", "finish"}
\* clear: a cleanup found a workspace to remove.
Jobs == [op : {"launch"}, at : LaunchSteps, rec : Records, clear : BOOLEAN]
          \cup [op : Requests, at : RequestSteps, rec : Records, clear : BOOLEAN]
NoJob == [op |-> "none", at |-> "idle", rec |-> NoRecord, clear |-> FALSE]

OCI == setting.adapter = "oci"

\* Every record written has one of the five statuses the manager knows
\* (worker.go:43-48), and every operation holds a copy of such a record.
TypeOK ==
  /\ setting \in [adapter : Adapters, ignores : Ignores]
  /\ record \in Records \cup {NoRecord}
  /\ workspace \in {"absent", "torn", "whole"}
  /\ dirty \in BOOLEAN /\ unkept \in BOOLEAN
  /\ skills \in BOOLEAN /\ helper \in BOOLEAN
  /\ target \in {"none", "bound", "strayed"}
  /\ provider \in BOOLEAN /\ terminal \in BOOLEAN /\ unseen \in BOOLEAN
  /\ job \in [Managers -> Jobs \cup {NoJob}]
  /\ faults \in BOOLEAN

Init ==
  /\ setting \in [adapter : Adapters, ignores : Ignores]
  /\ record = NoRecord
  /\ workspace = "absent" /\ dirty = FALSE /\ unkept = FALSE
  /\ skills = FALSE /\ helper = FALSE /\ target = "none"
  /\ provider = FALSE /\ terminal = FALSE /\ unseen = FALSE
  /\ job = [p \in Managers |-> NoJob]
  /\ faults = TRUE

At(p, op, at) == job[p].op = op /\ job[p].at = at
Go(p, at) == job' = [job EXCEPT ![p].at = at]
Return(p) == job' = [job EXCEPT ![p] = NoJob]

\* An operation's write installs the whole of its own copy.
Write(rec) == record' = rec

\* Launch records the failure and retains whatever it made.  The write itself
\* may fail, and the record then stays as it was.
Fail(p, rec) ==
  /\ record' \in {record, [rec EXCEPT !.status = "failed"]}
  /\ Return(p)

-----------------------------------------------------------------------------
(* Launch.                                                                 *)

\* The checks passed and the first record is on disk.  (Otherwise nothing
\* was made, and the next launch has another identity.)
BeginLaunch(p) ==
  /\ job[p] = NoJob /\ record = NoRecord
  /\ LET rec == [NoRecord EXCEPT !.status = "allocating"] IN
       /\ Write(rec)
       /\ job' = [job EXCEPT ![p] = [op |-> "launch", at |-> "allocate",
                                     rec |-> rec, clear |-> FALSE]]
  /\ UNCHANGED <<ambient, files, processes>>

\* A linked worktree is added in one Git command; a self-contained clone is
\* made without its files, and checked out by a second one.
Allocate(p) ==
  /\ At(p, "launch", "allocate")
  /\ \/ OCI /\ workspace' = "torn" /\ Go(p, "checkout")
     \/ ~OCI /\ workspace' = "whole" /\ Go(p, "kit")
  /\ UNCHANGED <<ambient, record, dirty, unkept, skills, helper, target, processes>>

Checkout(p) ==
  /\ At(p, "launch", "checkout")
  /\ workspace' = "whole"
  /\ Go(p, "kit")
  /\ UNCHANGED <<ambient, record, dirty, unkept, skills, helper, target, processes>>

AllocationFails(p) ==
  /\ At(p, "launch", "allocate") \/ At(p, "launch", "checkout")
  /\ Fail(p, job[p].rec)
  /\ UNCHANGED <<ambient, files, processes>>

\* Mutant: the kit goes to disk with the launch's last write.
KitRecordedLater(p) ==
  /\ At(p, "launch", "kit")
  /\ job' = [job EXCEPT ![p] = [@ EXCEPT !.at = "equip", !.rec.kit = TRUE]]
  /\ UNCHANGED <<ambient, record, files, processes>>

\* The kit the workspace is about to be given goes to disk before it does.
RecordKit(p) ==
  /\ At(p, "launch", "kit")
  /\ LET rec == [job[p].rec EXCEPT !.kit = TRUE] IN
       /\ Write(rec)
       /\ job' = [job EXCEPT ![p] = [@ EXCEPT !.at = "equip", !.rec = rec]]
  /\ UNCHANGED <<ambient, files, processes>>

KitFails(p) ==
  /\ At(p, "launch", "kit")
  /\ \E kit \in BOOLEAN : Fail(p, [job[p].rec EXCEPT !.kit = kit])
  /\ UNCHANGED <<ambient, files, processes>>

\* Skills (none for a checkout that carries them itself), the helper, the
\* exclusions and the tools.
Equip(p) ==
  /\ At(p, "launch", "equip")
  /\ skills' \in BOOLEAN
  /\ helper' = TRUE
  /\ Go(p, "start")
  /\ UNCHANGED <<ambient, record, workspace, dirty, unkept, target, processes>>

EquipFails(p) ==
  /\ At(p, "launch", "equip")
  /\ skills' \in BOOLEAN /\ helper' \in BOOLEAN
  /\ Fail(p, job[p].rec)
  /\ UNCHANGED <<ambient, workspace, dirty, unkept, target, processes>>

Start(p) ==
  /\ At(p, "launch", "start")
  /\ provider' = TRUE /\ terminal' = TRUE
  /\ Go(p, "finish")
  /\ UNCHANGED <<ambient, record, files, unseen>>

\* The kit moved, or tmux returned an error: before its server was up, after
\* that, or (the caller gave up) when the provider was already running.
StartFails(p) ==
  /\ At(p, "launch", "start")
  /\ terminal' \in BOOLEAN /\ provider' \in BOOLEAN /\ (provider' => terminal')
  /\ Fail(p, job[p].rec)
  /\ UNCHANGED <<ambient, files, unseen>>

FinishLaunch(p) ==
  /\ At(p, "launch", "finish")
  /\ record' \in {record, [job[p].rec EXCEPT !.status = "running"]}
  /\ Return(p)
  /\ UNCHANGED <<ambient, files, processes>>

-----------------------------------------------------------------------------
(* Look (List, Get), Stop and Cleanup begin alike: read the record, then   *)
(* bring a prepared pull-request target into it.                           *)

Begin(p, op) ==
  /\ job[p] = NoJob /\ record # NoRecord
  /\ job' = [job EXCEPT ![p] = [op |-> op, at |-> "sync", rec |-> record, clear |-> FALSE]]
  /\ UNCHANGED <<ambient, record, files, processes>>

\* What an operation does once its copy is in step with the workspace.
Continue(p, rec) ==
  LET next(at) == [job[p] EXCEPT !.at = at, !.rec = rec]
  IN  job' = [job EXCEPT ![p] =
        CASE job[p].op = "look" -> NoJob
          [] job[p].op = "stop" -> IF rec.status = "cleaned" THEN NoJob ELSE next("container")
          [] job[p].op = "cleanup" -> IF rec.status = "cleaned" THEN NoJob ELSE next("inspect")]

Syncing(p) == job[p].op \in Requests /\ job[p].at = "sync"

SyncNothing(p) ==
  /\ Syncing(p)
  /\ job[p].rec.bound \/ target = "none"
  /\ Continue(p, job[p].rec)
  /\ UNCHANGED <<ambient, record, files, processes>>

SyncTarget(p) ==
  /\ Syncing(p)
  /\ ~job[p].rec.bound /\ target = "bound"
  /\ LET rec == [job[p].rec EXCEPT !.bound = TRUE] IN
       Write(rec) /\ Continue(p, rec)
  /\ UNCHANGED <<ambient, files, processes>>

\* Mutant: the marker is checked again after it was recorded.
TargetCheckedAgain(p) ==
  /\ Syncing(p) /\ target = "strayed"
  /\ Return(p)
  /\ UNCHANGED <<ambient, record, files, processes>>

\* HEAD is no longer where the marker says: the operation ends here.
SyncRefused(p) ==
  /\ Syncing(p)
  /\ ~job[p].rec.bound /\ target = "strayed"
  /\ Return(p)
  /\ UNCHANGED <<ambient, record, files, processes>>

\* A step of a request returns an error (a command does once the caller has
\* given up, but see Unanswered and TerminalUnseen), or the manager dies in any
\* operation: what was done stays done.
Interrupted(p) ==
  /\ faults /\ job[p] # NoJob
  /\ Return(p)
  /\ UNCHANGED <<ambient, record, files, processes>>

-----------------------------------------------------------------------------
(* Cleanup's checks, and the terminal both Stop and Cleanup close.         *)

\* reconcile: the pane tells whether a worker recorded as running still is.
Busy(rec) ==
  \/ rec.status = "allocating"
  \/ rec.status = "running" /\ terminal /\ provider

\* Where that cannot be asked, reconcile takes the worker for failed.
Unanswered(rec) == faults /\ rec.status = "running"

\* Mutants: edits are not looked for; a missing workspace is no clean one.
EditsOverlooked == workspace = "torn"
MissingIsUnclean == workspace # "whole" \/ dirty

\* git status, run with the worker's exclusions.
Unclean == workspace = "torn" \/ (workspace = "whole" /\ dirty)

InspectPasses(p) ==
  /\ At(p, "cleanup", "inspect")
  /\ ~Busy(job[p].rec) \/ Unanswered(job[p].rec)
  /\ ~Unclean
  /\ job' = [job EXCEPT ![p] = [@ EXCEPT !.at = "container", !.clear = workspace # "absent"]]
  /\ UNCHANGED <<ambient, record, files, processes>>

InspectRefuses(p) ==
  /\ At(p, "cleanup", "inspect")
  /\ Busy(job[p].rec) \/ Unclean
  /\ Return(p)
  /\ UNCHANGED <<ambient, record, files, processes>>

\* Mutant: the terminal is closed, the container is not.
ContainerLeft(p) ==
  /\ job[p].at = "container"
  /\ Go(p, "terminal")
  /\ UNCHANGED <<ambient, record, files, processes>>

StopContainer(p) ==
  /\ job[p].at = "container"
  /\ provider' = (provider /\ ~OCI)
  /\ Go(p, "terminal")
  /\ UNCHANGED <<ambient, record, files, terminal, unseen>>

PastTerminal(p) == Go(p, IF job[p].clear THEN "skills" ELSE "finish")

StopTerminal(p) ==
  /\ job[p].at = "terminal"
  /\ terminal' = FALSE /\ unseen' = FALSE
  /\ provider' = (provider /\ OCI)
  /\ PastTerminal(p)
  /\ UNCHANGED <<ambient, record, files>>

\* tmux is not found or has-session fails, as it does once the caller has given
\* up: that counts as no terminal, and the operation goes on.
TerminalUnseen(p) ==
  /\ faults /\ job[p].at = "terminal"
  /\ unseen' = terminal
  /\ PastTerminal(p)
  /\ UNCHANGED <<ambient, record, files, provider, terminal>>

FinishStop(p) ==
  /\ At(p, "stop", "finish")
  /\ Write([job[p].rec EXCEPT !.status = "stopped"])
  /\ Return(p)
  /\ UNCHANGED <<ambient, files, processes>>

-----------------------------------------------------------------------------
(* Cleanup removes the workspace.                                          *)

\* A skill file that is not the recorded one is refused (Interrupted), or
\* removed when the operator asked for that.
RemoveSkills(p) ==
  /\ At(p, "cleanup", "skills")
  /\ skills' = FALSE
  /\ Go(p, "retain")
  /\ UNCHANGED <<ambient, record, workspace, dirty, unkept, helper, target, processes>>

WorkspaceGone ==
  /\ workspace' = "absent" /\ dirty' = FALSE /\ skills' = FALSE
  /\ helper' = FALSE /\ target' = "none"

\* git worktree remove runs without the worker's exclusions: untracked files
\* that only they hide make it refuse, as uncommitted work does.
Untracked == helper \/ skills \/ target # "none"

RemoveWorktree(p) ==
  /\ At(p, "cleanup", "retain") /\ ~OCI
  /\ workspace = "whole" /\ ~dirty
  /\ Untracked => setting.ignores
  /\ WorkspaceGone
  /\ Go(p, "finish")
  /\ UNCHANGED <<ambient, record, unkept, processes>>

WorktreeRefused(p) ==
  /\ At(p, "cleanup", "retain") /\ ~OCI
  /\ workspace = "absent" \/ dirty \/ (Untracked /\ ~setting.ignores)
  /\ Return(p)
  /\ UNCHANGED <<ambient, record, files, processes>>

\* Mutant: the clone goes without its branch being fetched.
FetchSkipped(p) ==
  /\ At(p, "cleanup", "retain") /\ OCI
  /\ Go(p, "remove")
  /\ UNCHANGED <<ambient, record, files, processes>>

FetchBranch(p) ==
  /\ At(p, "cleanup", "retain") /\ OCI
  /\ workspace = "whole"
  /\ unkept' = FALSE
  /\ Go(p, "remove")
  /\ UNCHANGED <<ambient, record, workspace, dirty, skills, helper, target, processes>>

RemoveClone(p) ==
  /\ At(p, "cleanup", "remove")
  /\ WorkspaceGone
  /\ Go(p, "finish")
  /\ UNCHANGED <<ambient, record, unkept, processes>>

\* Mutant: the error of the removal is dropped.
RemoveErrorDropped(p) ==
  /\ faults /\ At(p, "cleanup", "remove")
  /\ workspace' = "torn"
  /\ Go(p, "finish")
  /\ UNCHANGED <<ambient, record, dirty, unkept, skills, helper, target, processes>>

\* os.RemoveAll gives up, or the manager dies, when part of it is gone.
RemoveCloneFails(p) ==
  /\ faults /\ At(p, "cleanup", "remove")
  /\ workspace' = "torn"
  /\ Return(p)
  /\ UNCHANGED <<ambient, record, dirty, unkept, skills, helper, target, processes>>

\* Mutant: the record says what was done, in a status of its own.
StatusUnknown(p) ==
  /\ At(p, "cleanup", "finish")
  /\ Write([job[p].rec EXCEPT !.status = "removed"])
  /\ Return(p)
  /\ UNCHANGED <<ambient, files, processes>>

FinishCleanup(p) ==
  /\ At(p, "cleanup", "finish")
  /\ Write([job[p].rec EXCEPT !.status = "cleaned"])
  /\ Return(p)
  /\ UNCHANGED <<ambient, files, processes>>

-----------------------------------------------------------------------------
(* The provider at work, and the terminal's own end.                       *)

Working == provider /\ workspace = "whole"

Edit ==
  /\ Working /\ dirty' = TRUE
  /\ UNCHANGED <<ambient, record, workspace, unkept, skills, helper, target, processes, job>>

\* A worktree's branch is in the source already; a clone's is not.
Commit ==
  /\ Working /\ dirty
  /\ dirty' = FALSE /\ unkept' = OCI
  /\ UNCHANGED <<ambient, record, workspace, skills, helper, target, processes, job>>

\* worker target: puts a clean workspace on the bound head and marks it.
PrepareTarget ==
  /\ Working /\ ~dirty /\ helper /\ target = "none"
  /\ target' = "bound"
  /\ unkept' \in {unkept, OCI}
  /\ UNCHANGED <<ambient, record, workspace, dirty, skills, helper, processes, job>>

\* The provider leaves the prepared branch or head, or comes back to it.
MoveHead ==
  /\ Working /\ target # "none"
  /\ target' \in {"bound", "strayed"} \ {target}
  /\ UNCHANGED <<ambient, record, workspace, dirty, unkept, skills, helper, processes, job>>

ProviderExits ==
  /\ provider
  /\ provider' = FALSE
  /\ UNCHANGED <<ambient, record, files, terminal, unseen, job>>

\* A container may outlive the terminal its client ran in.
TerminalDies ==
  /\ terminal
  /\ terminal' = FALSE
  /\ provider' \in {FALSE, provider /\ OCI}
  /\ UNCHANGED <<ambient, record, files, unseen, job>>

-----------------------------------------------------------------------------
Launch(p) ==
  \/ BeginLaunch(p) \/ Allocate(p) \/ Checkout(p) \/ AllocationFails(p)
  \/ RecordKit(p) \/ KitFails(p) \/ Equip(p) \/ EquipFails(p)
  \/ Start(p) \/ StartFails(p) \/ FinishLaunch(p)

Closing(p) == StopContainer(p) \/ StopTerminal(p) \/ TerminalUnseen(p) \/ FinishStop(p)

Cleaning(p) ==
  \/ InspectPasses(p) \/ InspectRefuses(p) \/ RemoveSkills(p)
  \/ RemoveWorktree(p) \/ WorktreeRefused(p) \/ FetchBranch(p) \/ RemoveClone(p) \/ RemoveCloneFails(p) \/ FinishCleanup(p)

Manage(p) ==
  \/ Launch(p) \/ Closing(p) \/ Cleaning(p) \/ Interrupted(p)
  \/ \E op \in Requests : Begin(p, op)
  \/ SyncNothing(p) \/ SyncTarget(p) \/ SyncRefused(p)

Provide == Edit \/ Commit \/ PrepareTarget \/ MoveHead \/ ProviderExits \/ TerminalDies

\* From some moment on the node is well: a device of the liveness properties.
FaultsEnd ==
  /\ faults /\ faults' = FALSE
  /\ UNCHANGED <<setting, record, files, processes, job>>

Next == (\E p \in Managers : Manage(p)) \/ Provide \/ FaultsEnd

Spec == Init /\ [][Next]_vars

\* The operator, or the campaign, keeps asking for both; an operation that
\* began goes on; failing commands and dying managers come to an end.  Nothing
\* is assumed of the provider.
Proceed(p) ==
  \/ Launch(p) /\ job[p] # NoJob
  \/ SyncNothing(p) \/ SyncTarget(p) \/ SyncRefused(p)
  \/ Closing(p) \/ Cleaning(p)

Persistence(p) ==
  /\ SF_vars(Begin(p, "stop"))
  /\ SF_vars(Begin(p, "cleanup"))
  /\ WF_vars(Proceed(p))

FairSpec == Spec /\ WF_vars(FaultsEnd) /\ \A p \in Managers : Persistence(p)

-----------------------------------------------------------------------------
(* Properties.                                                             *)

\* Commits on the worker's branch are never the only copy in a workspace that
\* was removed, wholly or in part: the fetch before the removal has them all.
WorkIsRetained == unkept => workspace = "whole"

\* A stopped or cleaned worker runs nothing, in whatever state Stop found it: no
\* container survives the record that says so, and a terminal, with a host
\* provider in it, only where tmux did not say that it was there.
NothingRunsAfterStop ==
  record.status \in {"stopped", "cleaned"} =>
    /\ OCI => ~provider
    /\ ~unseen => ~provider /\ ~terminal

\* Skill files are in a workspace only under a record that names their kit, so
\* that cleanup can always tell them from the provider's own.
KitIsRecordedFirst == skills => record.kit

\* A cleaned worker's workspace is gone, whichever removal, crash or lost write
\* its last cleanup came after.
CleanedIsGone == record.status = "cleaned" => workspace = "absent" /\ ~unkept

\* Uncommitted work is lost only to a cleanup that read a record of a failed
\* or running worker: never once a Stop was recorded, and never on the host.
StoppedWorkIsKept ==
  [][ dirty /\ workspace' # workspace
        => OCI /\ \E p \in Managers : job[p].rec.status \in {"failed", "running"} ]_vars

\* A stopped worker that runs nothing and has nothing uncommitted is cleaned in
\* the end, whatever commands failed on the way, unless a removal was left half
\* done or the repository shows Git the files only Cockpit hides.
Cleanable ==
  /\ record.status = "stopped" /\ ~provider /\ workspace = "whole" /\ ~dirty
  /\ target = "strayed" => record.bound
CleanupConverges ==
  Cleanable /\ (OCI \/ setting.ignores) ~> (record.status = "cleaned" \/ workspace = "torn")

\* "Clean a non-running worker workspace": a stopped host worker with nothing
\* uncommitted is cleaned in the end, in any repository.
HostCleanupConverges == Cleanable /\ ~OCI ~> record.status = "cleaned"

\* Once the target is on record, a stop gets through wherever HEAD goes, unless
\* a cleanup went over a terminal that tmux did not show it: no stop is taken
\* of a cleaned worker.
BoundStopIsHonoured ==
  provider /\ record.bound ~> ~provider \/ (record.status = "cleaned" /\ unseen)
=============================================================================
