---------------------------- MODULE WorkerProofs ----------------------------
(* Proofs about Worker, for one manager: any adapter, any repository, any  *)
(* order of provider, terminal, failures and requests.                     *)
EXTENDS Worker, TLAPS

-----------------------------------------------------------------------------
(* Types, for any managers.                                                *)

\* The part of the state whose type a manager's step has to keep with care.
Durable == record \in Records \cup {NoRecord} /\ job \in [Managers -> Jobs \cup {NoJob}]

\* Whatever follows the reading of the target, the job stays one.
LEMMA ContinueTypes ==
  ASSUME TypeOK, NEW p \in Managers, NEW rec \in Records,
         job[p].op \in Requests, Continue(p, rec)
  PROVE  job' \in [Managers -> Jobs \cup {NoJob}]
<1>1. job \in [Managers -> Jobs \cup {NoJob}] /\ job[p] \in Jobs
  BY DEF TypeOK, Jobs, NoJob, Requests
<1>2. \A at \in RequestSteps : [job[p] EXCEPT !.at = at, !.rec = rec] \in Jobs
  BY <1>1 DEF Jobs, Requests
<1>3. \E j \in Jobs \cup {NoJob} : job' = [job EXCEPT ![p] = j]
  <2>1. CASE job[p].op = "look"
    BY <2>1 DEF Continue
  <2>2. CASE job[p].op = "stop"
    BY <1>2, <2>2 DEF Continue, RequestSteps
  <2>3. CASE job[p].op = "cleanup"
    BY <1>2, <2>3 DEF Continue, RequestSteps
  <2> QED  BY <2>1, <2>2, <2>3 DEF Requests
<1> QED  BY <1>1, <1>3

\* A manager's step keeps the types of the record on disk and of its own job.
LEMMA DurableStep ==
  ASSUME TypeOK, NEW p \in Managers, Manage(p)
  PROVE  Durable'
<1> USE DEF TypeOK, Durable, At, Go, Return, Write, Fail, Records, NoRecord, Jobs,
            NoJob, Statuses, Requests, LaunchSteps, RequestSteps
<1>1. CASE BeginLaunch(p)
  BY <1>1 DEF BeginLaunch
<1>2. CASE Allocate(p)
  BY <1>2 DEF Allocate
<1>3. CASE Checkout(p)
  BY <1>3 DEF Checkout
<1>4. CASE AllocationFails(p)
  BY <1>4 DEF AllocationFails
<1>5. CASE RecordKit(p)
  <2> DEFINE rec == [job[p].rec EXCEPT !.kit = TRUE]
  <2>1. job[p] \in Jobs /\ job[p].op = "launch" /\ job[p].rec \in Records
    BY <1>5 DEF RecordKit
  <2>2. rec \in Records
    BY <2>1
  <2>3. [job[p] EXCEPT !.at = "equip", !.rec = rec] \in Jobs
    <3> HIDE DEF rec
    <3> QED  BY <2>1, <2>2
  <2> QED  BY <1>5, <2>2, <2>3 DEF RecordKit
<1>6. CASE KitFails(p)
  <2>1. job[p].rec \in Records
    BY <1>6 DEF KitFails
  <2>2. ASSUME NEW kit \in BOOLEAN
        PROVE  [[job[p].rec EXCEPT !.kit = kit] EXCEPT !.status = "failed"] \in Records
    BY <2>1
  <2> QED  BY <1>6, <2>2 DEF KitFails
<1>7. CASE Equip(p)
  BY <1>7 DEF Equip
<1>8. CASE EquipFails(p)
  BY <1>8 DEF EquipFails
<1>9. CASE Start(p)
  BY <1>9 DEF Start
<1>10. CASE StartFails(p)
  BY <1>10 DEF StartFails
<1>11. CASE FinishLaunch(p)
  BY <1>11 DEF FinishLaunch
<1>12. CASE StopContainer(p)
  BY <1>12 DEF StopContainer
<1>13. CASE StopTerminal(p)
  BY <1>13 DEF StopTerminal, PastTerminal
<1>14. CASE TerminalUnseen(p) \/ FinishStop(p)
  BY <1>14 DEF TerminalUnseen, PastTerminal, FinishStop
<1>15. CASE InspectPasses(p)
  <2> DEFINE c == workspace # "absent"
  <2>1. job[p] \in Jobs /\ job[p].op = "cleanup"
    BY <1>15 DEF InspectPasses
  <2>2. [job[p] EXCEPT !.at = "container", !.clear = c] \in Jobs
    <3>1. c \in BOOLEAN
      OBVIOUS
    <3> HIDE DEF c
    <3> QED  BY <2>1, <3>1
  <2> QED  BY <1>15, <2>2 DEF InspectPasses
<1>16. CASE InspectRefuses(p)
  BY <1>16 DEF InspectRefuses
<1>17. CASE RemoveSkills(p)
  BY <1>17 DEF RemoveSkills
<1>18. CASE RemoveWorktree(p)
  BY <1>18 DEF RemoveWorktree
<1>19. CASE WorktreeRefused(p)
  BY <1>19 DEF WorktreeRefused
<1>20. CASE FetchBranch(p)
  BY <1>20 DEF FetchBranch
<1>21. CASE RemoveClone(p)
  BY <1>21 DEF RemoveClone
<1>22. CASE RemoveCloneFails(p)
  BY <1>22 DEF RemoveCloneFails
<1>23. CASE FinishCleanup(p)
  BY <1>23 DEF FinishCleanup
<1>24. CASE Interrupted(p)
  BY <1>24 DEF Interrupted
<1>25. CASE \E op \in Requests : Begin(p, op)
  BY <1>25 DEF Begin
<1>26. CASE SyncNothing(p)
  <2>1. job[p].rec \in Records /\ job[p].op \in Requests
    BY <1>26 DEF SyncNothing, Syncing
  <2> QED  BY <1>26, <2>1, ContinueTypes DEF SyncNothing
<1>27. CASE SyncTarget(p)
  <2> DEFINE rec == [job[p].rec EXCEPT !.bound = TRUE]
  <2>1. job[p].rec \in Records /\ job[p].op \in Requests
    BY <1>27 DEF SyncTarget, Syncing
  <2>2. rec \in Records
    BY <2>1
  <2>3. record' = rec /\ Continue(p, rec)
    BY <1>27 DEF SyncTarget
  <2> QED  BY <2>1, <2>2, <2>3, ContinueTypes
<1>28. CASE SyncRefused(p)
  BY <1>28 DEF SyncRefused
<1> QED
  BY <1>1, <1>2, <1>3, <1>4, <1>5, <1>6, <1>7, <1>8, <1>9, <1>10, <1>11, <1>12, <1>13, <1>14, <1>15, <1>16, <1>17, <1>18, <1>19, <1>20, <1>21, <1>22, <1>23, <1>24, <1>25, <1>26, <1>27, <1>28
  DEF Manage, Launch, Closing, Cleaning

\* Any step keeps the type of every other variable, for these are assigned
\* whole values and read by nobody's copy.
LEMMA RestStep ==
  ASSUME TypeOK, Next
  PROVE  Durable' => TypeOK'
<1> USE DEF TypeOK, Durable, ambient, files, processes
<1>1. ASSUME NEW p \in Managers, Manage(p)
      PROVE  Durable' => TypeOK'
  <2>1. CASE Launch(p)
    BY <2>1 DEF Launch, BeginLaunch, Allocate, Checkout, AllocationFails, RecordKit, KitFails,
                Equip, EquipFails, Start, StartFails, FinishLaunch
  <2>2. CASE Closing(p)
    BY <2>2 DEF Closing, StopContainer, StopTerminal, TerminalUnseen, FinishStop
  <2>3. CASE Cleaning(p)
    BY <2>3 DEF Cleaning, InspectPasses, InspectRefuses, RemoveSkills, RemoveWorktree,
                WorktreeRefused, FetchBranch, RemoveClone, RemoveCloneFails, FinishCleanup,
                WorkspaceGone
  <2>4. CASE Interrupted(p) \/ SyncNothing(p) \/ SyncTarget(p) \/ SyncRefused(p)
             \/ \E op \in Requests : Begin(p, op)
    BY <2>4 DEF Interrupted, SyncNothing, SyncTarget, SyncRefused, Begin
  <2> QED  BY <1>1, <2>1, <2>2, <2>3, <2>4 DEF Manage
<1>2. CASE Provide
  BY <1>2 DEF Provide, Edit, Commit, PrepareTarget, MoveHead, ProviderExits, TerminalDies, OCI
<1>3. CASE FaultsEnd
  BY <1>3 DEF FaultsEnd
<1> QED  BY <1>1, <1>2, <1>3 DEF Next

OneManager == \A p, q \in Managers : p = q

\* The copy an operation works on is the record.
CopyIsCurrent == \A p \in Managers : job[p] # NoJob => job[p].rec = record

\* Before the launch writes its first record there is nothing.
NothingYet ==
  record = NoRecord =>
    /\ workspace = "absent" /\ ~dirty /\ ~unkept /\ ~skills
    /\ ~provider /\ ~terminal
    /\ \A p \in Managers : job[p] = NoJob

\* Until its last step a launch has started nothing, and until its kit is on
\* disk it has installed nothing.
LaunchingOK(j) ==
  j.op = "launch" =>
    /\ j.rec.status = "allocating"
    /\ j.at # "finish" => ~provider /\ ~terminal /\ ~dirty /\ ~unkept
    /\ j.at \in {"allocate", "checkout", "kit"} => ~skills
    /\ j.at \in {"equip", "start", "finish"} => j.rec.kit

\* What a stop or a cleanup has closed stays closed: the container, once it was
\* stopped, and the terminal, unless tmux did not say that it was there.
ClosingOK(j) ==
  j.op \in {"stop", "cleanup"} =>
    /\ j.at \in {"terminal", "skills", "retain", "remove", "finish"} /\ OCI => ~provider
    /\ j.at \in {"skills", "retain", "remove", "finish"} /\ ~unseen => ~provider /\ ~terminal
    /\ j.at # "sync" => j.rec.status # "cleaned"

\* What a cleanup knows of the workspace it removes.  (A host provider whose
\* terminal was not seen goes on editing, and git worktree remove looks again.)
CleaningOK(j) ==
  /\ j.op = "cleanup" /\ j.at \in {"container", "terminal", "skills", "retain", "remove"} =>
       /\ j.rec.status \in {"failed", "running", "stopped"}
       /\ j.clear => workspace = "whole" /\ (j.rec.status = "stopped" /\ OCI => ~dirty)
       /\ ~j.clear => workspace = "absent"
  /\ j.at \in {"skills", "retain", "remove"} => j.clear
  /\ j.at \in {"skills", "retain", "remove", "inspect"} => j.op = "cleanup"
  /\ j.at = "remove" => OCI /\ ~unkept
  /\ j.op = "cleanup" /\ j.at = "finish" => workspace = "absent"
  /\ j.op \in {"stop", "look"} => ~j.clear

JobsOK == \A p \in Managers : LaunchingOK(job[p]) /\ ClosingOK(job[p]) /\ CleaningOK(job[p])

BranchOK == unkept => OCI /\ workspace = "whole"

\* A host provider lives in its terminal.
HostOK == provider /\ ~OCI => terminal

IInv ==
  /\ CopyIsCurrent /\ NothingYet /\ JobsOK /\ BranchOK /\ HostOK
  /\ NothingRunsAfterStop /\ KitIsRecordedFirst /\ CleanedIsGone

\* A step of Launch keeps the invariant: it works on an allocating record that
\* nothing runs under until the last step but one.
LEMMA LaunchStep ==
  ASSUME OneManager, TypeOK, IInv, NEW p \in Managers, Launch(p)
  PROVE  IInv'
<1> USE DEF OneManager, TypeOK, IInv, CopyIsCurrent, NothingYet, JobsOK, LaunchingOK,
            ClosingOK, CleaningOK, BranchOK, HostOK, NothingRunsAfterStop, KitIsRecordedFirst,
            CleanedIsGone, Records, NoRecord, Jobs, NoJob, Statuses, Requests,
            LaunchSteps, RequestSteps, OCI, At, Go, Return, Write, ambient, files,
            processes
<1>1. CASE BeginLaunch(p)
  BY <1>1 DEF BeginLaunch
<1>2. CASE Allocate(p)
  BY <1>2 DEF Allocate
<1>3. CASE Checkout(p)
  BY <1>3 DEF Checkout
<1>4. CASE AllocationFails(p)
  BY <1>4 DEF AllocationFails, Fail
<1>5. CASE RecordKit(p)
  BY <1>5 DEF RecordKit
<1>6. CASE KitFails(p)
  <2>1. job[p].op = "launch" /\ job[p].rec = record /\ record \in Records
    BY <1>6 DEF KitFails
  <2>2. \/ record' = record
        \/ record' \in Records /\ record'.status = "failed"
    <3>1. PICK kit \in BOOLEAN : Fail(p, [job[p].rec EXCEPT !.kit = kit])
      BY <1>6 DEF KitFails
    <3>2. CASE record' = record
      BY <3>2
    <3>3. CASE record' = [[job[p].rec EXCEPT !.kit = kit] EXCEPT !.status = "failed"]
      <4>1. [record EXCEPT !.kit = kit] \in Records
        BY <2>1
      <4>2. record' = [[record EXCEPT !.kit = kit] EXCEPT !.status = "failed"]
        BY <2>1, <3>3
      <4> QED  BY <4>1, <4>2
    <3> QED  BY <3>1, <3>2, <3>3 DEF Fail
  <2>3. job' = [job EXCEPT ![p] = NoJob]
    BY <1>6 DEF KitFails, Fail
  <2>4. ~skills /\ UNCHANGED <<ambient, files, processes>>
    BY <1>6 DEF KitFails
  <2>5. CopyIsCurrent' /\ NothingYet'
    BY <2>1, <2>2, <2>3, <2>4
  <2>6. JobsOK' /\ BranchOK' /\ HostOK'
    BY <2>3, <2>4
  <2>7. NothingRunsAfterStop' /\ KitIsRecordedFirst' /\ CleanedIsGone'
    BY <2>1, <2>2, <2>4
  <2> QED  BY <2>5, <2>6, <2>7
<1>7. CASE Equip(p)
  BY <1>7 DEF Equip
<1>8. CASE EquipFails(p)
  BY <1>8 DEF EquipFails, Fail
<1>9. CASE Start(p)
  BY <1>9 DEF Start
<1>10. CASE StartFails(p)
  BY <1>10 DEF StartFails, Fail
<1>11. CASE FinishLaunch(p)
  BY <1>11 DEF FinishLaunch
<1> QED  BY <1>1, <1>2, <1>3, <1>4, <1>5, <1>6, <1>7, <1>8, <1>9, <1>10, <1>11 DEF Launch

\* Stopping the container and the terminal keeps the invariant: nothing the
\* manager itself does can start a provider in between.
LEMMA ClosingStep ==
  ASSUME OneManager, TypeOK, IInv, NEW p \in Managers, Closing(p)
  PROVE  IInv'
<1> USE DEF OneManager, TypeOK, IInv, CopyIsCurrent, NothingYet, JobsOK, LaunchingOK,
            ClosingOK, CleaningOK, BranchOK, HostOK, NothingRunsAfterStop, KitIsRecordedFirst,
            CleanedIsGone, Records, NoRecord, Jobs, NoJob, Statuses, Requests,
            LaunchSteps, RequestSteps, OCI, At, Go, Return, Write, ambient, files,
            processes
<1>1. CASE StopContainer(p)
  <2>1. (OCI => ~provider') /\ (provider' => provider)
    BY <1>1 DEF StopContainer
  <2>2. /\ job' = [job EXCEPT ![p] = [job[p] EXCEPT !.at = "terminal"]]
        /\ UNCHANGED <<ambient, record, files, terminal, unseen>> /\ job[p].at = "container"
    BY <1>1 DEF StopContainer
  <2>3. JobsOK'
    <3>1. \A q \in Managers : LaunchingOK(job[q])' /\ CleaningOK(job[q])'
      BY <2>1, <2>2
    <3>2. \A q \in Managers : ClosingOK(job[q])'
      BY <2>1, <2>2
    <3> QED  BY <3>1, <3>2
  <2>4. CopyIsCurrent' /\ NothingYet' /\ BranchOK' /\ HostOK'
    BY <2>1, <2>2
  <2>5. NothingRunsAfterStop' /\ KitIsRecordedFirst' /\ CleanedIsGone'
    BY <2>1, <2>2
  <2> QED  BY <2>3, <2>4, <2>5
<1>2. CASE StopTerminal(p)
  BY <1>2 DEF StopTerminal, PastTerminal
<1>3. CASE TerminalUnseen(p)
  BY <1>3 DEF TerminalUnseen, PastTerminal
<1>4. CASE FinishStop(p)
  BY <1>4 DEF FinishStop
<1> QED  BY <1>1, <1>2, <1>3, <1>4 DEF Closing

\* A step of Cleanup keeps the invariant: it removes only what it inspected
\* and, for a clone, only what it fetched.
LEMMA CleaningStep ==
  ASSUME OneManager, TypeOK, IInv, NEW p \in Managers, Cleaning(p)
  PROVE  IInv'
<1> USE DEF OneManager, TypeOK, IInv, CopyIsCurrent, NothingYet, JobsOK, LaunchingOK,
            ClosingOK, CleaningOK, BranchOK, HostOK, NothingRunsAfterStop, KitIsRecordedFirst,
            CleanedIsGone, Records, NoRecord, Jobs, NoJob, Statuses, Requests,
            LaunchSteps, RequestSteps, OCI, At, Go, Return, Write, ambient, files,
            processes
<1>1. CASE InspectPasses(p)
  <2>1. PICK c \in BOOLEAN :
          /\ job' = [job EXCEPT ![p] = [job[p] EXCEPT !.at = "container", !.clear = c]]
          /\ c <=> workspace # "absent"
    BY <1>1 DEF InspectPasses
  <2>2. /\ job[p] \in Jobs /\ job[p].op = "cleanup" /\ job[p].at = "inspect"
        /\ UNCHANGED <<ambient, record, files, processes>>
    BY <1>1 DEF InspectPasses
  <2>3. /\ job[p].rec.status \in {"failed", "running", "stopped"}
        /\ workspace \in {"absent", "whole"} /\ (workspace = "whole" => ~dirty)
    BY <1>1, <2>2 DEF InspectPasses, Busy, Unanswered, Unclean
  <2>4. JobsOK'
    <3>1. \A q \in Managers : LaunchingOK(job[q])' /\ ClosingOK(job[q])'
      BY <2>1, <2>2, <2>3
    <3>2. \A q \in Managers : CleaningOK(job[q])'
      BY <2>1, <2>2, <2>3
    <3> QED  BY <3>1, <3>2
  <2>5. CopyIsCurrent' /\ NothingYet' /\ BranchOK' /\ HostOK'
    BY <2>1, <2>2
  <2>6. NothingRunsAfterStop' /\ KitIsRecordedFirst' /\ CleanedIsGone'
    BY <2>2
  <2> QED  BY <2>4, <2>5, <2>6
<1>2. CASE InspectRefuses(p)
  BY <1>2 DEF InspectRefuses
<1>3. CASE RemoveSkills(p)
  BY <1>3 DEF RemoveSkills
<1>4. CASE RemoveWorktree(p)
  BY <1>4 DEF RemoveWorktree, WorkspaceGone
<1>5. CASE WorktreeRefused(p)
  BY <1>5 DEF WorktreeRefused
<1>6. CASE FetchBranch(p)
  BY <1>6 DEF FetchBranch
<1>7. CASE RemoveClone(p)
  BY <1>7 DEF RemoveClone, WorkspaceGone
<1>8. CASE RemoveCloneFails(p)
  BY <1>8 DEF RemoveCloneFails
<1>9. CASE FinishCleanup(p)
  BY <1>9 DEF FinishCleanup
<1> QED  BY <1>1, <1>2, <1>3, <1>4, <1>5, <1>6, <1>7, <1>8, <1>9 DEF Cleaning

\* Reading the record, recording a target, and an interruption keep the
\* invariant: the copy that goes on is the record on disk.
LEMMA RequestStep ==
  ASSUME OneManager, TypeOK, IInv, NEW p \in Managers, Manage(p)
  PROVE  IInv'
<1> USE DEF OneManager, TypeOK, IInv, CopyIsCurrent, NothingYet, JobsOK, LaunchingOK,
            ClosingOK, CleaningOK, BranchOK, HostOK, NothingRunsAfterStop, KitIsRecordedFirst,
            CleanedIsGone, Records, NoRecord, Jobs, NoJob, Statuses, Requests,
            LaunchSteps, RequestSteps, OCI, At, Go, Return, Write, ambient, files,
            processes
<1>1. CASE Launch(p)
  BY <1>1, LaunchStep
<1>2. CASE Closing(p)
  BY <1>2, ClosingStep
<1>3. CASE Cleaning(p)
  BY <1>3, CleaningStep
<1>4. CASE Interrupted(p)
  BY <1>4 DEF Interrupted
<1>5. CASE \E op \in Requests : Begin(p, op)
  BY <1>5 DEF Begin
<1>6. CASE SyncNothing(p)
  BY <1>6 DEF SyncNothing, Syncing, Continue
<1>7. CASE SyncTarget(p)
  BY <1>7 DEF SyncTarget, Syncing, Continue
<1>8. CASE SyncRefused(p)
  BY <1>8 DEF SyncRefused, Syncing
<1> QED  BY <1>1, <1>2, <1>3, <1>4, <1>5, <1>6, <1>7, <1>8 DEF Manage

\* Nothing the provider or its terminal does breaks the invariant: once
\* closed, both are gone and do nothing; a host provider that was not seen
\* edits and commits in its worktree and no further.
LEMMA ProviderStep ==
  ASSUME OneManager, TypeOK, IInv, Provide
  PROVE  IInv'
<1> USE DEF OneManager, TypeOK, IInv, CopyIsCurrent, NothingYet, JobsOK, LaunchingOK,
            ClosingOK, CleaningOK, BranchOK, HostOK, NothingRunsAfterStop, KitIsRecordedFirst,
            CleanedIsGone, Records, NoRecord, Jobs, NoJob, Statuses, Requests,
            LaunchSteps, RequestSteps, OCI, At, Go, Return, Write, ambient, files,
            processes
<1>1. CASE Edit
  BY <1>1 DEF Edit, Working
<1>2. CASE Commit
  BY <1>2 DEF Commit, Working
<1>3. CASE PrepareTarget
  BY <1>3 DEF PrepareTarget, Working
<1>4. CASE MoveHead
  BY <1>4 DEF MoveHead, Working
<1>5. CASE ProviderExits
  BY <1>5 DEF ProviderExits, Working
<1>6. CASE TerminalDies
  <2>1. /\ provider' \in BOOLEAN /\ (provider' => provider /\ OCI) /\ ~terminal'
        /\ UNCHANGED <<setting, faults, record, workspace, dirty, unkept, skills, helper, target, unseen, job>>
    BY <1>6 DEF TerminalDies
  <2>2. JobsOK'
    <3>1. \A q \in Managers : LaunchingOK(job[q])' /\ CleaningOK(job[q])'
      BY <2>1
    <3>2. \A q \in Managers : ClosingOK(job[q])'
      BY <2>1
    <3> QED  BY <3>1, <3>2
  <2>3. CopyIsCurrent' /\ NothingYet' /\ BranchOK' /\ HostOK'
    BY <2>1
  <2>4. NothingRunsAfterStop' /\ KitIsRecordedFirst' /\ CleanedIsGone'
    BY <2>1
  <2> QED  BY <2>2, <2>3, <2>4
<1> QED  BY <1>1, <1>2, <1>3, <1>4, <1>5, <1>6 DEF Provide

-----------------------------------------------------------------------------
(* The theorems.                                                           *)

\* Type correctness: for any managers, adapters and repositories every
\* variable keeps to its type (the Record, its statuses, and the steps of
\* Launch, Stop and Cleanup).
THEOREM TypeCorrect == Spec => []TypeOK
<1>1. Init => TypeOK
  BY DEF Init, TypeOK
<1>2. TypeOK /\ [Next]_vars => TypeOK'
  <2> SUFFICES ASSUME TypeOK, [Next]_vars
               PROVE  TypeOK'
    OBVIOUS
  <2>1. CASE UNCHANGED vars
    BY <2>1 DEF vars, files, processes, TypeOK
  <2>2. CASE Next
    <3>1. Durable'
      BY <2>2, DurableStep DEF Next, Provide, FaultsEnd, Edit, Commit, PrepareTarget,
         MoveHead, ProviderExits, TerminalDies, Durable, TypeOK
    <3> QED  BY <2>2, <3>1, RestStep
  <2> QED  BY <2>1, <2>2
<1> QED  BY <1>1, <1>2, PTL DEF Spec

\* The invariant holds at first and every step of one manager keeps it.
LEMMA InvariantStep ==
  ASSUME OneManager, TypeOK, IInv, [Next]_vars
  PROVE  IInv'
<1>1. CASE \E p \in Managers : Manage(p)
  BY <1>1, RequestStep
<1>2. CASE Provide
  BY <1>2, ProviderStep
<1>3. CASE FaultsEnd \/ UNCHANGED vars
  BY <1>3 DEF FaultsEnd, vars, ambient, files, processes, IInv, CopyIsCurrent, NothingYet,
     JobsOK, LaunchingOK, ClosingOK, CleaningOK, BranchOK, HostOK, NothingRunsAfterStop,
     KitIsRecordedFirst, CleanedIsGone, OCI
<1> QED  BY <1>1, <1>2, <1>3 DEF Next

\* One manager keeps the invariant, whatever the provider, the terminal and
\* failing commands do between the steps of its operations.
THEOREM InvariantHolds == ASSUME OneManager PROVE Spec => []IInv
<1>1. Init => IInv
  BY DEF Init, IInv, CopyIsCurrent, NothingYet, JobsOK, LaunchingOK, ClosingOK, CleaningOK,
     BranchOK, HostOK, NothingRunsAfterStop, KitIsRecordedFirst, CleanedIsGone, NoJob, NoRecord
<1>2. TypeOK /\ IInv /\ [Next]_vars => IInv'
  BY OneManager, InvariantStep
<1> QED  BY <1>1, <1>2, TypeCorrect, PTL DEF Spec

\* Cleanup removes no workspace whose branch has a commit the source lacks.
THEOREM WorkRetained == ASSUME OneManager PROVE Spec => []WorkIsRetained
<1>1. IInv => WorkIsRetained
  BY DEF IInv, BranchOK, WorkIsRetained
<1> QED  BY <1>1, InvariantHolds, PTL

\* A record that says stopped or cleaned is the record of a worker with no
\* container, and with no terminal that tmux showed to who closed it.
THEOREM StoppedIsStopped == ASSUME OneManager PROVE Spec => []NothingRunsAfterStop
<1>1. IInv => NothingRunsAfterStop
  BY DEF IInv
<1> QED  BY <1>1, InvariantHolds, PTL

\* Skills are in a workspace only when the record names the kit they are of.
THEOREM KitRecorded == ASSUME OneManager PROVE Spec => []KitIsRecordedFirst
<1>1. IInv => KitIsRecordedFirst
  BY DEF IInv
<1> QED  BY <1>1, InvariantHolds, PTL

\* A cleaned record means that the workspace is gone and its branch kept.
THEOREM CleanedGone == ASSUME OneManager PROVE Spec => []CleanedIsGone
<1>1. IInv => CleanedIsGone
  BY DEF IInv
<1> QED  BY <1>1, InvariantHolds, PTL

\* Uncommitted work goes only with a clone whose cleanup read a record of a
\* failed or running worker: Cleanup after a recorded Stop loses nothing.
THEOREM StoppedWorkKept == ASSUME OneManager PROVE Spec => StoppedWorkIsKept
<1> DEFINE Lost == dirty /\ workspace' # workspace
           Excused == OCI /\ \E p \in Managers : job[p].rec.status \in {"failed", "running"}
<1>1. ASSUME TypeOK, IInv, Next, Lost
      PROVE  Excused
  <2>1. PICK p \in Managers :
          \/ Allocate(p) \/ Checkout(p) \/ RemoveWorktree(p)
          \/ RemoveClone(p) \/ RemoveCloneFails(p)
    BY <1>1 DEF Next, Manage, Launch, Closing, Cleaning, Provide, FaultsEnd, BeginLaunch,
       AllocationFails, RecordKit, KitFails, Equip, EquipFails, Start, StartFails,
       FinishLaunch, StopContainer, StopTerminal, TerminalUnseen, FinishStop, InspectPasses,
       InspectRefuses, RemoveSkills, WorktreeRefused, FetchBranch, FinishCleanup,
       Interrupted, Begin, SyncNothing, SyncTarget, SyncRefused, Edit, Commit,
       PrepareTarget, MoveHead, ProviderExits, TerminalDies, files
  <2>2. LaunchingOK(job[p]) /\ CleaningOK(job[p])
    BY <1>1 DEF IInv, JobsOK
  <2>3. CASE Allocate(p) \/ Checkout(p)
    BY <1>1, <2>2, <2>3 DEF Allocate, Checkout, At, LaunchingOK
  <2>4. CASE RemoveWorktree(p)
    BY <1>1, <2>4 DEF RemoveWorktree
  <2>5. CASE RemoveClone(p) \/ RemoveCloneFails(p)
    BY <1>1, <2>2, <2>5 DEF RemoveClone, RemoveCloneFails, At, CleaningOK
  <2> QED  BY <2>1, <2>3, <2>4, <2>5
<1>2. TypeOK /\ IInv /\ [Next]_vars => [Lost => Excused]_vars
  BY <1>1
<1> QED  BY <1>2, TypeCorrect, InvariantHolds, PTL DEF Spec, StoppedWorkIsKept
=============================================================================
