------------------------------- MODULE Target -------------------------------
(* The pull request a worker is bound to: worker target and push-target.   *)
(*                                                                         *)
(* Two helper commands (internal/worker/target.go) are all that stands     *)
(* between a worker's branch and the branch of somebody's pull request.    *)
(* PrepareTarget puts the workspace at the head the claimed item names and *)
(* leaves a marker that binds it there; PushTarget moves the pull          *)
(* request's branch to the workspace's HEAD if it is still where the       *)
(* marker says.  Each helper is a chain of git and gh commands: any of     *)
(* them may fail, the helper may be killed between two of them, and people *)
(* move, rename, close and merge the pull request meanwhile.               *)
(*                                                                         *)
(* A commit is the set of the changes it contains, its own included, so    *)
(* one is an ancestor of another exactly when it is a subset.              *)
EXTENDS Integers

CONSTANTS
  Refs,         \* branches of the pull request's repository
  MaxChanges,   \* bound on the changes ever authored
  Background    \* the provider acts while a helper it called still runs

ASSUME RefsAssumption == Refs # {}
ASSUME ChangesAssumption == MaxChanges \in Nat /\ MaxChanges >= 2
ASSUME BackgroundAssumption == Background \in BOOLEAN

VARIABLES
  item,       \* what the claimed item says: its kind of target, the bound head
  refs,       \* the branches on GitHub
  pull,       \* the pull request as GitHub's API shows it
  tree,       \* the workspace: where HEAD is, the Cockpit branch, uncommitted work
  marker,     \* .agents/cockpit-target.json
  job,        \* the running helper
  made,       \* the number of changes authored so far
  own,        \* history: the heads the worker put on a branch
  disturbed   \* history: since the pull request was inspected it was touched, or
              \* a push was cut short

vars == <<item, refs, pull, tree, marker, job, made, own, disturbed>>

Changes == 1..MaxChanges
Commits == (SUBSET Changes) \ {{}}
NoCommit == {}

Base == {1}            \* where the worker's branch starts
Submitted == {1, 2}    \* the pull request's head when the item was written

Modes == {"branch", "detached"}
Markers == [mode : Modes, bound : Commits, lease : Commits, ref : Refs]
NoMarker == [mode |-> "none", bound |-> NoCommit, lease |-> NoCommit, ref |-> "none"]

Steps == {"inspect", "fetch", "checkout", "record", "push"}
Jobs == [op : {"prepare", "push"}, at : Steps, head : Commits, ref : Refs]
NoJob == [op |-> "none", at |-> "idle", head |-> NoCommit, ref |-> "none"]

\* A marker that is read passes validateTarget: it names a mode, two heads and
\* a branch (target.go:328-349).
TypeOK ==
  /\ item \in [mode : Modes, head : Commits]
  /\ refs \in [Refs -> Commits \cup {NoCommit}]
  /\ pull \in [state : {"open", "closed", "merged"}, ref : Refs, head : Commits]
  /\ tree \in [on : {"cockpit", "away"}, branch : Commits, away : Commits, clean : BOOLEAN]
  /\ marker \in Markers \cup {NoMarker}
  /\ job \in Jobs \cup {NoJob}
  /\ made \in 2..MaxChanges
  /\ own \subseteq Commits
  /\ disturbed \in BOOLEAN

\* The item may name a head the pull request has left behind.
Init ==
  /\ item \in [mode : Modes, head : {Submitted, Base}]
  /\ \E r \in Refs :
       /\ refs = [q \in Refs |-> IF q = r THEN Submitted ELSE NoCommit]
       /\ pull = [state |-> "open", ref |-> r, head |-> Submitted]
  /\ tree = [on |-> "cockpit", branch |-> Base, away |-> Base, clean |-> TRUE]
  /\ marker = NoMarker /\ job = NoJob
  /\ made = 2
  /\ own = {} /\ disturbed = FALSE

HEAD == IF tree.on = "cockpit" THEN tree.branch ELSE tree.away
Fresh == made + 1

At(op, at) == job.op = op /\ job.at = at
Go(at) == job' = [job EXCEPT !.at = at]
Return == job' = NoJob

\* The API shows an open pull request at the head of its branch; a closed or a
\* merged one keeps the head it had.
MoveRef(r, c) ==
  /\ refs' = [refs EXCEPT ![r] = c]
  /\ pull' = IF pull.state = "open" /\ pull.ref = r /\ c # NoCommit
             THEN [pull EXCEPT !.head = c] ELSE pull

-----------------------------------------------------------------------------
(* PrepareTarget.                                                          *)

\* An unprepared, clean workspace on its Cockpit branch, or nothing is done.
BeginPrepare ==
  /\ job = NoJob /\ marker = NoMarker
  /\ tree.clean /\ tree.on = "cockpit"
  /\ job' = [op |-> "prepare", at |-> "inspect", head |-> item.head, ref |-> pull.ref]
  /\ UNCHANGED <<item, refs, pull, tree, marker, made, own, disturbed>>

\* Merged, closed or moved: refused, with nothing changed.
InspectPrepared ==
  /\ At("prepare", "inspect")
  /\ IF pull.state = "open" /\ pull.head = job.head
     THEN job' = [job EXCEPT !.at = "fetch", !.ref = pull.ref] /\ disturbed' = FALSE
     ELSE Return /\ UNCHANGED disturbed
  /\ UNCHANGED <<item, refs, pull, tree, marker, made, own>>

\* The fetch reads the branch itself, so it sees what moved after the answer.
Fetch ==
  /\ At("prepare", "fetch")
  /\ IF refs[job.ref] = job.head THEN Go("checkout") ELSE Return
  /\ UNCHANGED <<item, refs, pull, tree, marker, made, own, disturbed>>

\* checkout --detach leaves the Cockpit branch where it was, checkout -B resets
\* it, and with it drops what was committed there before.
Checkout ==
  /\ At("prepare", "checkout")
  /\ tree' = IF item.mode = "detached"
             THEN [tree EXCEPT !.on = "away", !.away = job.head]
             ELSE [tree EXCEPT !.on = "cockpit", !.branch = job.head]
  /\ Go("record")
  /\ UNCHANGED <<item, refs, pull, marker, made, own, disturbed>>

\* Mutant: the marker is written before its lease is known.
LeaseForgotten ==
  /\ At("prepare", "record")
  /\ marker' = [mode |-> item.mode, bound |-> job.head, lease |-> NoCommit, ref |-> job.ref]
  /\ Return
  /\ UNCHANGED <<item, refs, pull, tree, made, own, disturbed>>

WriteTarget ==
  /\ At("prepare", "record")
  /\ marker' = [mode |-> item.mode, bound |-> job.head, lease |-> job.head, ref |-> job.ref]
  /\ Return
  /\ UNCHANGED <<item, refs, pull, tree, made, own, disturbed>>

-----------------------------------------------------------------------------
(* PushTarget.                                                             *)

\* The marker, the branch and the ancestry are read in local commands; the
\* head that was checked is kept, the push itself will name HEAD.
BeginPush ==
  /\ job = NoJob
  /\ marker.mode = "branch"
  /\ tree.on = "cockpit"
  /\ marker.bound \subseteq HEAD
  /\ job' = [op |-> "push", at |-> "inspect", head |-> HEAD, ref |-> marker.ref]
  /\ UNCHANGED <<item, refs, pull, tree, marker, made, own, disturbed>>

\* The pull request must still be at the lease's head, on the same branch.
InspectLeased ==
  /\ At("push", "inspect")
  /\ IF pull.head = marker.lease /\ pull.ref = marker.ref THEN Go("push") ELSE Return
  /\ UNCHANGED <<item, refs, pull, tree, marker, made, own, disturbed>>

\* Mutant: a plain --force after the same checks.
AcceptsAny == refs[job.ref] # NoCommit

\* Git moves the branch only from the lease's head (or finds it at HEAD
\* already); the answer may be lost on its way back.
Accepts == refs[job.ref] \in {marker.lease, HEAD}

Push ==
  /\ At("push", "push")
  /\ Accepts
  /\ MoveRef(job.ref, HEAD)
  /\ own' = own \cup {HEAD}
  /\ \/ Go("record") /\ disturbed' = (disturbed \/ HEAD # job.head)
     \/ Return /\ disturbed' = TRUE
  /\ UNCHANGED <<item, tree, marker, made>>

PushRefused ==
  /\ At("push", "push")
  /\ ~Accepts
  /\ Return
  /\ UNCHANGED <<item, refs, pull, tree, marker, made, own, disturbed>>

\* Mutant: the lease stays at the bound head.
LeaseLeftBehind ==
  /\ At("push", "record")
  /\ marker' = [marker EXCEPT !.lease = marker.bound]
  /\ Return
  /\ UNCHANGED <<item, refs, pull, tree, made, own, disturbed>>

\* The lease follows to the head that was checked.
RecordPush ==
  /\ At("push", "record")
  /\ marker' = [marker EXCEPT !.lease = job.head]
  /\ Return
  /\ UNCHANGED <<item, refs, pull, tree, made, own, disturbed>>

\* A command or the write of the marker fails, or the helper is killed.
HelperEnds ==
  /\ job # NoJob
  /\ Return
  /\ disturbed' = (disturbed \/ At("push", "record"))
  /\ UNCHANGED <<item, refs, pull, tree, marker, made, own>>

HelperSteps ==
  \/ InspectPrepared \/ Fetch \/ Checkout \/ WriteTarget
  \/ InspectLeased \/ Push \/ PushRefused \/ RecordPush

-----------------------------------------------------------------------------
(* The provider, in its workspace.                                         *)

MayAct == job = NoJob \/ Background

\* Something is edited, or what was edited is given up.
Edit ==
  /\ MayAct
  /\ tree' = [tree EXCEPT !.clean = ~@]
  /\ UNCHANGED <<item, refs, pull, marker, job, made, own, disturbed>>

\* A commit on HEAD, or one in place of the commits after base (an amended or
\* rebased HEAD).
Commit ==
  /\ MayAct /\ made < MaxChanges
  /\ made' = Fresh
  /\ \E base \in {HEAD, Base} :
       tree' = IF tree.on = "cockpit"
               THEN [tree EXCEPT !.branch = base \cup {Fresh}, !.clean = TRUE]
               ELSE [tree EXCEPT !.away = base \cup {Fresh}, !.clean = TRUE]
  /\ UNCHANGED <<item, refs, pull, marker, job, own, disturbed>>

SwitchBranch ==
  /\ MayAct /\ tree.clean
  /\ tree' \in {[tree EXCEPT !.on = "cockpit"], [tree EXCEPT !.on = "away"]}
  /\ UNCHANGED <<item, refs, pull, marker, job, made, own, disturbed>>

-----------------------------------------------------------------------------
(* Everybody else, on GitHub.                                              *)

Touched == disturbed' = TRUE

\* A push on top, a force-push, or a push back to the item's head.
OthersPush ==
  /\ refs[pull.ref] # NoCommit
  /\ \/ /\ made < MaxChanges /\ made' = Fresh
        /\ \E base \in {refs[pull.ref], Base} : MoveRef(pull.ref, base \cup {Fresh})
     \/ MoveRef(pull.ref, item.head) /\ UNCHANGED made
  /\ Touched
  /\ UNCHANGED <<item, tree, marker, job, own>>

\* The pull request's branch gets another name.
Rename ==
  /\ pull.state = "open"
  /\ \E r \in Refs \ {pull.ref} :
       /\ refs' = [refs EXCEPT ![r] = refs[pull.ref], ![pull.ref] = NoCommit]
       /\ pull' = [pull EXCEPT !.ref = r]
  /\ Touched
  /\ UNCHANGED <<item, tree, marker, job, made, own>>

\* Closed or merged, and the branch possibly deleted.
Close ==
  /\ pull.state = "open"
  /\ \E state \in {"closed", "merged"} : pull' = [pull EXCEPT !.state = state]
  /\ refs' \in {refs, [refs EXCEPT ![pull.ref] = NoCommit]}
  /\ Touched
  /\ UNCHANGED <<item, tree, marker, job, made, own>>

-----------------------------------------------------------------------------
Next ==
  \/ BeginPrepare \/ BeginPush \/ HelperSteps \/ HelperEnds
  \/ Edit \/ Commit \/ SwitchBranch
  \/ OthersPush \/ Rename \/ Close

Spec == Init /\ [][Next]_vars

\* The provider calls push-target for what it has not pushed; each of the
\* helper's commands succeeds in the end.
Pushed == marker # NoMarker /\ refs[marker.ref] = HEAD

FairSpec ==
  /\ Spec
  /\ WF_vars(BeginPush /\ ~Pushed)
  /\ SF_vars(InspectLeased) /\ SF_vars(Push /\ job'.at = "record") /\ SF_vars(RecordPush)

-----------------------------------------------------------------------------
\* A push is the helper's step that moves a branch.
Pushing == At("push", "push") /\ job' # job /\ refs' # refs

\* Whatever moved since the answer of GitHub (target.go:205-218), a push never
\* takes the branch from a head that is neither the bound one nor one this
\* worker put there; and a push of the head that was checked (target.go:194)
\* drops none of the bound pull request's commits.
PushKeepsOthers ==
  [][Pushing => /\ refs[marker.ref] \in own \cup {marker.bound}
                /\ HEAD = job.head => marker.bound \subseteq refs'[marker.ref]]_vars

\* Prepared and left alone: nobody touched the pull request, no push was cut
\* between Git's success and the marker's write (target.go:218-226), and the
\* provider stays on its branch, on top of the bound head.
LeftAlone ==
  /\ marker.mode = "branch" /\ ~disturbed
  /\ tree.on = "cockpit" /\ marker.bound \subseteq tree.branch

\* Then the pull request ends at the worker's head, however often a helper
\* failed or was killed before its push: what a refused push leaves behind
\* never hinders the next one.
PushConverges == <>[]LeftAlone => <>[]Pushed
=============================================================================
