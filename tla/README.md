# Snowcat Cockpit: verification project

Snowcat Cockpit is a node-local appliance that runs coding agents ("workers")
against the work queue of a Snowcat server.  Snowcat decides who may work on
what, with leases; Cockpit starts worker processes, relays their MCP calls,
keeps their workspaces and, in a *board campaign*, keeps launching workers
while there is claimable work.  This directory holds TLA+ models of it, the
TLC runs that check them and the TLAPS proofs about them.  Paths such as
`internal/campaign/campaign.go` are relative to `src/`.

## 1. The system

### Parts, state, operations, interactions

| Part | State | Operations | Talks to |
|---|---|---|---|
| lease relay `internal/leaseproxy` | held lease, `lost`, `terminal`, completion flags; marker file in the workspace | provider's tool calls, 30 s renewal, EOF, exit | provider (stdio), Snowcat (HTTP) |
| campaign controller `internal/campaign` | one campaign record (memory and `campaign.json`), halt latch, context, probes, backoffs, cleanup candidates | Start, Stop, Get, Close; one goroutine: setup, preflight, reconcile per tick | worker manager, queue observer, catalog, preflighter (interfaces), node API |
| worker manager `internal/worker` | one JSON record per worker, workspaces, tmux servers, consoles | Launch, List, Get, Stop, Cleanup, consoles | git, tmux, worker kit, target file |
| pull-request target `internal/worker/target.go` | target file in the workspace | PrepareTarget, PushTarget (run by the worker's process) | git, GitHub |
| managed repositories `internal/managedrepo` | catalog file, clones | Enroll, Remove, List, Setup | git, gh |
| queue observer, classifier `internal/queueview` | none | Observe, ObserveWorker, Classify | Snowcat (HTTP) |
| fleet planner `internal/fleet` | none | Plan | a queue snapshot |
| preflight `internal/preflight`, receipts `internal/state` | receipt file per provider | probe a provider, read and write receipts | provider CLI |
| worker kit `internal/profile` | generations, active selection, lock | install, refresh, verify, read | git |
| node service `internal/nodeservice` | releases, environment, unit, `current` link, install record | Install, Status, Uninstall | systemd |
| node convergence `internal/nodeup` | none of its own | the steps of `up` | node service, node API, preflight |
| node API and dashboard `internal/web` | none of its own | HTTP handlers over the other parts | all of the above |
| command line, launcher, image | none | flags, wiring, shell entry points | |

The relay runs in the worker's process tree, the campaign and the manager in
the node process.  They share no memory: what a campaign knows about a worker is
the manager's record (from tmux), and what Snowcat answers about its claims.

### What is hard

* **Two goroutines per relay** with a mutex held across an HTTP call for some
  calls and not for others; requests that are served and whose answer is lost,
  or that are served after the relay gave them up; leases that expire while
  a renewal is under way; a process killed between a request and its marker.
* **A reconcile of minutes** that works on a worker list and an observation
  taken at its start while workers exit, claims happen, the operator stops the
  campaign and writes of `campaign.json` fail.
* **The gap between launch and claim**: a worker is alive and its item still
  claimable.
* **Crashes and restarts** of the node, with the record of what was going on in
  a file that may be behind.
* **A worker's record, workspace, terminal and provider are four things**: a
  launch or a cleanup is a dozen external commands, any of which may fail or be
  the last before the node dies, while the provider edits, commits, moves HEAD
  or outlives its terminal; and the CLI is a second process over the same
  records.
* **A pull request that moves** between the answer of GitHub, the check of the
  ancestry and the push, by a helper that can be killed before it writes down
  what it pushed, under a provider that goes on committing.
* **One kit directory and many processes**: `node up` repairs and switches it,
  the node proves providers against it and copies it into workspaces; only some
  of these take its lock, and the lock file is inside what is replaced.
* **Installations in a dozen steps**, any of which may be the last, while
  systemd restarts the node from whatever is on disk; the next `node up` decides
  from two of the files, and from the process's health, whether anything is
  left to do.

`PROJECT.json` lists every hazard with its line and the properties that cover
it, and says of the others why nothing covers them yet.

### What makes each part correct

* relay: at most one lease per worker; it renews only what it holds; a lease
  that ended is noticed; a lost lease is final; the marker never claims an
  outcome Snowcat did not take, and is written before a completion is sent.
* campaign: capacity of a role; no second worker for an item already spoken
  for; blocked roles are not refilled; only settled workspaces are cleaned;
  nothing is launched after a stop or a halt; a stop ends; the file and the
  reported status tell the truth after failed writes and restarts.
* worker manager: nothing runs under a stopped record; cleanup removes only
  what is retained elsewhere and can tell its own files from the provider's;
  stop and cleanup get through in the end.
* target: a push never takes the branch from a head that is neither the bound
  one nor the worker's own, drops none of the bound commits, and can be
  repeated after a crash.
* kit: the selected generation is complete; a worker starts with the files its
  record names, and they are what is selected; `node up` run again gets there.
* service and up: what an installation verified is on disk, loaded and running;
  an uninstallation leaves nothing; `up` run again converges and then stops
  restarting the node.
* catalog: concurrent setups do not lose a record; classifier, fleet: agree
  with their documented tables.

## 2. Plan

Order: most central behaviour first.  Steps 1 to 6 are done.

1. **Relay** (`SnowcatLease`, `Relay`, `LeaseContract`, `RelayProofs`,
   `RelayLedgerProofs`): two concurrent users of one lease, the network,
   crashes, the contract.
2. **Campaign** (`CampaignRecord`, `Campaign`, `CampaignProofs`,
   `CampaignClaimProofs`).
3. **Worker** (`Worker`, `WorkerProofs`): the manager's record and the
   processes behind it, failures and crashes between the steps of Launch, Stop
   and Cleanup.
4. **Target** (`Target`, `TargetProofs`): prepare and push command by command,
   with crashes and a moving pull request.
5. **Kit** (`Kit`, `KitProofs`): floor, generations, selection, lock, and the
   launches and proofs that read meanwhile; the kit steps of `node up`.
6. **Node** (`Node`, `NodeProofs`): install, restart, uninstall and the service
   steps of `node up`, with crashes, systemd and reboots.
7. Left: `List` over several workers (an extension of `Worker`); two service commands at once (an extension
   of `Node`); the classifier's rules as an operator beside a reference
   definition.

Abstract specifications worth stating: the lease contract (done); a worker's
life as `Campaign` sees it, implemented by `Worker`.

Every safety property of a passing run is a theorem, and so is the refinement
of the contract.  Theorems still wanted: those of `Worker` beyond `OneManager`
that hold with two managers, and whatever step 7 adds.

## 3. Modules

| Module | What it is |
|---|---|
| `SnowcatLease` | the part of Snowcat the relay depends on: items, leases with a token, expiry, withdrawal, other workers (external) |
| `Relay` | `relay.go`: calls, renewals, process end, network; properties; refinement mapping |
| `LeaseContract` | abstract: what a relay and Snowcat promise together |
| `RelayProofs` | theorems about `Relay`: types, who holds which lease |
| `RelayLedgerProofs` | theorems about `Relay` against Snowcat's books: belief, loss, time, marker, the contract |
| `CampaignRecord` | the campaign record, its file, the halt latch, the context |
| `Campaign` | the controller's goroutine step by step, the node API, workers, queue, clock; properties |
| `CampaignProofs` | theorems about `Campaign`: types, record, cleaning, launches, capacity, blocked roles |
| `CampaignClaimProofs` | theorems about `Campaign`: the gap between launch and claim, the goroutine behind an active record |
| `Worker` | one managed worker: the manager's operations command by command, its record, workspace, terminal and provider; properties |
| `WorkerProofs` | theorems about `Worker` |
| `Target` | the two helpers of a pull-request target, the marker, the workspace, the pull request; properties |
| `TargetProofs` | theorems about `Target` |
| `Kit` | the kit directory, `node up`'s kit, source-kit and preflight steps, the node's own proofs, a launch as far as it is about the kit; properties |
| `KitProofs` | theorems about `Kit` |
| `Node` | the service's files, systemd, the node process, the commands over them, the rest of `node up`; properties |
| `NodeProofs` | theorems about `Node` |
| `MCRelay`, `MCCampaign`, `MCWorker`, `MCTarget`, `MCKit`, `MCNode` | constants for TLC |

Operators whose comment begins with "Mutant:" are plausible bugs of a
definition they stand next to; no specification uses them.  Each property that
holds is known to be broken by one.

### Relay

`relay.active/lost/terminal/completeAttempted/completeAcknowledged` are the
variables of those names; `marker` is `.agents/cockpit-lifecycle.json`; `call`
and `renewal` are the two HTTP exchanges that can be under way (a stage, the
request, the answer); `due` is the ticker; `late` holds requests the relay gave
up but that may still arrive.  `Handle` is two actions, up to the request it
forwards (`HandleClaim`, `HandleLifecycle`, `HandleBareHeartbeat`,
`HandleOther`) and from the answer on (`FinishCall`, `FailCall`); `renew` is
`SkipRenewal`, or `BeginRenewal` and `FinishRenewal`.  `lifecycleMutex` is the
pair of guards `MutexFreeForCall` and `MutexFreeForRenewal`.  `ReadEOF`,
`ExitRun` and `Kill` end the process.  A call that Snowcat takes for a
notification (HTTP 202 or 204) ends without an answer (`NoAnswer`).

Time.  `Tick` is one unit.  The ticker fires every `Interval` units, counted
from the start of the process (`wait`); a lease runs `LeaseTicks` units from the
moment Snowcat gave it, so it may expire at any point between two firings,
while a call or a renewal is under way or while nothing is.  The relay counts on
past zero (`Remaining`) down to `-Interval`, so that "expired for how long" can
be said.  `LapseIsNoticed` is what the code can promise of an expiry its ticker
does not coincide with: the lease is held without the renewer being woken or at
work for less than one interval after it.  Exchanges may take any number of
units (the code's HTTP client gives up after 15 s).  Snowcat's answers are well
formed and the two clocks agree.

### Campaign

`run` and `reconcile` are one process with a program counter `pc`; every call
it makes to another component, and every span under the controller's mutex, is
a step of its own, so anything else can happen between:

`SetupRepositories`, `RefreshPreflights`, `SetRunningStatus` (once), then per
tick `ListWorkers`, `ConfirmPendingClaims`, `ObserveQueue`, `SettleExits`,
`SweepCleanupCandidates`, `Plan`, any number of launches, `FinishTick`,
`NextTick`; `Finalize` when the context is cancelled.

A launch is `ChooseLane`, `RefreshBase` and then `Manager.Launch` as far as the
campaign can be caught in it: `PassInspection` (the last Git call, which feels
the context), `BeginLaunch` (the first record, which does not look at it any
more), `AllowStart` (the workspace is there and the tmux command is started,
which feels the context), `StartProvider` (tmux has done it), `FinishLaunch`.
`RefuseLaunch` is an error before the first record, `FailLaunch` one after it.
`Remains` says what an error leaves: a record of a failed worker or, when the
record's write failed, of an allocating one; and a running provider, if tmux was
asked for it.  The controller takes no slot and leaves no probe for such a
worker (`campaign.go:670-677`).  `slots`, `left`,
`exits`, `paused`, `proven`, `target` are locals of `reconcile`; `probe`,
`backoff`, `laneFailure`, `candidates` are the controller's maps.
`worker` is the manager's record, whether its provider runs, and what it has
claimed at Snowcat; `items` the claimable items of a lane.

History variables: `missed` holds the live workers this tick does not count (a
launch of this tick that returned an error; a running worker of which tmux gave
no answer when the list was made), `stray` the workers that may run without a
probe or did, `cut` which step of a launch a Stop or Close crossed.  `MaxSilent`
bounds the workers that are stray because tmux was silent or because a stop left
their provider running.

The record module has four ways to write: `Persist` and `PersistAll`
(`persistLocked`, once and several times within one step: a failure halts and
cancels), `StopRecord` (a failure is returned and not latched),
`FinalizeStopped`.  `WritesFail` says whether writes may fail.

Abstracted: which lane of those launchable is tried next; displayed statuses of
repositories and providers (only that there may be blockers); the retention
policy (any subset of the candidates); time (a backoff is a counter that
saturates at zero).
The operator may stop or clean any worker between any two steps but those of
`Launch`, which holds the manager's mutex
(`Retire`): the two are one status, as `inspectLaunchProbes` drops the probe for
either.  `Finalize` forgets the goroutine's maps, which nothing reads before
`Start` resets them.  A worker that exited is not reported failed later, as it is when its
tmux server is lost afterwards.  Workers started by the operator, and other
users of the queue, are not modelled: `ClaimGapIsReserved` presumes that only the campaign's workers claim.

What the properties say of launches that fail late.  `CapacityKept` is about the
moment a worker is begun: its role has fewer workers that live by their records
than its capacity, `missed` not counted.  With them counted it is false: after an
error over a live provider another lane of the role is launched in the same
tick, and after a silent tmux in the next one.  `StopEndsLaunches` lets one step
pass, the one that was past its last look at the context when Stop or Close came
(`cut`): the first record is then still written, or tmux still starts the
provider, and nothing more.  `ClaimGapIsReserved` is about workers with a probe: a stray
one reserves nothing, and what strays have claimed is allowed for.

### Worker

`record` is the JSON record under `workers/` (its status, whether it names a
kit, whether the pull-request target is in it); `workspace`, `dirty`, `unkept`,
`skills`, `helper`, `target` are what is in the workspace directory, `provider`
and `terminal` the process (a container for oci) and its tmux server.  `unkept`
means commits on the worker's branch that its source repository lacks: a linked
worktree shares its branches with the source, a clone does not.  `setting` is
the adapter and whether the repository's own ignore rules cover `.agents/`.
`job[p]` is the operation manager `p` is in, how far it is, and the copy of the
record it read first (`job[p].rec`), which every write of it installs whole.

`Launch` is `BeginLaunch`, `Allocate`, `Checkout` (oci), `RecordKit`, `Equip`,
`Start`, `FinishLaunch`, each with a failing twin (`AllocationFails`,
`KitFails`, `EquipFails`, `StartFails`) that ends in `fail`, whose own write may
fail too.  `List` and `Get` (`"look"`), `Stop` and `Cleanup` begin with
`Begin` and `syncTarget` (`SyncNothing`, `SyncTarget`, `SyncRefused`).
`stopTerminalLocked` is `StopContainer` and `StopTerminal`, shared by Stop and
Cleanup, or `TerminalUnseen`: where tmux is not found or `has-session` fails, as
it does for a caller that has given up, the code takes it that there is no
terminal and goes on, to the record that says stopped.  `unseen` (history) says
that this happened over a terminal that was up.  `reconcile` likewise takes a
worker for failed when tmux does not answer (`Unanswered`), and a cleanup goes
on. Cleanup is `InspectPasses`/`InspectRefuses` (the status, `git status`),
the closing, `RemoveSkills`, then `RemoveWorktree`/`WorktreeRefused` on the host
or `FetchBranch` and `RemoveClone`/`RemoveCloneFails` for oci, and
`FinishCleanup`.  `Interrupted` stands for any request step that returns an
error, a caller that gives up (but for the two places above) and a manager that
dies: what was done stays
done.  The provider edits, commits, prepares its target, moves HEAD, exits; a
container may outlive its terminal (`TerminalDies`).

A manager holds its mutex for a whole operation, hence one job per manager.
Worker identities are random and nothing is shared by two workers' records and
directories, so one worker is modelled.

Abstracted: which tmux, podman or docker error it was; skill drift (removed or
refused); provisioning (part of `Equip`); the canonical repository, whose
skills are the checkout's own (`skills` stays `FALSE`).  `git worktree remove`
removes a worktree with no modified or untracked file that Git's ignore rules
show it, and refuses any other; `git status` on a clone without its files, or
with some of them removed, is not empty.

### Target

A commit is the set of the changes it contains, so ancestry is inclusion; what
somebody authors is a new number.  `refs` are GitHub's branches, `pull` what
its API says of the pull request (a closed one keeps its old head), `tree` the
workspace, `marker` the file `.agents/cockpit-target.json`, `job` the helper
that runs and what it has read.  `PrepareTarget` is `BeginPrepare`,
`InspectPrepared` (the `gh` answer), `Fetch`, `Checkout`, `WriteTarget`;
`PushTarget` is `BeginPush`, `InspectLeased`, `Push` (which sends HEAD as it is
then, under `--force-with-lease` of the marker's lease head) or `PushRefused`,
`RecordPush`.  `HelperEnds` is a command that fails or a helper that is killed,
the answer of a push that went through included.  Others push, rename, merge,
close and delete at any time; the provider edits, commits, amends and leaves
its branch, with `Background` also while a helper runs.  `own` and `disturbed`
are history variables.

### Kit

A skill file's content is the revision it came from; an empty or edited one is
`"torn"`.  `root` is the floor in the kit directory with its manifest, `gens`
the generations beside it, `active` the link.  `up` is the `node up` in
progress: `StepKit` leads to `MoveAside` and the floor's `InstallFloor`,
`CreateSkill`, `WriteSkill` (one file at a time), `WriteManifest`;
`StepSourceKit` to `LockExclusive`, `RefreshKit`, `Retain`, `Select`;
`StepPreflights` to `Prove` and `FinishProof` per attempt.  `launch[l]` is what
launcher `l` does: a proof of a provider (`BeginProof`, `EndProof`) or the
launch of a worker, from the first read of the manifest (`BeginLaunch`) over
the prepared bytes, the record and the copy to the three checks under the
shared lock and the start.  `UpDies` and `LaunchFails` drop what locks their
process held.

A launch of a worker in a canonical Snowcat checkout uses no kit and is not in
the model; the two steps between kit and source kit that are about the service
are in `Node`.

### Node

`envFile`, `unitFile`, `current`, `record` and `releases` are the files,
`loaded` and `enabled` what systemd knows, `proc` the process with the release,
arguments and environment it was started with.  `cmd` is the command in
progress: `Manager.Install` is `InstallRelease`, `WriteEnvironment`,
`WriteUnit`, `SwitchCurrent`, `WriteRecord`, `DaemonReload`, `Enable`,
`RestartUnit`, `Verify`; `Uninstall` is `Disable` to `Unload`; `Restart` is
`RestartUnit` and `Verify`.  `node up` is `Decide` (`installReason`), an
installation if need be, `Repositories`, `StartCampaign`, `Status`, `Report`.
`CommandDies` ends any of them anywhere.  `StartAgain` is systemd's
`Restart=on-failure`, `Reboot` takes the command and the process and starts
what is enabled.  A release whose files somebody changed (`Spoil`) is refused by
every installation of it (`RefuseRelease`).

One command at a time is a bound of the model: nothing in the code keeps two
`node` commands apart.

## 4. Runs

| Run | Instance | Shows |
|---|---|---|
| `relay` | 2 items, 2 claims, a renewal every 2 units, lease of 2 units | the safety properties and the refinement of `LeaseContract` |
| `relay_time` | 1 item, 1 claim, units of 15 s: a renewal every 2, lease of 8; marker writes may fail, fairness | with the code's own times, a lost lease is noticed; a marker that lost writes never invents an outcome |
| `campaign_lane` | 1 repository, 1 role with 2 slots, 2 workers | types, the claim gap, cleaning, a blocked role |
| `campaign_record` | 2 workers, 1 item, 1 slot, writes fail, launches leave workers behind, crashes, restarts | capacity across restarts, the file, the halt reason, no launch after a stop |
| `campaign_stop` | 1 worker, a silent tmux, fairness, crashes, writes succeed | a stop ends; an active campaign has its goroutine |
| `campaign_shared_provider` | 2 roles, one provider | **violated**: a blocked role is refilled |
| `worker` | 1 manager, both adapters, both kinds of repository, fairness | all of Worker's safety properties; cleanup of a stopped clean worker gets through; so does a stop once the target is recorded |
| `worker_host_cleanup` | as `worker` | **violated**: a host worker is never cleaned |
| `target` | 2 branches, 4 changes, provider in the background, fairness | nobody else's head is overwritten; left alone, the work gets out |
| `kit` | 2 skills, 2 floors, 2 revisions, 1 provider, 1 launcher, damage, fairness | what is selected is complete, a worker starts on it, `node up` converges |
| `kit_repair` | 1 floor, 1 revision, nobody interferes | **violated**: a floor torn by a killed `node up` is not repaired |
| `node` | 3 plans over 2 releases, arguments, environments; fairness | what commands report is so; `node up` converges |

Bounds.  Two items and two claims give a second claim, a wrong item id and a
renewal of the first lease meeting the second; a third adds no new pair.  Two
units to an interval are the least in which a lease can expire between two
firings; in `relay` the lease is as short as the interval, so that it expires
often.  `relay_time` follows one lease to its end.  Two
workers give one that is unclaimed while another is planned, one slot short of
capacity and one being launched beside one that exits; `campaign_stop` has
one, because what it asks is about the goroutine.  One repository: what the
controller keeps per repository it keeps apart.  One backoff step distinguishes
backed off from not.  `MaxItems = 1` per lane makes an item contended as soon as
two workers exist: one that is begun without claiming leaves it to the next, in
a later tick or, after a failed launch, when the backoff ends in the same one.
`MaxSilent = 1` in `campaign_stop`, 0 in the other campaign runs, whose state
would be several times larger: the theorems of section 5 hold for any value.
`Spoilable` in `node` is the second release, so that one plan has a release
that may be refused and two have not.
`Restarts = FALSE` where a property is a promise of one campaign (Start forgets
the probes of the campaign before); the others have it `TRUE`.  `Worker` has no
bound but the number of managers: its state is finite as it stands.
`target`: of the four changes two are the branch's base and the pull request's
head, the other two are for the worker and for others in any mixture; the
second branch is what a pull request is renamed to, so that the marker's name
goes stale.
`kit`: two skills, so that one can be torn while the other is absent; two
floors, so that the directory may be an earlier release's; two revisions, so
that the selection moves while a launch holds the first; `Sound` bounds the
damage to one at a time.  `node`: the three plans differ in the release only,
or in arguments and environment only, and all listen at one address, which is
the case in which a health check cannot tell them apart.

Deadlock is checked for the relay and for the campaign runs with restarts; the
other campaign runs end in a stopped campaign or with no worker left to launch.
A worker never stops: a cleaned record can still be listed.  It is not checked
for `kit`, where a damaged selected generation leaves `node up` and launches
nothing they would do.

### Fairness

Relay: weak fairness for steps that only wait for a timeout or for the
scheduler; strong fairness for the start of a renewal, because the provider may
take `lifecycleMutex` again and again and Go's `sync.Mutex` hands it over to a
waiter that starved for 1 ms.  Provider calls, EOF and kill are not fair.
Campaign: weak fairness for the goroutine's steps (every call it makes has a
timeout or the context); strong fairness for `Finalize`, because `select`
chooses at random among ready cases and so cannot take the ticker for ever.
Worker: weak fairness for the steps of an operation that began (every command
ends); strong fairness for the requests to stop and to clean, which says that
the operator (or the campaign) keeps asking while other requests come and go.
`FaultsEnd` with weak fairness says that commands do not fail for ever: a
worker whose every command fails is not cleaned.  Nothing is assumed of the
provider or of the terminal.
Target: the provider calls push-target while it has something unpushed (weak
fairness of `BeginPush`); strong fairness of the steps of a push says that its
commands do not fail every time.  `PushConverges` speaks of runs in which the
pull request and the branch are left alone from some time on.
Kit: `node up` is run again and goes on; a launch ends.  `LockExclusive` is
strongly fair because the refresh polls and the gap between two launches is
longer than its polling interval.
Node: `node up` is run again and goes on; systemd restarts what failed.
In Kit and Node faults end with `Calm`, which need not come: the convergence
properties are about the time after it.

## 5. Proofs

All for every value of the constants that the assumptions allow.  Assumptions:
`SnowcatAssumption`, `RelayAssumption` (types of the constants),
`RecordAssumption`, `CampaignAssumption` (types, finite sets of repositories
and roles); `ProvidersDiffer` and `OneManager` where stated; in the other
modules `RefsAssumption`, `ChangesAssumption`, `BackgroundAssumption`,
`SetsAssumption`, `DamageAssumption`, `DistinctAssumption` (names of floors and
of commits are different names), `PlansAssumption`, `NoneAssumption`.

**Relay** (`RelayProofs`).  `TypeCorrect`; `CustodyKept` with the inductive
invariant `Custody`, from which `AtMostOneLease`, `RenewalsAreForHeldLease` and
`LossStaysFinal` follow.  "At most one lease" is not inductive: a claim that
was given up may still arrive.  `Custody` adds where such a claim can be
(`ClaimsAreAlone`: only when no further call will be handled), that calls and
renewals exclude each other (`MutexHeldOnce`), that a loss blocks lifecycle
calls, and that whatever Snowcat leases is held, about to be observed or never
to be (`LeasesAreKnown`).

**Relay and Snowcat's books** (`RelayLedgerProofs`), on top of `Custody`.
`Custody` says who holds what but nothing of tokens' outcomes and of time.
`Bookkeeping` (theorem `BookkeepingKept`) adds it:

* `BooksAgree`: Snowcat's items and its tokens tell the same story, so that an
  item's being leased and a token's being live are interchangeable;
* `ClaimAnswered`, `HeartbeatAnswered`, `FinishAnswered`, `RenewalAnswered`: an
  answer that has been given and not yet looked at is still as good as the
  books, which is what makes it harmless to act on it later;
* `CallsAreBound` and `NoFinishAbroad`: the token of a lifecycle call is the one
  that is held, and no finishing request is left in the network while a running
  relay (or a renewal whose answer is to come) counts on the lease.  Without the
  second a request given up earlier could end the lease behind the relay's
  back; it holds because a finishing call that fails ends the relay's claim to
  know (`FinishServed` is the window in which it may be wrong);
* `LeaseIsBacked`: what the relay believes to hold it holds for at least the time
  it believes, an operator's withdrawal excepted.

`BookkeepingStep` takes the actions one by one; what the environment does to a
token is in four facts (`FatesArePermanent`, `FatesAreQuiet`, `LeasesLast`,
`BooksAgree'`) proved for each of Snowcat's steps.  From it: `BeliefKept` and
`LossesAreJustified`.  `Lapsing` relates what is left of a lease, and of one an
answer in waiting is about to give, to the units since the ticker last fired,
and gives `LapsesAreNoticed`.  `OutcomesWritten`
(when the marker gets an outcome at all), `FatesArePermanent` and `Bookkeeping`
give `MarkerIsTrue`, also when marker writes fail; `MarkerFollows` adds that the
marker has the relay's flags and that every completion abroad was flagged
(`CompletionIsAsked`: only a request completes an item), and gives `AttemptsAreWrittenAhead`
under `~MarkerWritesFail`: `writeMarkerLocked` is best effort, so
that the assumption is needed.  `RelayKeepsContract` is the refinement: the
initial states map to initial states (`Init`), and `ContractStep` maps every
step to a step of `LeaseContract` or a stutter under the mapping of `Relay`.

**Campaign** (`CampaignProofs`), in layers, each using the ones before:

1. `RecordInv`: while `pc` is not `none` the record is active; a live context
   means neither stopping nor halted.  Gives `DiskKept` and `HaltReasonKept`.
2. `Typed`: `TypeOK`, with a slot and an item left for a lane being launched
   and a lane for every worker.  Gives `TypeCorrect`.
3. `WorkersMove`: what any step but `BeginLaunch` can do to a worker; used by
   everything below.
4. `SettledInv`: the exits found by the worker list still are what they were when
   they are settled, or the operator has stopped the worker meanwhile; in
   either case it claims nothing any more.  Gives `SettledOnlyCleaned`.
   `StrayInv`: a worker whose provider runs is running by its record or stray.
   `CutInv`: in the phases `recording` and `starting` the context is live or was
   crossed right there.  Gives `LaunchesEnd`.
5. `CapacityInv`: free slots plus the workers counted stay within the capacity,
   one more while a launch has begun its worker (`Taken`), which is identified
   because workers are begun in order; it is not `missed`.  A failed launch takes its worker out of
   the count (`missed`) instead of a slot.  Gives `CapacityIsKept`, an action
   property: between two launches the operator's view may well exceed it.
6. `BlockedInv`: while launching, no blocked role's provider is proven; needs
   that no two roles share one (`ProvidersDiffer`), and
   `campaign_shared_provider` shows that it does.  Gives `BlockedStayEmpty`.
7. `Supervised` (`CampaignClaimProofs`, with `Restarts = FALSE`): every worker was
   begun by this campaign; one that runs has a probe unless it is stray; none
   is fresh any more once the worker list has been read; a `claimed` probe has
   an item behind it.  So every live worker without an item that an
   observation can count has a `stable` probe, which is what
   `pendingLaunchCounts` reserves for.
8. `GapInv`: `ClaimGapIsReserved` is not inductive, because `left` is as old as
   the observation.  From the observation to the plan, `left` and the workers
   without an item exceed the items by no more than the workers that await
   one (`Awaiting`, which only grows in that time: confirmations come before,
   and settled exits were not awaited) and the items a stray has taken since
   (`TakenByStray`); from the plan on by no more than the latter.  The worker
   of a launch in progress is not counted yet, and the end of the launch takes
   one from `left` for it.  A claim takes one from both sides (`GapShrinks`),
   an exit from one.  Gives `ClaimGapKept`.
   `~Restarts` is needed: Start forgets the probes of the campaign before, and
   its workers that have not claimed yet reserve nothing (hazard at
   `campaign.go:289`).
9. `ActiveHasRun`, from `RecordInv`, under `~WritesFail`: a Start whose first
   write fails leaves an active record without a goroutine (section 6).

**Worker** (`WorkerProofs`).  `TypeCorrect` for any managers: `DurableStep`
covers the record and the jobs, which copy each other, `RestStep` everything
else.  The other theorems assume `OneManager`: with two members in `Managers`
TLC finds a provider under a stopped record.  None of them is inductive.  `IInv`
adds that the copy a job works on is the record on disk (`CopyIsCurrent`, where
the single manager is used); that before a launch there is nothing (`NothingYet`); that a launch has
started nothing before its last step but one and installed nothing before its
kit is recorded (`LaunchingOK`); that what a stop or cleanup closed stays
closed (`ClosingOK`: the container for good, the terminal unless it was
`unseen`); that a host provider lives in its terminal (`HostOK`); that a cleanup about to remove a workspace found it
whole, that for a container a recorded stop makes what `git status` saw still true
(a host provider that was not seen goes on, and `git worktree remove` looks
again), and that a
clone's branch was fetched with nobody left to commit (`CleaningOK`); and that
only a whole clone can have commits its source lacks (`BranchOK`).  From it:
`WorkRetained`, `StoppedIsStopped`, `KitRecorded`, `CleanedGone`, and the
action property `StoppedWorkKept`.

**Target** (`TargetProofs`).  `TypeCorrect` and the action property
`OthersKept`.  Neither is inductive: that a push takes the branch only from the
bound head or the worker's own needs to know where the marker's lease head
comes from.  `IInv` adds that a push in progress is bound to the marker as it
is (`PushIsBound`) and the marker to the item (`ItemIsBound`), that every
commit's changes have been authored, so a new commit is nobody's
(`Authored`), and that a branch at a head that is in the workspace, in a
helper's hands or in the lease is at the item's head or at one the worker put
there (`Provenance`).  It does not say that the lease is a head that was pushed:
`RecordPush` writes the head the helper had checked, and `Push` sends HEAD.

**Kit** (`KitProofs`), for any number of skills, revisions, providers and
launchers.  `TypeCorrect`, `ActiveWhole`, `StartsAreActive`.  `IInv` adds that
a refresh is of a Snowcat commit (`RefreshIsOfRevision`, without which the
selection would not keep its type), that a generation is there, and whole but
for damage, before it is selected (`GenerationsAreWhole`), that the two sides of
the lock exclude each other (`LockExcludes`), that the revision a launch saw,
recorded and copied is one (`CopiesAgree`), and that what it verified under the
lock is still selected (`VerifiedIsSelected`).

**Node** (`NodeProofs`), for any plans.  `TypeCorrect`, `ReportsAreSo`.
`ReportedIsSo` is about the end of a command; `IInv` says for each file and for
systemd from which step on it is the plan's (`InstalledSoFar`) or gone
(`RemovedSoFar`), that the process started since is the plan's
(`RunsThePlan`: it holds through every restart by systemd because the files
were there first), and which steps belong to which command (`KindOfStep`).

Only model-checked: the temporal properties `LapseIsSignalled`,
`StopCompletes`, `CleanupConverges`, `BoundStopIsHonoured`, `PushConverges`,
`KitConverges` and `NodeConverges`; liveness under fairness is out of the
prover's reach.  The three properties of the violated runs are false and are
not proved either.

## 6. Findings

Three disagreements between the code and its documents, each with a run whose
counterexample shows it; `findings` in `PROJECT.json` quotes the sources.

1. `campaign_shared_provider`: blocking is per role, readiness per provider, so
   a role blocked by an unsettled exit is refilled when another role proves
   their common provider.
2. `worker_host_cleanup`: `git worktree remove` runs without the exclusions
   that hide the helper Cockpit installed, and refuses.
3. `kit_repair`: `node up` killed between creating a skill file and writing it,
   with another skill still absent: the floor counts as missing, not as
   drifted, so it is never moved aside, and installing it is refused.

Met while modelling and kept in the models as the code has them, without a run
of their own:

* Relay: the completion flags of one item are still set when the next is claimed
  (`relay.go:343`); a bare heartbeat without a lease ends the relay in a panic.
* Campaign: one halted in a tick reports `running` until its goroutine ends; a
  setup that fails without its record being written is retried at the next
  tick; Start whose first write fails leaves an active record without a
  goroutine.
* Campaign and worker: a launch that returns an error over a live provider
  (`worker.go:516-518`, `1508-1513`) backs off one lane, takes no slot and
  leaves no probe (`campaign.go:670-677`); a failed tmux query makes a live
  worker failed for the tick (`worker.go:1378`): in both cases a role can have
  more live workers than its capacity.  A Stop between Launch's last Git call and
  its first record (`worker.go:357-379`) still begins a record.
* Worker: an error of `has-session`, a caller's that has given up included,
  counts as "no terminal" (`worker.go:875`, `1452-1455`): Stop then writes
  stopped over a live host provider, which `NothingRunsAfterStop` has to exempt
  (`unseen`).
* Worker: the cleanup of a failed or lost OCI worker whose container still runs
  looks for uncommitted work before it stops the container
  (`worker.go:699`) and can lose edits; a provider that moved HEAD away before
  its target is recorded makes Stop refuse (`worker.go:643`); a stop given by a
  second manager, the CLI's, during the node's launch is overtaken by the
  launch's last write (`worker.go:516`).
* Target: after a push whose answer or whose marker write was lost
  (`target.go:218`) every later push is refused, for the pull request is at a
  head the marker does not know; a detached prepare killed between its checkout
  and the marker cannot be repeated; `checkout -B` drops commits made before
  the preparation.
* Kit: moving a drifted kit aside and installing the floor take no lock, and
  the lock file goes with the directory, so launches that hold it exclude
  nobody any more (`StartsOnActiveKit` exempts them); a floor cut while it was
  being installed, followed by another release's `node up`, is not repaired
  either.
* Node: an installation cut after its record was written and before the restart
  leaves record and environment as declared; the next `node up` finds the old
  process healthy and skips, so a change of arguments or environment only never
  takes effect, and `node restart` then starts a service that was never enabled
  (`Revealed` in `NodeConverges` excludes exactly this); an uninstallation cut
  after the unit file is gone cannot be repeated.

## 7. Not modelled

* Worker manager: consoles; a `List` that fails for all workers because of one;
  commits made on a HEAD that
  left the worker's branch (`unkept` follows the branch, as the fetch does); an
  operator who repairs a torn workspace by hand.  A clone torn by a crash
  between its creation and its checkout, or by a removal that stopped half way,
  is modelled and is never cleaned by Cockpit: `CleanupConverges` excludes it.
* Two `node` commands at once, and `node up` beside an uninstallation.
* The catalog file (a list behind one mutex of the node process), the fleet
  planner and the classifier's rules: pure functions of one answer, covered by
  table tests.  The campaign sees their results.
* Receipts' and markers' encodings, the parsing of the configuration, the
  rendering of unit files, reading a bundle out of Git.
* The node API, dashboard, doctor, command line and launcher scripts: no state
  or concurrency of their own.

Snowcat, GitHub, git, tmux, systemd and the providers are external and appear
only as what the code can observe of them.
