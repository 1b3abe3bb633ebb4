------------------------------ MODULE Campaign ------------------------------
(***************************************************************************)
(* The board campaign controller, internal/campaign/campaign.go.  The node *)
(* API starts and stops it; one goroutine (run) sets up the repositories,  *)
(* proves the providers and then, once per tick, reconciles: it lists the  *)
(* workers, observes the queue, settles the workers that exited, cleans    *)
(* workspaces and launches workers into free lanes.  Between any two of    *)
(* its calls the API, the workers, Snowcat and the clock may act.          *)
(*                                                                         *)
(* A lane is a repository and a role.  Which lane is tried first is left   *)
(* open (the code goes round-robin, in name order); what repositories and  *)
(* providers are shown as is left out, except that some may block.         *)
(***************************************************************************)
EXTENDS CampaignRecord, Naturals, FiniteSets

CONSTANTS
  Repos,       \* the enrolled repositories
  Roles,       \* the launchable roles
  ProviderOf,  \* provider and MCP server of each role's lane
  Capacity,    \* and its capacity
  Backoff,     \* five minutes, in steps of the clock
  MaxItems,    \* bound: claimable items of one lane
  MaxWorkers,  \* bound: workers ever launched
  Restarts,    \* may a campaign be started after an earlier one?
  MaxSilent    \* bound: workers tmux ever fails to say of whether they run

ASSUME CampaignAssumption ==
  /\ ProviderOf \in [Roles -> {ProviderOf[k] : k \in Roles}]
  /\ Capacity \in [Roles -> Nat \ {0}]
  /\ Backoff \in Nat \ {0} /\ MaxItems \in Nat /\ MaxWorkers \in Nat /\ MaxSilent \in Nat
  /\ Restarts \in BOOLEAN
  /\ IsFiniteSet(Repos) /\ IsFiniteSet(Roles)

VARIABLES
  up,           \* the node process runs
  pc,           \* where run is
  ready,        \* the repositories whose setup succeeded
  fresh,        \* providers whose proof is good for two more minutes
  backoff,      \* controller.backoff: time left of each named backoff
  laneFailure,  \* controller.laneFailures: time left of each lane's failure
  probe,        \* controller.probes
  candidates,   \* controller.cleanupCandidates
  slots,        \* reconcile: what is left of each lane's capacity
  left,         \* reconcile: observed items not taken or reserved yet
  exits,        \* reconcile: workers with a probe found exited or failed
  paused,       \* reconcile: roles with an exit whose outcome is not known
  proven,       \* reconcile: preflightReady
  target,       \* reconcile: the lane being launched
  worker,       \* the worker manager's records, and what each has claimed
  items,        \* Snowcat: claimable items of each lane
  missed,       \* history: live workers that this tick does not count
  stray,        \* history: workers that may run without a probe, or did
  cut           \* history: the step of Launch that Stop or Close crossed

nodeVars == <<up, cut>>
runVars == <<ready, fresh, backoff, laneFailure, probe, candidates>>
tickVars == <<slots, left, exits, paused, proven, target, missed>>
worldVars == <<worker, items, stray>>
vars == <<record, disk, stateFailed, ctx, up, pc, ready, fresh, backoff,
          laneFailure, probe, candidates, slots, left, exits, paused, proven,
          target, worker, items, missed, stray, cut>>

Lanes == Repos \X Roles
NoLane == <<>>
Providers == {ProviderOf[k] : k \in Roles}
Workers == 1 .. MaxWorkers

\* The names under which the controller backs off.
BackoffKeys == ({"launch"} \X Lanes) \cup ({"setup"} \X Repos)
                 \cup ({"preflight"} \X Providers)

Phases == {"none", "setup", "preflight", "prepared",
           "list", "confirm", "observe", "settle", "sweep", "plan",
           "launch", "refreshing", "launching", "recording", "allocating",
           "starting", "started", "waiting", "returning"}

\* Launch works on a worker that has its record; Launch holds manager.mutex.
Placing == {"allocating", "starting", "started"}
InLaunch == {"launching", "recording"} \cup Placing

Probes == {"none", "fresh", "stable", "claimed"}
WorkerStatus == {"none", "allocating", "running", "exited", "failed",
                 "stopped", "cleaned"}
Exits == [id : Workers, status : {"exited", "failed"}]
NoWorker ==
  [lane |-> NoLane, status |-> "none", item |-> "none", provider |-> FALSE]

TypeOK ==
  /\ RecordTypeOK
  /\ up \in BOOLEAN /\ pc \in Phases
  /\ ready \subseteq Repos /\ fresh \subseteq Providers
  /\ backoff \in [BackoffKeys -> 0 .. Backoff]
  /\ laneFailure \in [Lanes -> 0 .. Backoff]
  /\ probe \in [Workers -> Probes]
  /\ candidates \subseteq Workers
  /\ slots \in [Roles -> Nat]
  /\ left \in [Lanes -> 0 .. MaxItems]
  /\ exits \subseteq Exits
  /\ paused \subseteq Roles /\ proven \subseteq Providers
  /\ target \in Lanes \cup {NoLane}
  /\ worker \in [Workers -> [lane : Lanes \cup {NoLane}, status : WorkerStatus,
                             item : {"none", "claimed", "done"},
                             provider : BOOLEAN]]
  /\ items \in [Lanes -> 0 .. MaxItems]
  /\ missed \subseteq Workers /\ stray \subseteq Workers
  /\ cut \in {"none", "recording", "starting"}

\* What reconcile computed is forgotten between ticks.
TickForgotten ==
  /\ slots' = [k \in Roles |-> 0] /\ left' = [l \in Lanes |-> 0]
  /\ exits' = {} /\ paused' = {} /\ proven' = {} /\ target' = NoLane
  /\ missed' = {}

RunForgotten ==
  /\ ready' = {} /\ fresh' = {}
  /\ backoff' = [b \in BackoffKeys |-> 0]
  /\ laneFailure' = [l \in Lanes |-> 0]
  /\ probe' = [w \in Workers |-> "none"] /\ candidates' = {}

Init ==
  /\ RecordInit
  /\ up = TRUE /\ pc = "none"
  /\ ready = {} /\ fresh = {}
  /\ backoff = [b \in BackoffKeys |-> 0]
  /\ laneFailure = [l \in Lanes |-> 0]
  /\ probe = [w \in Workers |-> "none"] /\ candidates = {}
  /\ slots = [k \in Roles |-> 0] /\ left = [l \in Lanes |-> 0]
  /\ exits = {} /\ paused = {} /\ proven = {} /\ target = NoLane
  /\ worker = [w \in Workers |-> NoWorker]
  /\ items = [l \in Lanes |-> 0]
  /\ missed = {} /\ stray = {} /\ cut = "none"

-----------------------------------------------------------------------------
\* The node API and the node's own life.

Start ==
  /\ up /\ ~IsActive(record)
  /\ Restarts \/ record.status = "never-run"
  /\ \/ StartWritten /\ RunForgotten /\ pc' = "setup"
     \/ StartUnwritten /\ UNCHANGED <<pc, runVars>>
  /\ UNCHANGED <<nodeVars, tickVars, worldVars>>

\* The context is cancelled where Launch has looked at it for the last time
\* before it writes the worker's record, or before tmux starts the provider.
Cross == cut' = IF ctx = "live" /\ pc \in {"recording", "starting"} THEN pc ELSE cut

Stop ==
  /\ up /\ StopRecord /\ Cross
  /\ UNCHANGED <<up, pc, runVars, tickVars, worldVars>>

\* Close at node shutdown: cancels, and waits for run to return.
Close ==
  /\ up /\ ctx = "live" /\ Cancel /\ Cross
  /\ UNCHANGED <<record, disk, stateFailed, up, pc, runVars, tickVars, worldVars>>

\* The process ends between two steps; a launch in progress stays allocating.
Crash ==
  /\ up /\ Restarts
  /\ up' = FALSE /\ pc' = "none" /\ ctx' = "none" /\ cut' = "none"
  /\ RunForgotten /\ TickForgotten
  /\ UNCHANGED <<record, disk, stateFailed, worldVars>>

Boot ==
  /\ ~up /\ up' = TRUE
  /\ OpenRecord
  /\ UNCHANGED <<cut, pc, runVars, tickVars, worldVars>>

-----------------------------------------------------------------------------
\* run, up to its loop.

BackedOff(names) == [b \in BackoffKeys |-> IF b \in names THEN Backoff ELSE backoff[b]]

\* setupRepositories.  A Setup that fails without returning its record is
\* backed off under no repository's name.
SetupRepositories ==
  /\ up /\ pc = "setup"
  /\ \/ /\ Degrade /\ UNCHANGED <<ready, backoff>>
     \/ /\ \E good \in SUBSET Repos, named \in SUBSET Repos :
             /\ ready' = good
             /\ backoff' = BackedOff({"setup"} \X (named \ good))
        /\ PersistAll(record)
  /\ pc' = IF ctx' = "live" THEN "preflight" ELSE "returning"
  /\ UNCHANGED <<nodeVars, fresh, laneFailure, probe, candidates, tickVars, worldVars>>

\* refreshPreflights: every provider once, none without a repository.
RefreshPreflights ==
  /\ up /\ pc = "preflight"
  /\ IF ready = {} THEN UNCHANGED <<fresh, backoff, recordVars>>
     ELSE /\ \E good \in SUBSET Providers :
               /\ fresh' = good
               /\ backoff' = BackedOff({"preflight"} \X (Providers \ good))
          /\ PersistAll(record)
  /\ pc' = IF ctx' = "live" THEN "prepared" ELSE "returning"
  /\ UNCHANGED <<nodeVars, ready, laneFailure, probe, candidates, tickVars, worldVars>>

SetRunningStatus ==
  /\ up /\ pc = "prepared"
  /\ SetStatus(IF ready # {} /\ fresh # {} THEN "running" ELSE "degraded")
  /\ pc' = "list"
  /\ UNCHANGED <<nodeVars, runVars, tickVars, worldVars>>

-----------------------------------------------------------------------------
\* reconcile, from the worker list to the plan.

\* A check of the context and of the halt latch, which ends the tick.
MayGoOn == ctx = "live" /\ ~stateFailed

\* reconcile's active: the workers of a role that the list shows as live.
RunningOnly(shown, k) ==  \* Mutant: those being allocated are not counted
  {w \in Workers : shown[w] = "running" /\ worker[w].lane[2] = k}
Listed(shown, k) ==
  {w \in Workers : shown[w] \in {"allocating", "running"} /\ worker[w].lane[2] = k}

FreeSlots(shown) ==
  [k \in Roles |-> IF Cardinality(Listed(shown, k)) < Capacity[k]
                  THEN Capacity[k] - Cardinality(Listed(shown, k)) ELSE 0]

\* inspectLaunchProbes: a probe that was never seen running is not stable.
InspectLaunchProbes(shown) ==
  /\ probe' = [w \in Workers |->
       CASE shown[w] = "running" /\ probe[w] = "fresh" -> "stable"
         [] shown[w] \in {"stopped", "cleaned"} -> "none"
         [] OTHER -> probe[w]]
  /\ exits' = {x \in Exits : probe[x.id] # "none" /\ shown[x.id] = x.status}

\* The list asks tmux of the workers recorded as running.  Where tmux gives no
\* answer (the context may be cancelled meanwhile) it shows them as failed.
ListWorkers ==
  /\ up /\ pc = "list" /\ MayGoOn
  /\ \/ /\ Degrade /\ pc' = "waiting"
        /\ UNCHANGED <<probe, slots, exits, missed, stray>>
     \/ \E silent \in SUBSET {w \in Workers : worker[w].status \in {"running", "exited"}} :
          /\ silent # {} => Cardinality(stray \cup silent) <= MaxSilent
          /\ missed' = {w \in silent : worker[w].status = "running"}
          /\ stray' = stray \cup missed'
          /\ LET shown == [w \in Workers |->
                             IF w \in silent THEN "failed" ELSE worker[w].status]
             IN slots' = FreeSlots(shown) /\ InspectLaunchProbes(shown)
          /\ pc' = "confirm" /\ UNCHANGED recordVars
  /\ UNCHANGED <<nodeVars, ready, fresh, backoff, laneFailure, candidates, left,
                 paused, proven, target, worker, items>>

\* The launch loop looks at a repository for some role.
InLoop == ready # {} /\ \E k \in Roles : ProviderOf[k] \in proven /\ slots[k] > 0

\* Where reconcile returns: at its first check, or in the launch loop.
EndTick ==
  /\ up /\ ~MayGoOn
  /\ pc = "launch" => InLoop
  /\ pc \in {"list", "launch"}
  /\ pc' = "waiting" /\ TickForgotten
  /\ UNCHANGED <<recordVars, nodeVars, runVars, worldVars>>

\* confirmPendingClaims: any of the correlation calls may fail, and all do
\* once the context is cancelled.
ConfirmPendingClaims ==
  /\ up /\ pc = "confirm"
  /\ LET Claimed == {w \in Workers : probe[w] = "stable" /\ worker[w].item # "none"
                                     /\ \A x \in exits : x.id # w}
     IN \E seen \in SUBSET Claimed :
          probe' = [w \in Workers |-> IF w \in seen THEN "claimed" ELSE probe[w]]
  /\ pc' = "observe"
  /\ UNCHANGED <<recordVars, nodeVars, ready, fresh, backoff, laneFailure, candidates,
                 tickVars, worldVars>>

\* One Observe per ready repository; a failed one counts as no items.
ObserveQueue ==
  /\ up /\ pc = "observe"
  /\ \E observed \in SUBSET ready :
       left' = [l \in Lanes |-> IF l[1] \in observed THEN items[l] ELSE 0]
  /\ IF ready = {} THEN UNCHANGED recordVars ELSE PersistAll(record)
  /\ pc' = "settle"
  /\ UNCHANGED <<nodeVars, runVars, slots, exits, paused, proven, target, missed,
                 worldVars>>

\* What ObserveWorker may say of a worker.
Outcomes == {"unmatched", "claimed", "terminal", "ambiguous", "unknown"}
Outcome(w) ==
  {"unknown"} \cup
  CASE worker[w].item = "none" -> {"unmatched"}
    [] worker[w].item = "claimed" -> {"claimed", "ambiguous"}
    [] worker[w].item = "done" -> {"terminal", "ambiguous"}

LaneFails(x, outcome) ==
  \/ outcome \in {"claimed", "ambiguous"}
  \/ outcome = "unmatched" /\ (probe[x.id] = "fresh" \/ x.status = "failed")

\* markCleanupCandidate: nothing about the workspace can still matter.
AnyExitIsCandidate(x, outcome) ==  \* Mutant: the outcome is not looked at
  outcome # "unknown" /\ x.status = "exited"
IsCandidate(x, outcome) ==
  /\ x.status = "exited"
  /\ \/ outcome = "terminal"
     \/ outcome = "unmatched" /\ probe[x.id] # "fresh"

\* reconcileWorkerExits: an outcome that cannot be had pauses the role.
SettleExits ==
  /\ up /\ pc = "settle"
  /\ \E outcome \in [exits -> Outcomes] :
       /\ \A x \in exits : outcome[x] \in Outcome(x.id)
       /\ LET Known == {x \in exits : outcome[x] # "unknown"}
              Failed == {worker[x.id].lane :
                           x \in {y \in Known : LaneFails(y, outcome[y])}}
          IN /\ probe' = [w \in Workers |->
                            IF \E x \in Known : x.id = w THEN "none" ELSE probe[w]]
             /\ backoff' = BackedOff({"launch"} \X Failed)
             /\ laneFailure' = [l \in Lanes |->
                                  IF l \in Failed THEN Backoff ELSE laneFailure[l]]
             /\ candidates' = candidates \cup
                  {x.id : x \in {y \in Known : IsCandidate(y, outcome[y])}}
             /\ paused' = {worker[x.id].lane[2] : x \in exits \ Known}
  /\ exits' = {} /\ pc' = "sweep"
  /\ UNCHANGED <<recordVars, nodeVars, ready, fresh, slots, left, proven, target,
                 missed, worldVars>>

\* sweepCleanupCandidates: the retention policy picks some, Cleanup refuses
\* some of those (a workspace with changes), recordCleanup counts the rest.
SweepCleanupCandidates ==
  /\ up /\ pc = "sweep"
  /\ \E cleaned \in SUBSET candidates :
       /\ cleaned # {} => ctx = "live"
       /\ worker' = [w \in Workers |-> IF w \in cleaned
                       THEN [worker[w] EXCEPT !.status = "cleaned"] ELSE worker[w]]
       /\ candidates' = candidates \ cleaned
       /\ IF cleaned = {} THEN UNCHANGED recordVars ELSE PersistAll(record)
  /\ pc' = "plan"
  /\ UNCHANGED <<nodeVars, ready, fresh, backoff, laneFailure, probe, tickVars, items,
                 stray>>

-----------------------------------------------------------------------------
\* reconcile, from the plan to the launches.

\* pendingLaunchCounts: live workers of the lane still to make their claim.
NothingReserved(l) == {}  \* Mutant: items are not reserved for them
Reserved(l) == {w \in Workers : probe[w] = "stable" /\ worker[w].lane = l}

\* The observed items of a lane without the reserved ones.
ReserveBelowZero(n, reserved) == n - reserved  \* Mutant: no floor
AfterReserving(n, reserved) == IF n > reserved THEN n - reserved ELSE 0

BlockedRoles == paused \cup {l[2] : l \in {m \in Lanes : laneFailure[m] > 0}}

\* The providers of the roles ensureLanePreflight is asked for.
BlockedRolesAsked == Providers  \* Mutant: blocked roles are not left out
AskedProviders == {ProviderOf[k] : k \in Roles \ BlockedRoles}

\* Subtract, block, and prove the providers that have eligible work.
Plan ==
  /\ up /\ pc = "plan"
  /\ left' = [l \in Lanes |-> AfterReserving(left[l], Cardinality(Reserved(l)))]
  /\ LET Eligible == {ProviderOf[l[2]] : l \in {m \in Lanes :
                        left'[m] > 0 /\ m[2] \notin BlockedRoles}}
         Refreshed == {p \in (AskedProviders \ fresh) \cap Eligible :
                         backoff[<<"preflight", p>>] = 0}
     IN \E good \in SUBSET Refreshed :
          /\ fresh' = fresh \cup good
          /\ proven' = AskedProviders \cap fresh'
          /\ backoff' = BackedOff({"preflight"} \X (Refreshed \ good))
          /\ IF AskedProviders \subseteq fresh /\ BlockedRoles = {}
             THEN UNCHANGED recordVars ELSE PersistAll(record)
  /\ pc' = "launch"
  /\ UNCHANGED <<nodeVars, ready, laneFailure, probe, candidates, slots, exits,
                 paused, target, missed, worldVars>>

\* What the launch loop asks of a lane: the role's provider is proven, the
\* lane has items left and capacity, and no launch backoff.
Launchable(l) ==
  /\ ProviderOf[l[2]] \in proven
  /\ slots[l[2]] > 0 /\ left[l] > 0
  /\ backoff[<<"launch", l>>] = 0

\* The loop picks a lane and passes its checks.
ChooseLane(l) ==
  /\ up /\ pc = "launch" /\ MayGoOn
  /\ Launchable(l)
  /\ target' = l
  /\ pc' = IF l[2] = "implementer" THEN "refreshing" ELSE "launching"
  /\ UNCHANGED <<recordVars, nodeVars, runVars, slots, left, exits, paused, proven,
                 missed, worldVars>>

\* A lane that is backed off is shown as degraded, a write that may fail.
ShowBackedOff(l) ==
  /\ up /\ pc = "launch" /\ MayGoOn
  /\ ProviderOf[l[2]] \in proven /\ slots[l[2]] > 0 /\ left[l] > 0
  /\ backoff[<<"launch", l>>] > 0
  /\ PersistAll(record)
  /\ UNCHANGED <<nodeVars, pc, runVars, tickVars, worldVars>>

\* A failed setup or launch backs the lane off and the loop goes on.
LaneBackedOff ==
  /\ backoff' = BackedOff({<<"launch", target>>})
  /\ PersistAll(record)
  /\ pc' = "launch" /\ target' = NoLane
  /\ UNCHANGED <<nodeVars, ready, fresh, laneFailure, probe, candidates, slots, left,
                 exits, paused, proven>>

\* refreshImplementationBase, before an implementer is launched.
RefreshBase ==
  /\ up /\ pc = "refreshing"
  /\ \/ LaneBackedOff
        /\ UNCHANGED missed
     \/ /\ PersistAll(record) /\ pc' = "launching"
        /\ UNCHANGED <<nodeVars, runVars, tickVars>>
  /\ UNCHANGED worldVars

\* A step of the launch that only gets further.
LaunchGoesOn(next) ==
  /\ pc' = next
  /\ UNCHANGED <<recordVars, nodeVars, runVars, tickVars>>

\* Launch is refused before the worker's first record: something is not ready,
\* a git call or that write fails.
RefuseLaunch ==
  /\ up /\ pc \in {"launching", "recording"}
  /\ LaneBackedOff /\ UNCHANGED <<missed, worldVars>>

\* A command is not started under a cancelled context, and killed by it.
CancelIgnored == TRUE  \* Mutant: Launch does not run under the context
LaunchAllowed == ctx = "live"

\* inspectBase returns from its last git call.
PassInspection ==
  /\ up /\ pc = "launching" /\ LaunchAllowed
  /\ LaunchGoesOn("recording") /\ UNCHANGED worldVars

\* The worker's first record is written, whatever the context is by then.
BeginLaunch ==
  /\ up /\ pc = "recording"
  /\ \E w \in Workers :
       /\ worker[w].status = "none"
       /\ \A v \in Workers : worker[v].status = "none" => w <= v
       /\ worker' = [worker EXCEPT ![w] =
                       [lane |-> target, status |-> "allocating", item |-> "none",
                        provider |-> FALSE]]
  /\ LaunchGoesOn("allocating") /\ UNCHANGED <<items, stray>>

\* The worker whose launch is in progress.
Launching(w) == worker[w].status = "allocating" /\ probe[w] = "none"
                  /\ \A v \in Workers : v > w => worker[v].status = "none"

\* The workspace is made and the tmux command of startTmux started.
AllowStart ==
  /\ up /\ pc = "allocating" /\ LaunchAllowed
  /\ LaunchGoesOn("starting") /\ UNCHANGED worldVars

\* It respawns the pane: the provider runs, and its record does not say so.
StartProvider ==
  /\ up /\ pc = "starting"
  /\ \E w \in Workers :
       /\ Launching(w)
       /\ worker' = [worker EXCEPT ![w].provider = TRUE]
       /\ stray' = stray \cup {w}
  /\ LaunchGoesOn("started") /\ UNCHANGED items

\* Launch returns: addWorker, addLaunchProbe, one slot and item fewer.
SlotsAfterLaunch == [slots EXCEPT ![target[2]] = @ - 1]

FinishLaunch ==
  /\ up /\ pc = "started"
  /\ \E w \in Workers :
       /\ Launching(w)
       /\ worker' = [worker EXCEPT ![w].status = "running"]
       /\ probe' = [probe EXCEPT ![w] = "fresh"]
       /\ stray' = stray \ {w}
  /\ slots' = SlotsAfterLaunch
  /\ left' = [left EXCEPT ![target] = @ - 1]
  /\ PersistAll(record)
  /\ pc' = "launch" /\ target' = NoLane
  /\ UNCHANGED <<nodeVars, ready, fresh, backoff, laneFailure, candidates, exits,
                 paused, proven, missed, items>>

\* What a launch that returns an error may leave of its worker: a record that
\* says failed or, when that write or the last one fails, allocating; and the
\* provider running, once tmux was asked for it.
Remains ==
  [status : IF pc = "started" THEN {"allocating"} ELSE {"failed", "allocating"},
   provider : CASE pc = "allocating" -> {FALSE}
                [] pc = "starting" -> BOOLEAN
                [] pc = "started" -> {TRUE}]

\* A step of the launch fails, as it does when the context is cancelled before
\* the last command.  The loop takes no slot and no item for it, and leaves no
\* probe.
FailLaunch ==
  /\ up /\ pc \in Placing
  /\ \E w \in Workers, rest \in Remains :
       /\ Launching(w)
       /\ worker' = [worker EXCEPT ![w].status = rest.status,
                                   ![w].provider = rest.provider]
       /\ stray' = IF rest.provider THEN stray \cup {w} ELSE stray
       /\ missed' = missed \cup {w}
  /\ LaneBackedOff /\ UNCHANGED items

\* Nothing is left to launch: setReconciledStatus, with blockers or without.
FinishTick ==
  /\ up /\ pc = "launch"
  /\ \A l \in Lanes : ~Launchable(l)
  /\ \E status \in {"running", "degraded"} : SetStatus(status)
  /\ pc' = "waiting" /\ TickForgotten
  /\ UNCHANGED <<nodeVars, runVars, worldVars>>

\* The ticker: retryRepositorySetup, then reconcile again.  With the context
\* cancelled too, select may still take this case.
NextTick ==
  /\ up /\ pc = "waiting"
  /\ \/ Degrade /\ UNCHANGED <<ready, backoff>>
     \/ LET Retried == {r \in Repos \ ready : backoff[<<"setup", r>>] = 0}
        IN \E good \in SUBSET Retried :
             /\ ready' = ready \cup good
             /\ backoff' = BackedOff({"setup"} \X (Retried \ good))
             /\ IF good = {} THEN UNCHANGED recordVars ELSE PersistAll(record)
  /\ pc' = "list"
  /\ UNCHANGED <<nodeVars, fresh, laneFailure, probe, candidates, tickVars, worldVars>>

\* run returns.  What it remembers is not looked at again: Start resets it.
Finalize ==
  /\ up /\ pc \in {"waiting", "returning"} /\ ctx = "cancelled"
  /\ FinalizeStopped
  /\ pc' = "none" /\ RunForgotten /\ cut' = "none"
  /\ UNCHANGED <<up, tickVars, worldVars>>

-----------------------------------------------------------------------------
\* The world: clock, Snowcat, workers, operator.

TimePasses ==
  /\ \/ \E b \in BackoffKeys : backoff[b] > 0
     \/ \E l \in Lanes : laneFailure[l] > 0
  /\ backoff' = [b \in BackoffKeys |-> IF backoff[b] = 0 THEN 0 ELSE backoff[b] - 1]
  /\ laneFailure' = [l \in Lanes |->
                       IF laneFailure[l] = 0 THEN 0 ELSE laneFailure[l] - 1]
  /\ UNCHANGED <<recordVars, nodeVars, pc, ready, fresh, probe, candidates, tickVars,
                 worldVars>>

ProofExpires(p) ==
  /\ p \in fresh /\ fresh' = fresh \ {p}
  /\ UNCHANGED <<recordVars, nodeVars, pc, ready, backoff, laneFailure, probe,
                 candidates, tickVars, worldVars>>

WorldStep == UNCHANGED <<recordVars, nodeVars, pc, runVars, tickVars>>

\* A human or the verifier makes an item claimable.
Admit(l) ==
  /\ items[l] < MaxItems /\ items' = [items EXCEPT ![l] = @ + 1]
  /\ UNCHANGED <<worker, stray>> /\ WorldStep

\* A worker claims an item of its lane; its attempt ends, or its lease
\* expires and the item is claimable again; its provider exits.
Claim(w) ==
  /\ worker[w].provider /\ worker[w].item = "none"
  /\ items[worker[w].lane] > 0
  /\ worker' = [worker EXCEPT ![w].item = "claimed"]
  /\ items' = [items EXCEPT ![worker[w].lane] = @ - 1]
  /\ UNCHANGED stray /\ WorldStep

EndAttempt(w) ==
  /\ worker[w].item = "claimed"
  /\ worker' = [worker EXCEPT ![w].item = "done"]
  /\ \/ worker[w].provider /\ UNCHANGED items
     \/ /\ items[worker[w].lane] < MaxItems
        /\ items' = [items EXCEPT ![worker[w].lane] = @ + 1]
  /\ UNCHANGED stray /\ WorldStep

Exit(w) ==
  /\ worker[w].status = "running"
  /\ \E status \in {"exited", "failed"} :
       worker' = [worker EXCEPT ![w].status = status, ![w].provider = FALSE]
  /\ UNCHANGED <<items, stray>> /\ WorldStep

\* The operator stops or cleans a worker, live or not, which is one to the
\* campaign; its provider may survive (stopTerminalLocked, see Worker).  The
\* worker manager does one call at a time.
Retire(w) ==
  /\ worker[w].status \in {"allocating", "running", "exited", "failed"}
  /\ pc \notin InLaunch
  /\ \E survives \in {FALSE, worker[w].provider} :
       /\ survives => Cardinality(stray \cup {w}) <= MaxSilent
       /\ worker' = [worker EXCEPT ![w].status = "stopped", ![w].provider = survives]
       /\ stray' = IF survives THEN stray \cup {w} ELSE stray
  /\ UNCHANGED items /\ WorldStep

-----------------------------------------------------------------------------
RunStep ==
  \/ SetupRepositories \/ RefreshPreflights \/ SetRunningStatus
  \/ ListWorkers \/ EndTick \/ ConfirmPendingClaims \/ ObserveQueue
  \/ SettleExits \/ SweepCleanupCandidates \/ Plan
  \/ \E l \in Lanes : ChooseLane(l)
  \/ RefreshBase \/ RefuseLaunch \/ PassInspection \/ BeginLaunch \/ AllowStart
  \/ StartProvider \/ FinishLaunch \/ FailLaunch \/ FinishTick

Next ==
  \/ Start \/ Stop \/ Close \/ Crash \/ Boot
  \/ RunStep \/ NextTick \/ Finalize
  \/ \E l \in Lanes : ShowBackedOff(l) \/ Admit(l)
  \/ TimePasses \/ \E p \in Providers : ProofExpires(p)
  \/ \E w \in Workers : Claim(w) \/ EndAttempt(w) \/ Exit(w) \/ Retire(w)

Spec == Init /\ [][Next]_vars

\* Every call of the controller returns, and select, offered the ticker and
\* the cancelled context at once, does not take the ticker for ever.
FairSpec == Spec /\ WF_vars(RunStep) /\ SF_vars(Finalize)

-----------------------------------------------------------------------------
\* Properties.

\* The workers of a role that live by their records, and those of them that the
\* tick counts.
Alive(k) == {w \in Workers : /\ worker[w].status \in {"allocating", "running"}
                             /\ worker[w].lane[2] = k}
Counted(k) == Alive(k) \ missed

Begins(l) == \E w \in Workers : /\ worker[w].status = "none"
                                /\ worker'[w].status = "allocating"
                                /\ worker'[w].lane = l

\* However ticks, launches, exits, stops and restarts follow each other, a
\* worker is begun only while its role has fewer live workers than its
\* capacity.  Not counted, as the code does not count them: those whose launch
\* returned an error in this tick (of which a provider may run, the record
\* saying failed), and those that tmux was silent about when the tick began.
CapacityKept ==
  [][\A l \in Lanes : Begins(l) => Cardinality(Counted(l[2])) < Capacity[l[2]]]_vars

Unclaimed(l) == {w \in Workers : /\ worker[w].lane = l /\ worker[w].item = "none"
                                 /\ worker[w].status = "running" /\ w \notin stray}
TakenByStray(l) == {w \in stray : worker[w].lane = l /\ worker[w].item # "none"}

\* No second worker is launched into the gap between a worker's start and its
\* claim (pendingLaunchCounts): while nobody else claims, a lane never has
\* more workers without an item than it has claimable items, those apart that
\* were claimed by workers no probe is left of.
ClaimGapIsReserved ==
  \A l \in Lanes : Cardinality(Unclaimed(l)) <= items[l] + Cardinality(TakenByStray(l))

\* Only a worker that exited cleanly and whose item no longer hangs on it is
\* cleaned, now or at a later sweep (boards rule 12), even if the operator has
\* stopped it since it was seen to exit.
OnlySettledAreCleaned ==
  \A w \in Workers :
    w \in candidates \/ worker[w].status = "cleaned" =>
      worker[w].status \in {"exited", "stopped", "cleaned"} /\ worker[w].item # "claimed"

\* While a campaign runs and is not halted, campaign.json is what the node
\* API reports, a failed Stop write excepted: no write is lost silently.
DiskIsCurrent ==
  up /\ pc # "none" /\ ~stateFailed /\ record.status # "stopping" => disk = record

\* A campaign that lost a write says so once it has stopped, also when its
\* last write succeeds (boards rule 13).
HaltReasonSurvives ==
  up /\ stateFailed /\ record.status = "stopped" => record.detail = "stale"

Starts == pc = "starting" /\ pc' = "started"

\* Once the campaign has been stopped, halted or closed no worker is begun and
\* no provider started, whatever the loop had checked before: but for the
\* worker whose record was about to be written, and the provider tmux was being
\* asked for, when Stop or Close came.
Ending == record.status = "stopping" \/ stateFailed \/ ctx = "cancelled"
StopEndsLaunches ==
  [][Ending => /\ (\E l \in Lanes : Begins(l)) => cut = "recording"
               /\ Starts => cut = "starting"]_vars

\* A role with an exit whose outcome is not known, or with a failed lane, is
\* not refilled in that tick (boards rule 7).
BlockedRolesStayEmpty ==
  [][\A l \in Lanes : Begins(l) => l[2] \notin BlockedRoles]_vars

\* A stopping campaign gets to be stopped, unless the node goes down first.
StopCompletes == (record.status = "stopping") ~> (record.status = "stopped" \/ ~up)

\* A campaign reported active is being reconciled, also after a node restart
\* (ADR-0008: "continually reconciles ... until the operator stops it").
ActiveIsReconciled == up /\ IsActive(record) => pc # "none"
=============================================================================
