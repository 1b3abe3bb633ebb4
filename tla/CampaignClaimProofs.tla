------------------------ MODULE CampaignClaimProofs -------------------------
(***************************************************************************)
(* The gap between a worker's start and its claim (pendingLaunchCounts),   *)
(* for any repositories, roles, capacities and bounds: theorems about a    *)
(* node's first campaign, while nobody but its workers claims, and about   *)
(* which records a campaign goroutine stands behind.                       *)
(***************************************************************************)
EXTENDS CampaignProofs

\* A campaign reported active has its goroutine, as long as the initial write
\* of Start succeeds: no stop, shutdown, crash or boot parts the two.
THEOREM ActiveHasRun == ~WritesFail => (Spec => []ActiveIsReconciled)
<1> SUFFICES ASSUME ~WritesFail PROVE Spec => []ActiveIsReconciled
  OBVIOUS
<1>1. Init => ActiveIsReconciled
  BY DEF Init, RecordInit, Rec, IsActive, ActiveStatus, ActiveIsReconciled
<1>2. RecordInv /\ ActiveIsReconciled /\ [Next]_vars => ActiveIsReconciled'
  <2> SUFFICES ASSUME RecordInv, ActiveIsReconciled, [Next]_vars,
                      up', IsActive(record')
               PROVE  pc' # "none"
    BY DEF ActiveIsReconciled
  <2> USE DEF ActiveIsReconciled, IsActive, ActiveStatus, Rec
  <2>1. CASE Start
    BY <2>1 DEF Start, StartUnwritten
  <2>2. CASE Stop \/ Close
    BY <2>2 DEF Stop, StopRecord, Close
  <2>3. CASE Crash \/ Boot
    BY <2>3 DEF Crash, Boot, OpenRecord, Reopened
  <2>4. CASE Finalize
    BY <2>4 DEF Finalize, FinalizeStopped, FinalRecord
  <2>5. CASE Other
    BY <2>5, OtherKeepsPlace DEF recordVars
  <2>6. CASE UNCHANGED vars
    BY <2>6 DEF vars
  <2> QED
    BY <2>1, <2>2, <2>3, <2>4, <2>5, <2>6 DEF Next, Other
<1> QED
  BY <1>1, <1>2, RecordInvKept, PTL DEF Spec

-----------------------------------------------------------------------------
\* The workers of a node's first campaign are all its own.

\* Every worker was begun by this campaign.  One that runs has a probe, which is
\* no longer fresh once the worker has been listed, unless it is stray.
Supervised ==
  /\ up
  /\ record.status = "never-run" => \A w \in Workers : worker[w].status = "none"
  /\ \A w \in Workers :
       /\ worker[w].status = "none" => probe[w] = "none"
       /\ probe[w] = "claimed" => worker[w].item # "none"
       /\ worker[w].status = "running" /\ w \notin stray =>
            /\ pc # "none" => probe[w] # "none"
            /\ pc \in {"confirm", "observe"} => probe[w] # "fresh"

\* The steps that look at no worker.
LEMMA ProbesStay ==
  ASSUME RecordInv, [Next]_vars, ~Start, ~Crash, ~Finalize, ~ListWorkers,
         ~ConfirmPendingClaims, ~SettleExits, ~FinishLaunch
  PROVE  /\ UNCHANGED probe
         /\ pc' \in {"confirm", "observe"} => pc' = pc
         /\ pc' = "none" <=> pc = "none"
<1>1. CASE \/ Stop \/ Close \/ Boot \/ NextTick
           \/ TimePasses \/ \E p \in Providers : ProofExpires(p)
           \/ \E l \in Lanes : ShowBackedOff(l) \/ Admit(l)
           \/ \E w \in Workers : Claim(w) \/ EndAttempt(w) \/ Exit(w) \/ Retire(w)
  BY <1>1
  DEF Stop, Close, Boot, NextTick, TimePasses, ProofExpires,
      ShowBackedOff, Admit, Claim, EndAttempt, Exit, Retire, WorldStep, runVars
<1>2. CASE \/ SetupRepositories \/ RefreshPreflights \/ SetRunningStatus
           \/ EndTick \/ ObserveQueue \/ SweepCleanupCandidates \/ Plan
           \/ \E l \in Lanes : ChooseLane(l)
  BY <1>2
  DEF SetupRepositories, RefreshPreflights, SetRunningStatus, EndTick,
      ObserveQueue, SweepCleanupCandidates, Plan, ChooseLane, runVars
<1>3. CASE \/ RefreshBase \/ RefuseLaunch \/ PassInspection \/ BeginLaunch
           \/ AllowStart \/ StartProvider \/ FailLaunch \/ FinishTick
  BY <1>3
  DEF RefreshBase, RefuseLaunch, PassInspection, BeginLaunch, AllowStart,
      StartProvider, FailLaunch, FinishTick, LaunchGoesOn, LaneBackedOff, runVars,
      Placing
<1>4. CASE UNCHANGED vars
  BY <1>4 DEF vars
<1> QED
  BY <1>1, <1>2, <1>3, <1>4 DEF Next, RunStep

\* Only a campaign that never ran is on a record that says so.
LEMMA NeverRunStays ==
  ASSUME RecordInv, RecordInv', up, [Next]_vars, record'.status = "never-run"
  PROVE  record.status = "never-run" /\ pc = "none" /\ ~BeginLaunch
<1>1. pc' = "none"
  BY DEF RecordInv, IsActive, ActiveStatus
<1>2. CASE Start \/ Stop
  <2>1. record' = Rec("starting", "plain") \/ record' = Rec("stopping", "plain")
    BY <1>2 DEF Start, StartWritten, StartUnwritten, Stop, StopRecord
  <2> QED
    BY <2>1 DEF Rec
<1>3. CASE Close \/ Crash
  BY <1>3 DEF Close, Crash, RecordInv, IsActive, ActiveStatus, BeginLaunch
<1>4. CASE Boot
  BY <1>4 DEF Boot
<1>5. CASE Finalize
  BY <1>5 DEF Finalize, FinalizeStopped, FinalRecord, Halted, Rec, IsActive,
     ActiveStatus, RecordInv, RecordTypeOK, Records
<1>6. CASE Other
  BY <1>1, <1>6, OtherKeepsPlace DEF recordVars, BeginLaunch
<1>7. CASE UNCHANGED vars
  BY <1>1, <1>7 DEF vars, BeginLaunch
<1> QED
  BY <1>2, <1>3, <1>4, <1>5, <1>6, <1>7 DEF Next, Other

\* Every step of a node's first campaign keeps its workers supervised.
LEMMA SupervisedStep ==
  ASSUME ~Restarts, Typed, RecordInv, RecordInv', SettledInv, Supervised, [Next]_vars
  PROVE  Supervised'
<1>a. up' /\ ~Crash /\ ~Boot
  <2>1. ~Crash /\ ~Boot
    BY DEF Crash, Boot, Supervised
  <2> QED
    BY <2>1, OtherKeepsPlace
    DEF nodeVars, Next, Other, Start, Stop, Close, Finalize, vars, Supervised
<1>b. ASSUME NEW w \in Workers PROVE probe[w] \in Probes
  BY DEF Typed, TypeOK
<1>c. ASSUME NEW w \in Workers, ~BeginLaunch
      PROVE  /\ worker'[w].status = "none" <=> worker[w].status = "none"
             /\ worker'[w].status = "running" /\ ~FinishLaunch => worker[w].status = "running"
             /\ worker[w].item # "none" => worker'[w].item # "none"
  BY <1>c, WorkersMove DEF WorkerMoves, SettledInv, Gone
<1>1. record'.status = "never-run" => \A w \in Workers : worker'[w].status = "none"
  BY <1>c, NeverRunStays DEF Supervised
<1>2. ASSUME NEW w \in Workers
      PROVE  /\ worker'[w].status = "none" => probe'[w] = "none"
             /\ probe'[w] = "claimed" => worker'[w].item # "none"
             /\ worker'[w].status = "running" /\ w \notin stray' =>
                  /\ pc' # "none" => probe'[w] # "none"
                  /\ pc' \in {"confirm", "observe"} => probe'[w] # "fresh"
  <2> USE DEF Supervised
  <2>s. ~FinishLaunch /\ w \notin stray' => w \notin stray
    BY StrayMoves
  <2>1. CASE Start
    <3>1. worker[w].status = "none"
      BY <2>1 DEF Start
    <3>2. UNCHANGED worker /\ (probe' = probe \/ probe'[w] = "none")
      BY <2>1 DEF Start, RunForgotten, runVars, worldVars
    <3> QED
      BY <3>1, <3>2
  <2>2. CASE Finalize
    BY <2>2 DEF Finalize, RunForgotten
  <2>3. CASE ListWorkers
    <3>1. UNCHANGED worker /\ pc = "list"
      BY <2>3 DEF ListWorkers
    <3>2. CASE pc' = "waiting"
      BY <2>3, <2>s, <3>1, <3>2 DEF ListWorkers, FinishLaunch
    <3>3. CASE pc' # "waiting"
      <4>1. PICK silent \in SUBSET {v \in Workers : worker[v].status \in {"running", "exited"}},
                 shown \in [Workers -> WorkerStatus] :
              /\ shown = [v \in Workers |->
                            IF v \in silent THEN "failed" ELSE worker[v].status]
              /\ missed' = {v \in silent : worker[v].status = "running"}
              /\ stray' = stray \cup missed'
              /\ InspectLaunchProbes(shown)
        BY <2>3, <3>3, ListShows
      <4>2. probe'[w] = CASE shown[w] = "running" /\ probe[w] = "fresh" -> "stable"
                          [] shown[w] \in {"stopped", "cleaned"} -> "none"
                          [] OTHER -> probe[w]
        BY <4>1 DEF InspectLaunchProbes
      <4>3. worker[w].status = "running" /\ w \notin stray' =>
              shown[w] = "running" /\ w \notin stray
        BY <4>1
      <4> QED
        BY <3>1, <4>2, <4>3
    <3> QED
      BY <3>2, <3>3
  <2>4. CASE ConfirmPendingClaims
    <3>1. /\ pc = "confirm" /\ UNCHANGED <<worker, stray>>
          /\ probe'[w] = probe[w] \/ (/\ probe'[w] = "claimed" /\ probe[w] = "stable"
                                      /\ worker[w].item # "none")
      BY <2>4 DEF ConfirmPendingClaims, worldVars
    <3> QED
      BY <3>1
  <2>5. CASE SettleExits
    <3>1. /\ pc = "settle" /\ pc' = "sweep" /\ UNCHANGED <<worker, stray>>
          /\ probe'[w] = probe[w] \/ (probe'[w] = "none" /\ \E x \in exits : x.id = w)
      BY <2>5 DEF SettleExits, worldVars
    <3>2. (\E x \in exits : x.id = w) => worker[w].status # "running" \/ w \in stray
      BY DEF SettledInv
    <3> QED
      BY <3>1, <3>2
  <2>6. CASE BeginLaunch
    <3>1. PICK v \in Workers :
            /\ worker[v].status = "none" /\ worker'[v].status = "allocating"
            /\ \A u \in Workers \ {v} : worker'[u] = worker[u]
      BY <2>6, BeginLaunchBegins
    <3>2. pc = "recording" /\ pc' = "allocating" /\ UNCHANGED <<probe, stray>>
      BY <2>6 DEF BeginLaunch, LaunchGoesOn, runVars
    <3>3. CASE w = v
      BY <3>1, <3>2, <3>3
    <3>4. CASE w # v
      BY <3>1, <3>2, <3>4
    <3> QED
      BY <3>3, <3>4
  <2>7. CASE FinishLaunch
    <3>1. PICK v \in Workers :
            /\ Launching(v) /\ Becomes(v, "running", worker[v].provider)
            /\ probe' = [probe EXCEPT ![v] = "fresh"] /\ stray' = stray \ {v}
      BY <2>7, LaunchBecomes
    <3>2. /\ worker'[v].status = "running"
          /\ \A u \in Workers \ {v} : worker'[u] = worker[u]
      BY <3>1, BecomesChanges DEF WorkerStatus, Typed, TypeOK
    <3>3. /\ w # v => probe'[w] = probe[w]
          /\ w = v => probe'[w] = "fresh"
      BY <3>1 DEF Typed, TypeOK
    <3>4. pc = "started" /\ pc' = "launch"
      BY <2>7 DEF FinishLaunch
    <3> QED
      BY <3>1, <3>2, <3>3, <3>4
  <2>8. CASE ~(\/ Start \/ Finalize \/ ListWorkers \/ ConfirmPendingClaims
               \/ SettleExits \/ BeginLaunch \/ FinishLaunch)
    <3>1. /\ UNCHANGED probe /\ (pc' \in {"confirm", "observe"} => pc' = pc)
          /\ pc' = "none" <=> pc = "none"
      BY <1>a, <2>8, ProbesStay
    <3> QED
      BY <1>c, <2>8, <2>s, <3>1
  <2> QED
    BY <2>1, <2>2, <2>3, <2>4, <2>5, <2>6, <2>7, <2>8
<1> QED
  BY <1>a, <1>1, <1>2 DEF Supervised

\* That holds in every reachable state of a node's first campaign.
LEMMA SupervisedKept == ~Restarts => (Spec => []Supervised)
<1> SUFFICES ASSUME ~Restarts PROVE Spec => []Supervised
  OBVIOUS
<1>1. Init => Supervised
  BY DEF Init, Supervised, NoWorker, RecordInit, Rec
<1>2. Typed /\ RecordInv /\ RecordInv' /\ SettledInv /\ Supervised
        /\ [Next]_vars => Supervised'
  BY SupervisedStep
<1> QED
  BY <1>1, <1>2, TypedKept, RecordInvKept, SettledInvKept, PTL DEF Spec

-----------------------------------------------------------------------------
\* The items that workers without an item may still claim.

\* Live workers to be, for which the plan reserves an item.
Awaiting(l) == {w \in Reserved(l) : \A x \in exits : x.id # w}

\* Where left holds what was observed, and where it holds what is free to use.
ObservedPhases == {"settle", "sweep", "plan"}
LoopPhases == {"launch", "refreshing"} \cup InLaunch

\* No worker without an item is short of one, and what the tick counts as left
\* is there besides: first with the items to be reserved, then without them.
GapInv ==
  /\ ClaimGapIsReserved
  /\ pc \in ObservedPhases =>
       \A l \in Lanes :
         left[l] + Cardinality(Unclaimed(l))
           <= items[l] + Cardinality(TakenByStray(l)) + Cardinality(Awaiting(l))
  /\ pc \in LoopPhases =>
       \A l \in Lanes : left[l] + Cardinality(Unclaimed(l))
                          <= items[l] + Cardinality(TakenByStray(l))

\* The workers without an item, those that await one and the strays that took
\* one can be counted, now and after a step.
LEMMA GapCounts ==
  ASSUME Typed, Typed', NEW l \in Lanes
  PROVE  /\ Cardinality(Unclaimed(l)) \in Nat /\ Cardinality(Unclaimed(l)') \in Nat
         /\ Cardinality(Awaiting(l)) \in Nat /\ Cardinality(Awaiting(l)') \in Nat
         /\ Cardinality(TakenByStray(l)) \in Nat /\ Cardinality(TakenByStray(l)') \in Nat
         /\ left[l] \in Nat /\ left'[l] \in Nat /\ items[l] \in Nat /\ items'[l] \in Nat
<1>1. /\ Unclaimed(l) \subseteq Workers /\ Unclaimed(l)' \subseteq Workers
      /\ Awaiting(l) \subseteq Workers /\ Awaiting(l)' \subseteq Workers
  BY DEF Unclaimed, Awaiting, Reserved
<1>2. TakenByStray(l) \subseteq Workers /\ TakenByStray(l)' \subseteq Workers
  BY DEF TakenByStray, Typed, TypeOK
<1>3. left[l] \in Nat /\ left'[l] \in Nat /\ items[l] \in Nat /\ items'[l] \in Nat
  BY CampaignAssumption DEF CampaignAssumption, Typed, TypeOK
<1> QED
  BY <1>1, <1>2, <1>3, WorkersFinite

\* A set of workers within another has no more of them, and fewer if one is gone.
LEMMA FewerWorkers ==
  ASSUME NEW S \in SUBSET Workers, NEW T \in SUBSET S
  PROVE  /\ Cardinality(T) <= Cardinality(S)
         /\ \A w \in S \ T : Cardinality(T) + 1 <= Cardinality(S)
<1>1. Cardinality(T) <= Cardinality(S)
  BY WorkersFinite, FS_Subset
<1>2. ASSUME NEW w \in S \ T PROVE Cardinality(T) + 1 <= Cardinality(S)
  <2>1. IsFiniteSet(S \ {w}) /\ Cardinality(S \ {w}) = Cardinality(S) - 1
    BY WorkersFinite, FS_RemoveElement
  <2>2. Cardinality(T) <= Cardinality(S \ {w})
    BY <2>1, FS_Subset
  <2>3. Cardinality(T) \in Nat /\ Cardinality(S) \in Nat
    BY WorkersFinite
  <2> QED
    BY <2>1, <2>2, <2>3
<1> QED
  BY <1>1, <1>2

\* No step but FinishLaunch adds a worker that has made no claim, or forgets a
\* stray that has made one.
LEMMA UnclaimedShrinks ==
  ASSUME Typed, Typed', StrayInv, [Next]_vars, ~FinishLaunch, NEW l \in Lanes
  PROVE  /\ Unclaimed(l)' \subseteq Unclaimed(l)
         /\ TakenByStray(l) \subseteq TakenByStray(l)'
<1>s. \A w \in Workers : w \in stray => w \in stray'
  BY StrayMoves
<1>1. CASE BeginLaunch
  <2>1. PICK w \in Workers :
          /\ worker[w].status = "none" /\ worker'[w].status = "allocating"
          /\ \A v \in Workers \ {w} : worker'[v] = worker[v]
    BY <1>1, BeginLaunchBegins
  <2>2. w \notin stray
    BY <2>1 DEF StrayInv
  <2> QED
    BY <1>s, <2>1, <2>2 DEF Unclaimed, TakenByStray, Typed, TypeOK
<1>2. CASE ~BeginLaunch
  <2>1. ASSUME NEW w \in Workers
        PROVE  /\ worker'[w].lane = worker[w].lane
               /\ worker'[w].status = "running" => worker[w].status = "running"
               /\ worker'[w].item = "none" => worker[w].item = "none"
    BY <1>2, WorkersMove DEF WorkerMoves
  <2> QED
    BY <1>s, <2>1 DEF Unclaimed, TakenByStray, Typed, TypeOK
<1> QED
  BY <1>1, <1>2

\* Only a claim takes an item of a lane, while nobody but the workers claims.
LEMMA ItemsStay ==
  ASSUME Typed, [Next]_vars, ~\E w \in Workers : Claim(w), NEW l \in Lanes
  PROVE  items'[l] \in Nat /\ items'[l] >= items[l]
<1>1. items \in [Lanes -> 0 .. MaxItems] /\ items[l] \in Nat
  BY CampaignAssumption DEF Typed, TypeOK, CampaignAssumption
<1>2. CASE UNCHANGED items
  BY <1>1, <1>2
<1>3. CASE \E m \in Lanes : Admit(m)
  BY <1>1, <1>3 DEF Admit
<1>4. CASE \E w \in Workers : EndAttempt(w)
  <2>1. PICK m : UNCHANGED items \/ items' = [items EXCEPT ![m] = @ + 1]
    BY <1>4 DEF EndAttempt
  <2>2. items'[l] = items[l] \/ items'[l] = items[l] + 1
    BY <1>1, <2>1
  <2> QED
    BY <1>1, <2>2
<1>5. CASE \/ Start \/ Stop \/ Close \/ Crash \/ Boot \/ NextTick \/ Finalize
           \/ TimePasses \/ \E p \in Providers : ProofExpires(p)
           \/ \E m \in Lanes : ShowBackedOff(m)
           \/ \E w \in Workers : Exit(w) \/ Retire(w)
  BY <1>2, <1>5
  DEF Start, Stop, Close, Crash, Boot, NextTick, Finalize, TimePasses,
      ProofExpires, ShowBackedOff, Exit, Retire, worldVars
<1>6. CASE RunStep
  BY <1>2, <1>6
  DEF RunStep, SetupRepositories, RefreshPreflights, SetRunningStatus,
      ListWorkers, EndTick, ConfirmPendingClaims, ObserveQueue, SettleExits,
      SweepCleanupCandidates, Plan, ChooseLane, RefreshBase, RefuseLaunch,
      PassInspection, BeginLaunch, AllowStart, StartProvider, FinishLaunch,
      FailLaunch, FinishTick, worldVars
<1> QED
  BY <1>2, <1>3, <1>4, <1>5, <1>6 DEF Next, vars

\* Sums of the numbers of items, strays and workers before and after a step.
LEMMA GapSum ==
  \A i, j, t, u, n, m \in Nat :
    /\ m <= n /\ t <= u /\ (j >= i \/ (j = i - 1 /\ (m + 1 <= n \/ t + 1 <= u)))
         => i + t + m <= j + u + n
    /\ m <= n /\ t <= u + 1 => m + t <= n + u + 1
    /\ m <= n + 1 /\ t = u => m + t <= n + u + 1
    /\ m <= u /\ (m = t \/ m = t - 1) => t <= u + 1
OBVIOUS

\* No step but FinishLaunch brings the workers without an item closer to the
\* number of items: a claim takes one of each, or is a stray's.
LEMMA GapShrinks ==
  ASSUME Typed, Typed', StrayInv, [Next]_vars, ~FinishLaunch, NEW l \in Lanes
  PROVE  items[l] + Cardinality(TakenByStray(l)) + Cardinality(Unclaimed(l)')
           <= items'[l] + Cardinality(TakenByStray(l)') + Cardinality(Unclaimed(l))
<1> DEFINE N == Cardinality(Unclaimed(l))
           T == Cardinality(TakenByStray(l))
<1> SUFFICES items[l] + T + N' <= items'[l] + T' + N
  OBVIOUS
<1>0. N \in Nat /\ N' \in Nat /\ T \in Nat /\ T' \in Nat
      /\ items[l] \in Nat /\ items'[l] \in Nat
  BY GapCounts
<1>a. /\ Unclaimed(l) \subseteq Workers /\ TakenByStray(l)' \subseteq Workers
      /\ Unclaimed(l)' \subseteq Unclaimed(l) /\ TakenByStray(l) \subseteq TakenByStray(l)'
  BY UnclaimedShrinks DEF Unclaimed, TakenByStray, Typed, TypeOK
<1>1. N' <= N /\ T <= T'
  BY <1>a, FewerWorkers
<1>3. CASE ~\E w \in Workers : Claim(w)
  <2>1. items'[l] >= items[l]
    BY <1>3, ItemsStay
  <2> HIDE DEF N, T
  <2> QED
    BY <1>0, <1>1, <2>1
<1>4. ASSUME NEW w \in Workers, Claim(w)
      PROVE  items[l] + T + N' <= items'[l] + T' + N
  <2>1. /\ worker[w].provider /\ worker[w].item = "none"
        /\ worker' = [worker EXCEPT ![w].item = "claimed"] /\ stray' = stray
        /\ items' = [items EXCEPT ![worker[w].lane] = @ - 1]
    BY <1>4 DEF Claim
  <2>2. items'[l] = IF l = worker[w].lane THEN items[l] - 1 ELSE items[l]
    BY <2>1 DEF Typed, TypeOK
  <2>3. worker'[w].item = "claimed" /\ worker'[w].lane = worker[w].lane
    BY <2>1, ItemChanges
  <2>4. l = worker[w].lane => N' + 1 <= N \/ T + 1 <= T'
    <3>1. CASE l = worker[w].lane /\ w \in stray
      <4>1. w \in TakenByStray(l)' \ TakenByStray(l)
        BY <2>1, <2>3, <3>1 DEF TakenByStray
      <4> QED
        BY <1>a, <4>1, FewerWorkers
    <3>2. CASE l = worker[w].lane /\ w \notin stray
      <4>1. w \in Unclaimed(l) \ Unclaimed(l)'
        BY <2>1, <2>3, <3>2 DEF Unclaimed, StrayInv
      <4> QED
        BY <1>a, <4>1, FewerWorkers
    <3> QED
      BY <3>1, <3>2
  <2>5. items'[l] >= items[l] \/ (items'[l] = items[l] - 1 /\ (N' + 1 <= N \/ T + 1 <= T'))
    BY <1>0, <2>2, <2>4
  <2> HIDE DEF N, T
  <2> QED
    BY <1>0, <1>1, <2>5, GapSum
<1> QED
  BY <1>3, <1>4

\* A launch that returns adds at most one of them, to its lane.
LEMMA FinishAdds ==
  ASSUME Typed, Typed', CapacityInv, FinishLaunch, NEW l \in Lanes
  PROVE  Cardinality(Unclaimed(l)') + Cardinality(TakenByStray(l))
           <= Cardinality(Unclaimed(l)) + Cardinality(TakenByStray(l)')
                + (IF l = target THEN 1 ELSE 0)
<1> DEFINE N == Cardinality(Unclaimed(l))
           T == Cardinality(TakenByStray(l))
<1> SUFFICES N' + T <= N + T' + (IF l = target THEN 1 ELSE 0)
  OBVIOUS
<1>0. N \in Nat /\ N' \in Nat /\ T \in Nat /\ T' \in Nat
  BY GapCounts
<1>1. PICK w \in Workers :
        /\ Launching(w) /\ Becomes(w, "running", worker[w].provider)
        /\ stray' = stray \ {w}
  BY LaunchBecomes
<1>2. /\ worker'[w].lane = worker[w].lane /\ worker'[w].item = worker[w].item
      /\ \A v \in Workers \ {w} : worker'[v] = worker[v]
  BY <1>1, BecomesChanges DEF WorkerStatus, Typed, TypeOK
<1>3. worker[w].lane = target /\ worker[w].status = "allocating"
  BY <1>1 DEF CapacityInv, FinishLaunch, Placing, Launching
<1>a. Unclaimed(l) \subseteq Workers /\ TakenByStray(l) \subseteq Workers
  BY DEF Unclaimed, TakenByStray, Typed, TypeOK
<1>4. CASE l # target
  <2>1. Unclaimed(l)' = Unclaimed(l) /\ TakenByStray(l)' = TakenByStray(l)
    BY <1>1, <1>2, <1>3, <1>4 DEF Unclaimed, TakenByStray, Typed, TypeOK
  <2>2. N' = N /\ T' = T
    BY <2>1
  <2> HIDE DEF N, T
  <2> QED
    BY <1>0, <1>4, <2>2
<1>5. CASE l = target /\ worker[w].item # "none"
  <2>1. /\ Unclaimed(l)' \subseteq Unclaimed(l)
        /\ TakenByStray(l) \ {w} \subseteq TakenByStray(l)'
        /\ TakenByStray(l)' \subseteq Workers
    BY <1>1, <1>2, <1>5 DEF Unclaimed, TakenByStray, Typed, TypeOK
  <2>2. N' <= N
    BY <1>a, <2>1, FewerWorkers
  <2>3. T <= T' + 1
    <3> DEFINE R == Cardinality(TakenByStray(l) \ {w})
    <3>1. R <= T'
      BY <2>1, FewerWorkers
    <3>2. R = T \/ R = T - 1
      BY <1>a, WorkersFinite, FS_RemoveElement
    <3>3. R \in Nat
      BY <1>a, WorkersFinite
    <3> HIDE DEF R, T
    <3> QED
      BY <1>0, <3>1, <3>2, <3>3, GapSum
  <2> HIDE DEF N, T
  <2>4. N' + T <= N + T' + 1
    BY <1>0, <2>2, <2>3, GapSum
  <2> QED
    BY <1>5, <2>4
<1>6. CASE l = target /\ worker[w].item = "none"
  <2>1. /\ Unclaimed(l)' \subseteq Unclaimed(l) \cup {w}
        /\ TakenByStray(l)' = TakenByStray(l)
    BY <1>1, <1>2, <1>6 DEF Unclaimed, TakenByStray, Typed, TypeOK
  <2>2. N' <= N + 1 /\ T' = T
    <3>1. Unclaimed(l) \cup {w} \subseteq Workers /\ w \notin Unclaimed(l)
      BY <1>a, <1>3 DEF Unclaimed
    <3>2. Cardinality(Unclaimed(l) \cup {w}) = Cardinality(Unclaimed(l)) + 1
      BY <1>a, <3>1, WorkersFinite, FS_AddElement
    <3> QED
      BY <2>1, <3>1, <3>2, FewerWorkers
  <2> HIDE DEF N, T
  <2>3. N' + T <= N + T' + 1
    BY <1>0, <2>2, GapSum
  <2> QED
    BY <1>6, <2>3
<1> QED
  BY <1>4, <1>5, <1>6

\* The steps that neither observe nor plan nor launch leave what is left alone.
LEMMA LeftStays ==
  ASSUME RecordInv, [Next]_vars, ~ObserveQueue, ~Plan, ~FinishLaunch
  PROVE  /\ pc' \in ObservedPhases => pc \in ObservedPhases /\ left' = left
         /\ pc' \in LoopPhases => pc \in LoopPhases /\ left' = left
<1> USE DEF ObservedPhases, LoopPhases, InLaunch, Placing
<1>1. CASE Start
  <2>1. pc = "none"
    BY <1>1 DEF RecordInv, Start
  <2> QED
    BY <1>1, <2>1 DEF Start
<1>2. CASE \/ Stop \/ Close \/ Crash \/ Boot \/ NextTick \/ Finalize
           \/ TimePasses \/ \E p \in Providers : ProofExpires(p)
           \/ \E l \in Lanes : ShowBackedOff(l) \/ Admit(l)
           \/ \E w \in Workers : Claim(w) \/ EndAttempt(w) \/ Exit(w) \/ Retire(w)
  BY <1>2
  DEF Stop, Close, Crash, Boot, NextTick, Finalize, TimePasses, ProofExpires,
      ShowBackedOff, Admit, Claim, EndAttempt, Exit, Retire, WorldStep, tickVars
<1>3. CASE \/ SetupRepositories \/ RefreshPreflights \/ SetRunningStatus
           \/ ListWorkers \/ EndTick \/ ConfirmPendingClaims \/ SettleExits
           \/ SweepCleanupCandidates \/ \E l \in Lanes : ChooseLane(l)
  BY <1>3
  DEF SetupRepositories, RefreshPreflights, SetRunningStatus, ListWorkers,
      EndTick, ConfirmPendingClaims, SettleExits, SweepCleanupCandidates,
      ChooseLane, tickVars
<1>4. CASE \/ RefreshBase \/ RefuseLaunch \/ PassInspection \/ BeginLaunch
           \/ AllowStart \/ StartProvider \/ FailLaunch \/ FinishTick
  BY <1>4
  DEF RefreshBase, RefuseLaunch, PassInspection, BeginLaunch, AllowStart,
      StartProvider, FailLaunch, FinishTick, LaunchGoesOn, LaneBackedOff, tickVars
<1>5. CASE UNCHANGED vars
  BY <1>5 DEF vars
<1> QED
  BY <1>1, <1>2, <1>3, <1>4, <1>5 DEF Next, RunStep

\* Between the observation and the plan no worker ceases to await its item: its
\* claim is confirmed before, and an exit it had is settled.
LEMMA AwaitingStays ==
  ASSUME Typed, RecordInv, [Next]_vars, pc \in ObservedPhases,
         pc' \in ObservedPhases, NEW l \in Lanes
  PROVE  Cardinality(Awaiting(l)) <= Cardinality(Awaiting(l)')
<1> USE DEF ObservedPhases
<1>1. ~ListWorkers /\ ~ConfirmPendingClaims /\ ~BeginLaunch /\ ~FinishLaunch
      /\ ~Finalize /\ ~Crash
  BY DEF ListWorkers, ConfirmPendingClaims, BeginLaunch, FinishLaunch, Finalize, Crash
<1>2. ~Start
  BY DEF Start, RecordInv
<1>3. \A w \in Workers : worker'[w].lane = worker[w].lane
  BY <1>1, WorkersMove DEF WorkerMoves
<1>4. ASSUME NEW w \in Awaiting(l) PROVE w \in Awaiting(l)'
  <2>1. /\ w \in Workers /\ probe[w] = "stable" /\ worker[w].lane = l
        /\ \A x \in exits : x.id # w
    BY DEF Awaiting, Reserved
  <2>2. CASE SettleExits
    <3>1. exits' = {} /\ probe'[w] = "stable"
      BY <2>1, <2>2 DEF SettleExits
    <3> QED
      BY <1>3, <2>1, <3>1 DEF Awaiting, Reserved
  <2>3. CASE ~SettleExits
    <3>1. exits' \subseteq exits /\ UNCHANGED probe
      BY <1>1, <1>2, <2>3, CandidatesStay, ProbesStay
    <3> QED
      BY <1>3, <2>1, <3>1 DEF Awaiting, Reserved
  <2> QED
    BY <2>2, <2>3
<1>5. Awaiting(l)' \subseteq Workers
  BY DEF Awaiting, Reserved
<1> QED
  BY <1>4, <1>5, FewerWorkers

\* Every worker without an item that the observation could count awaits one.
LEMMA UnclaimedAwait ==
  ASSUME Typed, SettledInv, Supervised, pc = "observe", NEW l \in Lanes
  PROVE  Cardinality(Unclaimed(l)) <= Cardinality(Awaiting(l))
<1>1. ASSUME NEW w \in Unclaimed(l) PROVE w \in Awaiting(l)
  <2>1. /\ w \in Workers /\ worker[w].lane = l /\ worker[w].item = "none"
        /\ worker[w].status = "running" /\ w \notin stray
    BY DEF Unclaimed
  <2>2. probe[w] \in Probes /\ probe[w] \notin {"none", "fresh", "claimed"}
    BY <2>1 DEF Supervised, Typed, TypeOK
  <2>3. \A x \in exits : x.id # w
    BY <2>1 DEF SettledInv
  <2> QED
    BY <2>1, <2>2, <2>3 DEF Awaiting, Reserved, Probes
<1>2. Awaiting(l) \subseteq Workers
  BY DEF Awaiting, Reserved
<1> QED
  BY <1>1, <1>2, FewerWorkers

\* Every step keeps an item for each worker that has none.
LEMMA GapStep ==
  ASSUME Typed, Typed', RecordInv, SettledInv, StrayInv, CapacityInv, Supervised,
         GapInv, [Next]_vars
  PROVE  GapInv'
<1> DEFINE N(l) == Cardinality(Unclaimed(l))
           A(l) == Cardinality(Awaiting(l))
           T(l) == Cardinality(TakenByStray(l))
<1>t. ASSUME NEW l \in Lanes
      PROVE  /\ N(l) \in Nat /\ A(l) \in Nat /\ T(l) \in Nat
             /\ N(l)' \in Nat /\ A(l)' \in Nat /\ T(l)' \in Nat
             /\ left[l] \in Nat /\ items[l] \in Nat
             /\ left'[l] \in Nat /\ items'[l] \in Nat
             /\ N(l) <= items[l] + T(l)
  BY GapCounts DEF GapInv, ClaimGapIsReserved
<1>1. CASE FinishLaunch
  <2>1. /\ pc = "started" /\ pc' = "launch" /\ items' = items /\ target \in Lanes
        /\ left' = [left EXCEPT ![target] = @ - 1] /\ left[target] > 0
    BY <1>1 DEF FinishLaunch, Typed, TargetReady, InLaunch, Placing
  <2>2. ASSUME NEW l \in Lanes
        PROVE  /\ N(l)' <= items'[l] + T(l)'
               /\ left'[l] + N(l)' <= items'[l] + T(l)'
    <3>1. left[l] + N(l) <= items[l] + T(l)
      BY <2>1 DEF GapInv, LoopPhases, InLaunch, Placing
    <3>2. left'[l] = IF l = target THEN left[l] - 1 ELSE left[l]
      BY <2>1 DEF Typed, TypeOK
    <3>3. N(l)' + T(l) <= N(l) + T(l)' + (IF l = target THEN 1 ELSE 0)
      BY <1>1, FinishAdds
    <3> HIDE DEF N, A, T
    <3> QED
      BY <1>t, <2>1, <3>1, <3>2, <3>3
  <2> QED
    BY <2>1, <2>2 DEF GapInv, ClaimGapIsReserved, ObservedPhases
<1>2. CASE ~FinishLaunch
  <2>t. ASSUME NEW l \in Lanes PROVE items[l] + T(l) + N(l)' <= items'[l] + T(l)' + N(l)
    BY <1>2, GapShrinks
  <2>1. ClaimGapIsReserved'
    <3>1. ASSUME NEW l \in Lanes PROVE N(l)' <= items'[l] + T(l)'
      <4> HIDE DEF N, A, T
      <4> QED
        BY <1>t, <2>t
    <3> QED
      BY <3>1 DEF ClaimGapIsReserved
  <2>2. ASSUME pc' \in ObservedPhases, NEW l \in Lanes
        PROVE  left'[l] + N(l)' <= items'[l] + T(l)' + A(l)'
    <3>1. CASE ObserveQueue
      <4>1. /\ pc = "observe" /\ items' = items
            /\ Awaiting(l)' = Awaiting(l)
        BY <3>1 DEF ObserveQueue, Awaiting, Reserved, runVars, worldVars
      <4>2. left'[l] <= items[l]
        <5>1. left'[l] = items[l] \/ left'[l] = 0
          BY <3>1 DEF ObserveQueue
        <5> QED
          BY <1>t, <5>1
      <4>3. N(l) <= A(l) /\ A(l)' = A(l)
        BY <4>1, UnclaimedAwait
      <4> HIDE DEF N, A, T
      <4> QED
        BY <1>t, <2>t, <4>1, <4>2, <4>3
    <3>2. CASE ~ObserveQueue
      <4>1. pc \in ObservedPhases /\ left' = left
        <5>1. ~Plan
          BY <2>2 DEF Plan, ObservedPhases
        <5> QED
          BY <1>2, <2>2, <3>2, <5>1, LeftStays
      <4>2. left[l] + N(l) <= items[l] + T(l) + A(l)
        BY <4>1 DEF GapInv
      <4>3. A(l) <= A(l)'
        BY <2>2, <4>1, AwaitingStays
      <4> HIDE DEF N, A, T
      <4> QED
        BY <1>t, <2>t, <4>1, <4>2, <4>3
    <3> QED
      BY <3>1, <3>2
  <2>3. ASSUME pc' \in LoopPhases, NEW l \in Lanes
        PROVE  left'[l] + N(l)' <= items'[l] + T(l)'
    <3>1. CASE Plan
      <4>1. /\ pc = "plan" /\ items' = items
            /\ left'[l] = AfterReserving(left[l], Cardinality(Reserved(l)))
        BY <3>1 DEF Plan, worldVars
      <4>2. Awaiting(l) = Reserved(l)
        BY <4>1 DEF SettledInv, Awaiting
      <4>3. left'[l] = IF left[l] > A(l) THEN left[l] - A(l) ELSE 0
        BY <4>1, <4>2 DEF AfterReserving
      <4>4. left[l] + N(l) <= items[l] + T(l) + A(l)
        BY <4>1 DEF GapInv, ObservedPhases
      <4> HIDE DEF N, A, T
      <4> QED
        BY <1>t, <2>t, <4>1, <4>3, <4>4
    <3>2. CASE ~Plan
      <4>1. ~ObserveQueue
        BY <2>3 DEF ObserveQueue, LoopPhases, InLaunch, Placing
      <4>2. pc \in LoopPhases /\ left' = left
        BY <1>2, <2>3, <3>2, <4>1, LeftStays
      <4>3. left[l] + N(l) <= items[l] + T(l)
        BY <4>2 DEF GapInv
      <4> HIDE DEF N, A, T
      <4> QED
        BY <1>t, <2>t, <4>2, <4>3
    <3> QED
      BY <3>1, <3>2
  <2> QED
    BY <2>1, <2>2, <2>3 DEF GapInv
<1> QED
  BY <1>1, <1>2

\* That holds in every reachable state of a node's first campaign.
LEMMA GapInvKept == ~Restarts => (Spec => []GapInv)
<1> SUFFICES ASSUME ~Restarts PROVE Spec => []GapInv
  OBVIOUS
<1>1. Init => GapInv
  <2> SUFFICES ASSUME Init, NEW l \in Lanes
               PROVE  Cardinality(Unclaimed(l)) <= items[l] + Cardinality(TakenByStray(l))
    BY DEF Init, GapInv, ClaimGapIsReserved, ObservedPhases, LoopPhases, InLaunch, Placing
  <2>1. Unclaimed(l) = {} /\ TakenByStray(l) = {} /\ items[l] = 0
    BY DEF Init, Unclaimed, TakenByStray, NoWorker
  <2> QED
    BY <2>1, FS_EmptySet
<1>2. Typed /\ Typed' /\ RecordInv /\ SettledInv /\ StrayInv /\ CapacityInv
        /\ Supervised /\ GapInv /\ [Next]_vars => GapInv'
  BY GapStep
<1> QED
  BY <1>1, <1>2, TypedKept, RecordInvKept, SettledInvKept, StrayInvKept,
     CapacityInvKept, SupervisedKept, PTL
  DEF Spec

\* No second worker is launched into the gap between a worker's start and its
\* claim: in a node's first campaign, while nobody but its workers claims, no
\* lane ever has more workers without an item than it has items, those apart
\* that workers without a probe took.  (The end of a campaign forgets its
\* probes, so that a later campaign may: see README.)
THEOREM ClaimGapKept == ~Restarts => (Spec => []ClaimGapIsReserved)
<1> SUFFICES ASSUME ~Restarts PROVE Spec => []ClaimGapIsReserved
  OBVIOUS
<1> QED
  BY GapInvKept, PTL DEF GapInv
=============================================================================
