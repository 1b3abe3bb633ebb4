----------------------------- MODULE KitProofs ------------------------------
(* Proofs about Kit: any skills, revisions, providers and launchers.       *)
EXTENDS Kit, TLAPS

-----------------------------------------------------------------------------
(* The inductive invariant.                                                *)

\* A refresh is for a Snowcat commit.
RefreshIsOfRevision ==
  up.at \in {"lock", "inspect", "retain", "select"} => up.rev \in Revisions

\* A generation appears whole; only a hand in the directory changes it.
GenerationsAreWhole ==
  /\ \A r \in Revisions : gens[r] \in {"none", "whole"} \cup Damage
  /\ up.at = "select" => gens[up.rev] # "none"
  /\ active # "root" => gens[active] # "none"

\* The two sides of the lock exclude each other.
LockExcludes == Exclusive => shared = {}

\* The record names what was held, the workspace has what the record names.
CopiesAgree ==
  \A l \in Launchers :
    /\ LaunchAt(l, "install") => launch[l].rec = launch[l].seen
    /\ launch[l].at \in {"lock", "before", "ready", "after", "start"} =>
         launch[l].files = launch[l].rec

\* What a launch has verified under the lock stays selected.
Selected(rev) == IF active = "root" THEN rev \in Floors ELSE rev = active

VerifiedIsSelected ==
  \A l \in shared : launch[l].at \in {"ready", "after", "start"} => Selected(launch[l].rec)

IInv ==
  /\ TypeOK /\ RefreshIsOfRevision /\ GenerationsAreWhole
  /\ LockExcludes /\ CopiesAgree /\ VerifiedIsSelected

-----------------------------------------------------------------------------
(* Types.                                                                  *)

LEMMA ActiveIsKit == ASSUME TypeOK PROVE Active \in Kits /\ Floor \in Floors
BY SetsAssumption DEF TypeOK, Active, Floor, Kits

LEMMA InitTypes == Init => TypeOK
<1> SUFFICES ASSUME Init PROVE TypeOK
  OBVIOUS
<1>1. root \in [skill : [Skills -> Floors \cup {"absent", "torn"}], manifest : Floors \cup {"none"}]
  BY DEF Init, NoRoot
<1>2. up \in Ups
  BY DEF Init, NoUp, Ups
<1>3. launch \in [Launchers -> Launches]
  BY DEF Init, NoLaunch, Launches
<1> QED  BY <1>1, <1>2, <1>3 DEF Init, TypeOK, Receipts

\* What node up is at after any of its steps.
LEMMA UpTypes ==
  ASSUME TypeOK
  PROVE  /\ \A at \in UpSteps : [up EXCEPT !.at = at] \in Ups /\ [NoUp EXCEPT !.at = at] \in Ups
         /\ NoUp \in Ups
         /\ \A at \in UpSteps, r \in Kits : [up EXCEPT !.at = at, !.rev = r] \in Ups
         /\ \A at \in UpSteps, n \in {0, 1} : [up EXCEPT !.at = at, !.tries = n] \in Ups
BY DEF TypeOK, Ups, NoUp

LEMMA UpStepTypes ==
  ASSUME TypeOK, RefreshIsOfRevision, UpStep \/ UpDies
  PROVE  TypeOK'
<1> USE DEF UpGo, UpNext, UpEnds
<1>u. UpSteps = {"aside", "floor", "create", "write", "source", "lock",
                 "inspect", "retain", "select", "preflight", "prove", "proving"}
  BY DEF UpSteps
<1>1. CASE StepKit \/ StepPreflights
  <2>1. up' \in Ups
    <3>1. CASE StepKit
      BY <1>u, <3>1, UpTypes DEF StepKit
    <3>2. CASE StepPreflights
      <4>1. CASE up' = NoUp
        BY <4>1, UpTypes
      <4>2. ASSUME NEW p \in Providers,
                   up' = [up EXCEPT !.at = "prove", !.provider = p, !.tries = 0]
            PROVE  up' \in Ups
        BY <4>2 DEF TypeOK, Ups, UpSteps
      <4> QED  BY <3>2, <4>1, <4>2 DEF StepPreflights
    <3> QED  BY <1>1, <3>1, <3>2
  <2> QED  BY <1>1, <2>1 DEF StepKit, StepPreflights, TypeOK, kit
<1>2. CASE MoveAside
  <2>1. up' \in Ups
    BY <1>2, <1>u, UpTypes DEF MoveAside
  <2> QED  BY <1>2, <2>1 DEF MoveAside, TypeOK, NoRoot
<1>3. CASE InstallFloor \/ LockExclusive \/ RefreshKit \/ UpDies
  <2>1. up' \in Ups
    BY <1>3, <1>u, UpTypes DEF InstallFloor, LockExclusive, RefreshKit, UpDies
  <2> QED  BY <1>3, <2>1 DEF InstallFloor, LockExclusive, RefreshKit, UpDies, TypeOK, kit
<1>4. CASE WriteSkill
  <2>1. up' \in Ups
    BY <1>4, <1>u, UpTypes DEF WriteSkill
  <2> QED  BY <1>4, <2>1, SetsAssumption DEF WriteSkill, TypeOK
<1>5. CASE WriteManifest
  <2>1. up' \in Ups
    BY <1>5, <1>u, UpTypes DEF WriteManifest
  <2> QED  BY <1>5, <2>1, SetsAssumption DEF WriteManifest, TypeOK
<1>6. CASE \E s \in Skills : CreateSkill(s)
  <2>1. up' \in Ups
    BY <1>6 DEF CreateSkill, TypeOK, Ups, UpSteps
  <2> QED  BY <1>6, <2>1 DEF CreateSkill, TypeOK
<1>7. CASE StepSourceKit
  <2>1. upstream \in Kits
    BY DEF TypeOK, Kits
  <2>2. up' \in Ups
    BY <1>7, <2>1 DEF StepSourceKit, TypeOK, Ups, UpSteps
  <2> QED  BY <1>7, <2>2 DEF StepSourceKit, TypeOK, kit
<1>8. CASE Retain
  <2>1. up' \in Ups
    BY <1>8, <1>u, UpTypes DEF Retain
  <2>2. gens' \in [Revisions -> {"none", "whole", "drifted", "missing"}]
    BY <1>8 DEF Retain, TypeOK
  <2> QED  BY <1>8, <2>1, <2>2 DEF Retain, TypeOK
<1>9. CASE Select
  <2>1. up' \in Ups
    BY <1>9, <1>u, UpTypes DEF Select
  <2> QED  BY <1>9, <2>1 DEF Select, TypeOK, RefreshIsOfRevision
<1>10. CASE Prove
  <2>1. up' \in Ups
    BY <1>10, <1>u, UpTypes, ActiveIsKit DEF Prove
  <2> QED  BY <1>10, <2>1 DEF Prove, TypeOK, kit
<1>11. CASE FinishProof
  <2>1. up' \in Ups
    BY <1>11, <1>u, UpTypes DEF FinishProof
  <2>2. up.rev \in Receipts
    BY DEF TypeOK, Ups, Receipts
  <2>3. receipts' \in [Providers -> Receipts]
    BY <1>11, <2>2 DEF FinishProof, WritePreflight, TypeOK, Receipts
  <2> QED  BY <1>11, <2>1, <2>3 DEF FinishProof, TypeOK, kit
<1> QED  BY <1>1, <1>2, <1>3, <1>4, <1>5, <1>6, <1>7, <1>8, <1>9, <1>10, <1>11 DEF UpStep

\* What a launch is at after any of its steps.
LEMMA LaunchTypes ==
  ASSUME TypeOK, NEW l \in Launchers, NEW x \in Launches,
         launch' = [launch EXCEPT ![l] = x]
  PROVE  launch' \in [Launchers -> Launches]
BY DEF TypeOK

LEMMA LaunchStepTypes ==
  ASSUME TypeOK, NEW l \in Launchers, LaunchStep(l) \/ LaunchFails(l)
  PROVE  TypeOK'
<1> USE DEF LaunchAt, LaunchGo, LaunchEnds
<1>0. launch[l] \in Launches /\ NoLaunch \in Launches /\ Active \in Kits
  BY ActiveIsKit DEF TypeOK, Launches, NoLaunch
<1>1. CASE \E p \in Providers : BeginProof(l, p) \/ BeginLaunch(l, p)
  <2>1. PICK p \in Providers : BeginProof(l, p) \/ BeginLaunch(l, p)
    BY <1>1
  <2>2. launch' \in [Launchers -> Launches]
    <3>1. [NoLaunch EXCEPT !.at = "proving", !.provider = p, !.files = Active] \in Launches
      BY <1>0 DEF Launches
    <3>2. [NoLaunch EXCEPT !.at = "prepare", !.provider = p, !.seen = Active] \in Launches
      BY <1>0 DEF Launches, Steps
    <3> QED  BY <2>1, <3>1, <3>2, LaunchTypes DEF BeginProof, BeginLaunch
  <2> QED  BY <2>1, <2>2 DEF BeginProof, BeginLaunch, TypeOK, kit
<1>2. CASE EndProof(l)
  <2>1. launch' \in [Launchers -> Launches]
    <3>1. [launch[l] EXCEPT !.at = "again"] \in Launches
      BY <1>0 DEF Launches
    <3>2. launch' = [launch EXCEPT ![l] = [launch[l] EXCEPT !.at = "again"]]
          \/ launch' = [launch EXCEPT ![l] = NoLaunch]
      BY <1>2 DEF EndProof
    <3> QED  BY <1>0, <3>1, <3>2, LaunchTypes
  <2>2. launch[l].files \in Receipts
    BY <1>0 DEF Launches, Receipts
  <2>3. receipts' \in [Providers -> Receipts]
    BY <1>2, <2>2 DEF EndProof, WritePreflight, TypeOK, Receipts
  <2> QED  BY <1>2, <2>1, <2>3 DEF EndProof, TypeOK, kit
<1>3. CASE PrepareInstall(l)
  <2>1. launch' \in [Launchers -> Launches]
    BY <1>0, <1>3 DEF PrepareInstall, TypeOK, Launches, Steps
  <2> QED  BY <1>3, <2>1 DEF PrepareInstall, TypeOK, kit
<1>4. CASE RecordKit(l)
  <2>1. launch' \in [Launchers -> Launches]
    BY <1>0, <1>4 DEF RecordKit, TypeOK, Launches, Steps
  <2> QED  BY <1>4, <2>1 DEF RecordKit, TypeOK, kit
<1>5. CASE InstallPrepared(l)
  <2>1. launch' \in [Launchers -> Launches]
    BY <1>0, <1>5 DEF InstallPrepared, TypeOK, Launches, Steps
  <2> QED  BY <1>5, <2>1 DEF InstallPrepared, TypeOK, kit
<1>6. CASE LockShared(l)
  <2>1. launch' \in [Launchers -> Launches]
    BY <1>0, <1>6 DEF LockShared, TypeOK, Launches, Steps
  <2> QED  BY <1>6, <2>1 DEF LockShared, TypeOK, kit
<1>7. CASE VerifyBefore(l) \/ VerifyReady(l) \/ VerifyAfter(l)
  <2>1. launch' \in [Launchers -> Launches]
    BY <1>0, <1>7 DEF VerifyBefore, VerifyReady, VerifyAfter, TypeOK, Launches, Steps
  <2> QED  BY <1>7, <2>1 DEF VerifyBefore, VerifyReady, VerifyAfter, TypeOK, kit
<1>8. CASE StartProvider(l) \/ LaunchFails(l)
  <2>1. launch' \in [Launchers -> Launches]
    BY <1>0, <1>8 DEF StartProvider, LaunchFails, TypeOK
  <2> QED  BY <1>8, <2>1 DEF StartProvider, LaunchFails, TypeOK, kit
<1> QED  BY <1>1, <1>2, <1>3, <1>4, <1>5, <1>6, <1>7, <1>8 DEF LaunchStep

World == Advance \/ (\E p \in Providers : Expire(p)) \/ Meddle \/ Calm

LEMMA WorldTypes ==
  ASSUME TypeOK, World
  PROVE  TypeOK'
<1>1. CASE Advance \/ Calm
  BY <1>1 DEF Advance, Calm, TypeOK, kit
<1>2. CASE \E p \in Providers : Expire(p)
  BY <1>2 DEF Expire, TypeOK, kit, Receipts
<1>3. CASE Meddle
  <2>1. PICK d \in Damage :
          \/ \E s \in Skills :
               /\ root.skill[s] # "absent"
               /\ root' = [root EXCEPT !.skill[s] = IF d = "drifted" THEN "torn" ELSE "absent"]
               /\ UNCHANGED gens
          \/ \E r \in Revisions :
               /\ gens[r] # "none"
               /\ gens' = [gens EXCEPT ![r] = d]
               /\ UNCHANGED root
    BY <1>3 DEF Meddle
  <2>2. root' \in [skill : [Skills -> Floors \cup {"absent", "torn"}], manifest : Floors \cup {"none"}]
    BY <2>1 DEF TypeOK
  <2>3. gens' \in [Revisions -> {"none", "whole", "drifted", "missing"}]
    BY <2>1, DamageAssumption DEF TypeOK
  <2> QED  BY <1>3, <2>2, <2>3 DEF Meddle, TypeOK
<1> QED  BY <1>1, <1>2, <1>3 DEF World

-----------------------------------------------------------------------------
(* The invariant is inductive.                                             *)

LEMMA InitInv == Init => IInv
<1> SUFFICES ASSUME Init PROVE IInv
  OBVIOUS
<1>1. up.at = "idle" /\ shared = {} /\ active = "root"
  BY DEF Init, NoUp
<1>2. \A r \in Revisions : gens[r] = "none"
  BY DEF Init
<1>3. \A l \in Launchers : launch[l].at = "idle"
  BY DEF Init, NoLaunch
<1> QED
  BY <1>1, <1>2, <1>3, InitTypes DEF IInv, RefreshIsOfRevision, GenerationsAreWhole,
     LockExcludes, CopiesAgree, VerifiedIsSelected, LaunchAt

\* What launches, proofs and the world leave alone.
LEMMA LaunchLeavesUp ==
  ASSUME NEW l \in Launchers, LaunchStep(l) \/ LaunchFails(l)
  PROVE  UNCHANGED <<upstream, root, gens, active, up, faults>>
BY DEF LaunchStep, LaunchFails, BeginProof, BeginLaunch, EndProof, PrepareInstall, RecordKit,
   InstallPrepared, LockShared, VerifyBefore, VerifyReady, VerifyAfter, StartProvider, kit

LEMMA WorldLeavesUp ==
  ASSUME World
  PROVE  UNCHANGED <<active, shared, up, launch>>
BY DEF World, Advance, Expire, Meddle, Calm, kit

LEMMA UpLeavesLaunch ==
  ASSUME UpStep \/ UpDies
  PROVE  UNCHANGED launch /\ shared' \in {shared, {}}
BY DEF UpStep, UpDies, StepKit, MoveAside, InstallFloor, CreateSkill, WriteSkill, WriteManifest,
   StepSourceKit, LockExclusive, RefreshKit, Retain, Select, StepPreflights, Prove, FinishProof, kit

\* Every step of node up that is neither of the refresh nor a move aside.
PlainUp ==
  \/ StepKit \/ InstallFloor \/ WriteSkill \/ WriteManifest
  \/ \E s \in Skills : CreateSkill(s)
  \/ StepPreflights \/ Prove \/ FinishProof \/ UpDies

LEMMA PlainUpStep ==
  ASSUME TypeOK, PlainUp
  PROVE  /\ up'.at \notin {"lock", "inspect", "retain", "select"}
         /\ UNCHANGED <<gens, active, shared>>
<1> USE DEF UpGo, UpNext, UpEnds, Ups, NoUp
<1>0. up \in Ups
  BY DEF TypeOK
<1>1. CASE StepKit
  BY <1>0, <1>1 DEF StepKit, kit
<1>2. CASE InstallFloor
  BY <1>0, <1>2 DEF InstallFloor, kit
<1>3. CASE WriteSkill
  BY <1>0, <1>3 DEF WriteSkill
<1>4. CASE WriteManifest
  BY <1>0, <1>4 DEF WriteManifest
<1>5. CASE \E s \in Skills : CreateSkill(s)
  BY <1>0, <1>5 DEF CreateSkill
<1>6. CASE StepPreflights
  <2>1. UNCHANGED <<gens, active, shared>>
    BY <1>6 DEF StepPreflights, kit
  <2>2. up' = NoUp \/ \E p \in Providers : up' = [up EXCEPT !.at = "prove", !.provider = p, !.tries = 0]
    BY <1>6 DEF StepPreflights
  <2>3. up'.at \in {"idle", "prove"}
    <3>1. CASE up' = NoUp
      BY <3>1
    <3>2. ASSUME NEW p \in Providers, up' = [up EXCEPT !.at = "prove", !.provider = p, !.tries = 0]
          PROVE  up'.at = "prove"
      BY <1>0, <3>2
    <3> QED  BY <2>2, <3>1, <3>2
  <2> QED  BY <2>1, <2>3
<1>7. CASE Prove
  <2>1. UNCHANGED <<gens, active, shared>>
    BY <1>7 DEF Prove, kit
  <2>2. up' = NoUp \/ up' = [up EXCEPT !.at = "proving", !.rev = Active]
    BY <1>7 DEF Prove
  <2>3. up'.at \in {"idle", "proving"}
    <3>1. CASE up' = NoUp
      BY <3>1
    <3>2. CASE up' = [up EXCEPT !.at = "proving", !.rev = Active]
      BY <1>0, <3>2
    <3> QED  BY <2>2, <3>1, <3>2
  <2> QED  BY <2>1, <2>3
<1>8. CASE FinishProof
  <2>1. UNCHANGED <<gens, active, shared>>
    BY <1>8 DEF FinishProof, kit
  <2>2. \/ up' = NoUp \/ up' = [up EXCEPT !.at = "preflight"]
        \/ up' = [up EXCEPT !.at = "prove", !.tries = 1]
    BY <1>8 DEF FinishProof
  <2>3. up'.at \in {"idle", "preflight", "prove"}
    <3>1. CASE up' = NoUp
      BY <3>1
    <3>2. CASE up' = [up EXCEPT !.at = "preflight"]
      BY <1>0, <3>2
    <3>3. CASE up' = [up EXCEPT !.at = "prove", !.tries = 1]
      BY <1>0, <3>3
    <3> QED  BY <2>2, <3>1, <3>2, <3>3
  <2> QED  BY <2>1, <2>3
<1>9. CASE UpDies
  BY <1>0, <1>9 DEF UpDies, kit
<1> QED  BY <1>1, <1>2, <1>3, <1>4, <1>5, <1>6, <1>7, <1>8, <1>9 DEF PlainUp

LEMMA UpInv ==
  ASSUME IInv, UpStep \/ UpDies
  PROVE  RefreshIsOfRevision' /\ GenerationsAreWhole' /\ LockExcludes' /\ VerifiedIsSelected'
<1> USE DEF UpGo, UpNext, UpEnds, Ups, NoUp, RefreshIsOfRevision, GenerationsAreWhole,
            LockExcludes, Exclusive, VerifiedIsSelected, Selected
<1>0. TypeOK /\ RefreshIsOfRevision /\ GenerationsAreWhole /\ LockExcludes /\ VerifiedIsSelected
  BY DEF IInv
<1>a. up \in Ups /\ UNCHANGED launch
  BY <1>0, UpLeavesLaunch DEF TypeOK
<1>1. CASE PlainUp
  <2>1. up'.at \notin {"lock", "inspect", "retain", "select"} /\ UNCHANGED <<gens, active, shared, launch>>
    BY <1>0, <1>1, <1>a, PlainUpStep
  <2> QED  BY <1>0, <2>1
<1>2. CASE MoveAside
  BY <1>0, <1>2, <1>a DEF MoveAside
<1>3. CASE StepSourceKit
  <2>1. UNCHANGED <<gens, active, shared>> /\ upstream \in Revisions
    BY <1>0, <1>3 DEF StepSourceKit, kit, TypeOK
  <2>2. (up'.at = "lock" /\ up'.rev = upstream) \/ up'.at = "preflight"
    BY <1>3, <1>a DEF StepSourceKit
  <2> QED  BY <1>0, <1>a, <2>1, <2>2
<1>4. CASE LockExclusive
  <2>1. UNCHANGED <<gens, active, shared>> /\ shared = {} /\ up.at = "lock"
    BY <1>4 DEF LockExclusive, kit
  <2>2. up'.at = "inspect" /\ up'.rev = up.rev
    BY <1>4, <1>a DEF LockExclusive
  <2> QED  BY <1>0, <1>a, <2>1, <2>2
<1>5. CASE RefreshKit
  <2>1. UNCHANGED <<gens, active, shared>> /\ up.at = "inspect"
    BY <1>5 DEF RefreshKit, kit
  <2>2. up'.at \in {"idle", "preflight"} \/ (up'.at = "retain" /\ up'.rev = up.rev)
    BY <1>5, <1>a DEF RefreshKit
  <2> QED  BY <1>0, <1>a, <2>1, <2>2
<1>6. CASE Retain
  <2>1. UNCHANGED <<active, shared>> /\ up.at = "retain" /\ up.rev \in Revisions
    BY <1>0, <1>6 DEF Retain
  <2>2. up'.at = "idle" \/ (up'.at = "select" /\ up'.rev = up.rev)
    BY <1>6, <1>a DEF Retain
  <2>3. gens' = gens \/ gens' = [gens EXCEPT ![up.rev] = "whole"]
    BY <1>6 DEF Retain
  <2>4. up'.at = "select" => gens'[up.rev] = "whole"
    BY <1>0, <1>6, <1>a, <2>1 DEF Retain, TypeOK
  <2>5. \A r \in Revisions : gens'[r] \in {gens[r], "whole"}
    BY <1>0, <2>3 DEF TypeOK
  <2>6. active # "root" => active \in Revisions
    BY <1>0 DEF TypeOK
  <2>7. GenerationsAreWhole'
    BY <1>0, <2>1, <2>2, <2>4, <2>5, <2>6
  <2> QED  BY <1>0, <1>a, <2>1, <2>2, <2>7
<1>7. CASE Select
  <2>1. UNCHANGED <<gens, shared>> /\ active' = up.rev /\ up'.at = "preflight" /\ up.at = "select"
    BY <1>7 DEF Select
  <2> QED  BY <1>0, <2>1
<1> QED  BY <1>1, <1>2, <1>3, <1>4, <1>5, <1>6, <1>7 DEF UpStep, PlainUp

\* Of the state the invariant is about, a launch step changes its own part.
LEMMA LaunchFrame ==
  ASSUME TypeOK, NEW l \in Launchers, LaunchStep(l) \/ LaunchFails(l)
  PROVE  /\ \A k \in Launchers \ {l} : launch'[k] = launch[k] /\ (k \in shared' => k \in shared)
         /\ shared' \subseteq shared \cup {l}
         /\ l \in shared' /\ l \notin shared => LockShared(l)
<1> USE DEF LaunchGo, LaunchEnds, TypeOK
<1>1. CASE StartProvider(l) \/ LaunchFails(l)
  BY <1>1 DEF StartProvider, LaunchFails
<1>2. CASE LockShared(l)
  BY <1>2 DEF LockShared
<1>3. CASE \E p \in Providers : BeginProof(l, p) \/ BeginLaunch(l, p)
  BY <1>3 DEF BeginProof, BeginLaunch
<1>4. CASE EndProof(l)
  BY <1>4 DEF EndProof
<1>5. CASE PrepareInstall(l) \/ RecordKit(l) \/ InstallPrepared(l)
  BY <1>5 DEF PrepareInstall, RecordKit, InstallPrepared
<1>6. CASE VerifyBefore(l) \/ VerifyReady(l) \/ VerifyAfter(l)
  BY <1>6 DEF VerifyBefore, VerifyReady, VerifyAfter
<1> QED  BY <1>1, <1>2, <1>3, <1>4, <1>5, <1>6 DEF LaunchStep

\* What it changes of its own part.
LEMMA LaunchOwn ==
  ASSUME TypeOK, CopiesAgree, VerifiedIsSelected, NEW l \in Launchers,
         LaunchStep(l) \/ LaunchFails(l)
  PROVE  /\ launch'[l].at = "install" => launch'[l].rec = launch'[l].seen
         /\ launch'[l].at \in {"lock", "before", "ready", "after", "start"} =>
              launch'[l].files = launch'[l].rec
         /\ l \in shared' /\ launch'[l].at \in {"ready", "after", "start"} =>
              Selected(launch'[l].rec)
<1> USE DEF LaunchAt, LaunchGo, LaunchEnds
<1>0. launch \in [Launchers -> Launches] /\ launch[l] \in Launches
  BY DEF TypeOK
<1>1. CASE StartProvider(l) \/ LaunchFails(l)
  BY <1>0, <1>1 DEF StartProvider, LaunchFails, NoLaunch
<1>2. CASE \E p \in Providers : BeginProof(l, p) \/ BeginLaunch(l, p)
  BY <1>0, <1>2 DEF BeginProof, BeginLaunch, NoLaunch
<1>3. CASE EndProof(l)
  BY <1>0, <1>3 DEF EndProof, NoLaunch, Launches
<1>4. CASE PrepareInstall(l) \/ RecordKit(l) \/ InstallPrepared(l)
  BY <1>0, <1>4 DEF PrepareInstall, RecordKit, InstallPrepared, Launches, CopiesAgree
<1>5. CASE LockShared(l)
  BY <1>0, <1>5 DEF LockShared, Launches, CopiesAgree
<1>6. CASE VerifyBefore(l)
  <2>1. launch'[l] = [launch[l] EXCEPT !.at = "ready"] /\ Active = launch[l].rec
    BY <1>0, <1>6 DEF VerifyBefore
  <2>2. Selected(launch[l].rec)
    BY <2>1, ActiveIsKit DEF Selected, Active
  <2> QED  BY <1>0, <1>6, <2>1, <2>2 DEF VerifyBefore, Launches, CopiesAgree
<1>7. CASE VerifyReady(l) \/ VerifyAfter(l)
  BY <1>0, <1>7 DEF VerifyReady, VerifyAfter, Launches, CopiesAgree, VerifiedIsSelected
<1> QED  BY <1>1, <1>2, <1>3, <1>4, <1>5, <1>6, <1>7 DEF LaunchStep

LEMMA LaunchInv ==
  ASSUME IInv, NEW l \in Launchers, LaunchStep(l) \/ LaunchFails(l)
  PROVE  IInv'
<1>0. TypeOK /\ RefreshIsOfRevision /\ GenerationsAreWhole /\ LockExcludes
      /\ CopiesAgree /\ VerifiedIsSelected
  BY DEF IInv
<1>1. TypeOK'
  BY <1>0, LaunchStepTypes
<1>2. UNCHANGED <<gens, active, up>>
  BY LaunchLeavesUp
<1>3. RefreshIsOfRevision' /\ GenerationsAreWhole'
  BY <1>0, <1>2 DEF RefreshIsOfRevision, GenerationsAreWhole
<1>4. LockExcludes'
  <2>1. Exclusive => shared' \subseteq shared
    BY <1>0, LaunchFrame DEF LockShared
  <2> QED  BY <1>0, <1>2, <2>1 DEF LockExcludes, Exclusive
<1>5. CopiesAgree'
  BY <1>0, LaunchFrame, LaunchOwn DEF CopiesAgree, LaunchAt
<1>6. VerifiedIsSelected'
  <2>1. shared' \subseteq Launchers
    BY <1>1 DEF TypeOK
  <2>2. \A rev : Selected(rev)' <=> Selected(rev)
    BY <1>2 DEF Selected
  <2> QED  BY <1>0, <1>2, <2>1, <2>2, LaunchFrame, LaunchOwn DEF VerifiedIsSelected, Selected
<1> QED  BY <1>1, <1>3, <1>4, <1>5, <1>6 DEF IInv

LEMMA WorldInv ==
  ASSUME IInv, World
  PROVE  IInv'
<1>0. TypeOK /\ RefreshIsOfRevision /\ GenerationsAreWhole /\ LockExcludes
      /\ CopiesAgree /\ VerifiedIsSelected
  BY DEF IInv
<1>1. UNCHANGED <<active, shared, up, launch>> /\ TypeOK'
  BY <1>0, WorldLeavesUp, WorldTypes
<1>2. \A r \in Revisions : gens'[r] = gens[r] \/ (gens[r] # "none" /\ gens'[r] \in Damage)
  BY <1>0 DEF World, Advance, Expire, Meddle, Calm, kit, TypeOK
<1>3. Damage \subseteq {"drifted", "missing"}
  BY DamageAssumption
<1>4. GenerationsAreWhole'
  <2>1. active # "root" => active \in Revisions
    BY <1>0 DEF TypeOK
  <2>2. up.at = "select" => up.rev \in Revisions
    BY <1>0 DEF RefreshIsOfRevision
  <2> QED  BY <1>0, <1>1, <1>2, <1>3, <2>1, <2>2 DEF GenerationsAreWhole
<1>5. RefreshIsOfRevision' /\ LockExcludes' /\ CopiesAgree' /\ VerifiedIsSelected'
  BY <1>0, <1>1 DEF RefreshIsOfRevision, LockExcludes, Exclusive, CopiesAgree, LaunchAt,
     VerifiedIsSelected, Selected
<1> QED  BY <1>1, <1>4, <1>5 DEF IInv

\* All parts of the invariant hold in every state.
THEOREM InvariantHolds == Spec => []IInv
<1>1. ASSUME IInv, [Next]_vars PROVE IInv'
  <2>0. TypeOK /\ RefreshIsOfRevision /\ CopiesAgree
    BY <1>1 DEF IInv
  <2>1. CASE UpStep \/ UpDies
    <3>1. TypeOK'
      BY <2>0, <2>1, UpStepTypes
    <3>2. CopiesAgree'
      BY <2>0, <2>1, UpLeavesLaunch DEF CopiesAgree, LaunchAt
    <3> QED  BY <1>1, <2>1, <3>1, <3>2, UpInv DEF IInv
  <2>2. CASE \E l \in Launchers : LaunchStep(l) \/ LaunchFails(l)
    BY <1>1, <2>2, LaunchInv
  <2>3. CASE World
    BY <1>1, <2>3, WorldInv
  <2>4. CASE UNCHANGED vars
    BY <1>1, <2>4 DEF vars, kit, IInv, TypeOK, RefreshIsOfRevision, GenerationsAreWhole,
       LockExcludes, Exclusive, CopiesAgree, LaunchAt, VerifiedIsSelected, Selected
  <2> QED  BY <1>1, <2>1, <2>2, <2>3, <2>4 DEF Next, World
<1> QED  BY <1>1, InitInv, PTL DEF Spec

-----------------------------------------------------------------------------
(* What follows.                                                           *)

\* Kits are only ever named by a floor or a Snowcat commit, and only a commit's
\* generation is ever selected.
THEOREM TypeCorrect == Spec => []TypeOK
<1>1. IInv => TypeOK
  BY DEF IInv
<1> QED  BY <1>1, InvariantHolds, PTL

\* The selected generation is complete wherever a refresh was cut, unless
\* somebody's hand damaged it.
THEOREM ActiveWhole == Spec => []ActiveIsWhole
<1>1. ASSUME IInv PROVE ActiveIsWhole
  BY <1>1 DEF IInv, TypeOK, GenerationsAreWhole, ActiveIsWhole
<1> QED  BY <1>1, InvariantHolds, PTL

\* A worker starts with the files its record names, and they are the selected
\* ones, if its lock is the one of the directory in place.
THEOREM StartsAreActive == Spec => []StartsOnActiveKit
<1>1. ASSUME IInv PROVE StartsOnActiveKit
  BY <1>1 DEF IInv, CopiesAgree, VerifiedIsSelected, Selected, StartsOnActiveKit, LaunchAt
<1> QED  BY <1>1, InvariantHolds, PTL
=============================================================================
