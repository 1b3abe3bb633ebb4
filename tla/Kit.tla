-------------------------------- MODULE Kit ---------------------------------
(* The worker kit: who changes it, who proves it, who is given it.         *)
(*                                                                         *)
(* The kit directory (internal/profile) holds the skill files of the       *)
(* embedded offline floor and, beside them, immutable generations made     *)
(* from exact Snowcat commits; one symbolic link selects the generation    *)
(* that is served.  node up repairs the floor, switches the selection      *)
(* under an exclusive lock and proves each provider against what is        *)
(* served; the running node proves providers too, and launches workers     *)
(* that each get a copy of the served kit and start under the shared side  *)
(* of the lock.  All of these are processes of their own over one          *)
(* directory, and each can be killed between any two of its steps.         *)
(*                                                                         *)
(* A skill file's content is the revision it came from.                    *)
CONSTANTS
  Skills,       \* the canonical skills
  Floors,       \* the offline floors of Cockpit releases
  embedded,     \* the floor of the installed release
  Revisions,    \* the Snowcat commits a kit is made from
  Damage,       \* what somebody may do to a kit: drifted, missing
  Providers,
  Launchers     \* who proves providers and launches workers, one at a time
                \* each: the node's campaign, commands

ASSUME SetsAssumption == embedded \in Floors
ASSUME DamageAssumption == Damage \subseteq {"drifted", "missing"}
ASSUME DistinctAssumption ==
  /\ Floors \cap Revisions = {}
  /\ {"absent", "torn", "none"} \cap (Floors \cup Revisions) = {}
  /\ "root" \notin Revisions

VARIABLES
  upstream,   \* the prepared commit of the managed Snowcat checkout
  root,       \* the floor's files and manifest in the kit directory
  gens,       \* the generations beside them
  active,     \* the generation .active selects, or the root
  shared,     \* launches holding the shared side of the directory's lock
  receipts,   \* per provider: the kit its last preflight proves it with
  up,         \* the node up that runs
  launch,     \* per launcher: the launch, or the preflight, that runs
  faults      \* kits are damaged and moved on, commands fail and are killed

kit == <<root, gens, active>>
vars == <<upstream, kit, shared, receipts, up, launch, faults>>

Kits == Floors \cup Revisions
Receipts == Kits \cup {"none"}

UpSteps == {"aside", "floor", "create", "write", "source", "lock",
            "inspect", "retain", "select", "preflight", "prove", "proving"}
Ups == [at : UpSteps \cup {"idle"}, skill : Skills \cup {"none"}, rev : Kits \cup {"none"},
        provider : Providers \cup {"none"}, tries : {0, 1}]
Steps == {"prepare", "record", "install", "lock", "before", "ready", "after", "start"}
Launches == [at : Steps \cup {"idle", "proving", "again"}, provider : Providers \cup {"none"}, seen : Kits \cup {"none"},
             rec : Kits \cup {"none"}, files : Kits \cup {"none"}]

\* A kit is only ever named by a floor or by a Snowcat commit, wherever its
\* name has been copied to: manifests, receipts, records (source.go:613-632).
TypeOK ==
  /\ upstream \in Revisions
  /\ root \in [skill : [Skills -> Floors \cup {"absent", "torn"}],
               manifest : Floors \cup {"none"}]
  /\ gens \in [Revisions -> {"none", "whole", "drifted", "missing"}]
  /\ active \in Revisions \cup {"root"}
  /\ shared \subseteq Launchers
  /\ receipts \in [Providers -> Receipts]
  /\ up \in Ups
  /\ launch \in [Launchers -> Launches]
  /\ faults \in BOOLEAN

NoRoot == [skill |-> [s \in Skills |-> "absent"], manifest |-> "none"]
NoUp == [at |-> "idle", skill |-> "none", rev |-> "none", provider |-> "none", tries |-> 0]
NoLaunch == [at |-> "idle", provider |-> "none", seen |-> "none", rec |-> "none",
             files |-> "none"]

\* No kit yet, or the one an earlier release installed.
Init ==
  /\ upstream \in Revisions
  /\ \/ root = NoRoot
     \/ \E f \in Floors : root = [skill |-> [s \in Skills |-> f], manifest |-> f]
  /\ gens = [r \in Revisions |-> "none"] /\ active = "root"
  /\ shared = {}
  /\ receipts = [p \in Providers |-> "none"]
  /\ up = NoUp
  /\ launch = [l \in Launchers |-> NoLaunch]
  /\ faults = TRUE

-----------------------------------------------------------------------------
(* What is served.                                                         *)

\* The manifest of the selected directory; a root without one is taken for
\* the floor of the release that looks.
Floor == IF root.manifest = "none" THEN embedded ELSE root.manifest
Active == IF active = "root" THEN Floor ELSE active

\* One skill absent is missing, whatever the others are; one that differs is
\* drift.
RootStatus ==
  IF \E s \in Skills : root.skill[s] = "absent" THEN "missing"
  ELSE IF \E s \in Skills : root.skill[s] # Floor THEN "drifted" ELSE "ready"

KitStatus ==
  IF active = "root" THEN RootStatus
  ELSE IF gens[active] = "whole" THEN "ready" ELSE gens[active]

\* A receipt counts while it is ready, unexpired and of the kit that is served.
Proved(p) == receipts[p] = Active

\* The refresh holds the exclusive side from here until it returns.
Exclusive == up.at \in {"inspect", "retain", "select"}

-----------------------------------------------------------------------------
(* node up: the kit step.                                                  *)

UpGo(at) == up' = [up EXCEPT !.at = at]
UpNext(at) == up' = [NoUp EXCEPT !.at = at]
UpEnds == up' = NoUp

\* Ready is left alone, drift of a selected generation is not repaired.
StepKit ==
  /\ up = NoUp
  /\ \/ KitStatus = "ready" /\ UpGo("source")
     \/ KitStatus = "missing" /\ UpGo("floor")
     \/ KitStatus = "drifted" /\ active = "root" /\ UpGo("aside")
  /\ UNCHANGED <<upstream, kit, shared, receipts, launch, faults>>

\* The whole directory is moved aside: the lock file goes with it, and so do
\* the locks that launches hold.
MoveAside ==
  /\ up.at = "aside"
  /\ root' = NoRoot /\ gens' = [r \in Revisions |-> "none"] /\ active' = "root"
  /\ shared' = {}
  /\ UpGo("floor")
  /\ UNCHANGED <<upstream, receipts, launch, faults>>

\* Every file that is there must be the embedded one, or nothing is written.
InstallFloor ==
  /\ up.at = "floor"
  /\ IF \A s \in Skills : root.skill[s] \in {"absent", embedded} THEN UpGo("create") ELSE UpEnds
  /\ UNCHANGED <<upstream, kit, shared, receipts, launch, faults>>

CreateSkill(s) ==
  /\ up.at = "create"
  /\ root.skill[s] = "absent"
  /\ root' = [root EXCEPT !.skill[s] = "torn"]
  /\ up' = [up EXCEPT !.at = "write", !.skill = s]
  /\ UNCHANGED <<upstream, gens, active, shared, receipts, launch, faults>>

\* A write that fails takes its file away again.
WriteSkill ==
  /\ up.at = "write"
  /\ \/ root' = [root EXCEPT !.skill[up.skill] = embedded] /\ UpNext("create")
     \/ root' = [root EXCEPT !.skill[up.skill] = "absent"] /\ faults /\ UpEnds
  /\ UNCHANGED <<upstream, gens, active, shared, receipts, launch, faults>>

\* Mutant: the manifest names what is found, not what is embedded.
ManifestOfFiles ==
  /\ up.at = "create"
  /\ \A s \in Skills : root.skill[s] # "absent"
  /\ \E s \in Skills : root' = [root EXCEPT !.manifest = root.skill[s]]
  /\ UpGo("source")
  /\ UNCHANGED <<upstream, gens, active, shared, receipts, launch, faults>>

WriteManifest ==
  /\ up.at = "create"
  /\ \A s \in Skills : root.skill[s] # "absent"
  /\ root' = [root EXCEPT !.manifest = embedded]
  /\ UpGo("source")
  /\ UNCHANGED <<upstream, gens, active, shared, receipts, launch, faults>>

-----------------------------------------------------------------------------
(* node up: the source-kit step.                                           *)

\* The bundle is read from the exact commit; without the source the last good
\* kit stays.
StepSourceKit ==
  /\ up.at = "source"
  /\ \/ up' = [up EXCEPT !.at = "lock", !.rev = upstream]
     \/ faults /\ UpGo("preflight")
  /\ UNCHANGED <<upstream, kit, shared, receipts, launch, faults>>

\* Mutant: launches that hold the shared side are not waited for.
LockTaken ==
  /\ up.at = "lock"
  /\ UpGo("inspect")
  /\ UNCHANGED <<upstream, kit, shared, receipts, launch, faults>>

LockExclusive ==
  /\ up.at = "lock"
  /\ shared = {}
  /\ UpGo("inspect")
  /\ UNCHANGED <<upstream, kit, shared, receipts, launch, faults>>

\* Mutant: the generation is selected before it is there.
SelectFirst ==
  /\ up.at = "inspect"
  /\ \/ KitStatus # "ready" /\ UpEnds
     \/ KitStatus = "ready" /\ active = up.rev /\ UpNext("preflight")
     \/ KitStatus = "ready" /\ active # up.rev /\ UpGo("select")
  /\ UNCHANGED <<upstream, kit, shared, receipts, launch, faults>>

\* Only a ready kit is replaced, and only by another one.
RefreshKit ==
  /\ up.at = "inspect"
  /\ \/ KitStatus # "ready" /\ UpEnds
     \/ KitStatus = "ready" /\ active = up.rev /\ UpNext("preflight")
     \/ KitStatus = "ready" /\ active # up.rev /\ UpGo("retain")
  /\ UNCHANGED <<upstream, kit, shared, receipts, launch, faults>>

\* Mutant: a generation that is there already is in the way.
GenerationInTheWay ==
  /\ up.at = "retain"
  /\ \/ gens[up.rev] = "none" /\ gens' = [gens EXCEPT ![up.rev] = "whole"] /\ UpGo("select")
     \/ gens[up.rev] # "none" /\ UpEnds /\ UNCHANGED gens
  /\ UNCHANGED <<upstream, root, active, shared, receipts, launch, faults>>

\* A staged copy becomes the generation in one rename; one that is there
\* already is used if it verifies.
Retain ==
  /\ up.at = "retain"
  /\ \/ gens[up.rev] = "none" /\ gens' = [gens EXCEPT ![up.rev] = "whole"] /\ UpGo("select")
     \/ gens[up.rev] = "whole" /\ UpGo("select") /\ UNCHANGED gens
     \/ gens[up.rev] \in {"drifted", "missing"} /\ UpEnds /\ UNCHANGED gens
  /\ UNCHANGED <<upstream, root, active, shared, receipts, launch, faults>>

Select ==
  /\ up.at = "select"
  /\ active' = up.rev
  /\ UpNext("preflight")
  /\ UNCHANGED <<upstream, root, gens, shared, receipts, launch, faults>>

-----------------------------------------------------------------------------
(* node up: the preflight step.                                            *)

StepPreflights ==
  /\ up.at = "preflight"
  /\ \/ KitStatus # "ready" /\ UpEnds
     \/ KitStatus = "ready" /\ (\A p \in Providers : Proved(p)) /\ UpEnds
     \/ /\ KitStatus = "ready"
        /\ \E p \in Providers : ~Proved(p) /\ up' = [up EXCEPT !.at = "prove", !.provider = p,
                                                              !.tries = 0]
  /\ UNCHANGED <<upstream, kit, shared, receipts, launch, faults>>

\* Each attempt seeds its workspace with the kit served then.
Prove ==
  /\ up.at = "prove"
  /\ IF KitStatus = "ready"
     THEN up' = [up EXCEPT !.at = "proving", !.rev = Active]
     ELSE UpEnds
  /\ UNCHANGED <<upstream, kit, shared, receipts, launch, faults>>

\* A failed attempt replaces the receipt too, and proves nothing.
WritePreflight(p, rev, ready) ==
  receipts' = [receipts EXCEPT ![p] = IF ready THEN rev ELSE "none"]

FinishProof ==
  /\ up.at = "proving"
  /\ \E ready \in BOOLEAN :
       /\ WritePreflight(up.provider, up.rev, ready)
       /\ \/ ready /\ UpGo("preflight")
          \/ ~ready /\ up.tries = 0 /\ up' = [up EXCEPT !.at = "prove", !.tries = 1]
          \/ ~ready /\ up.tries = 1 /\ UpEnds
  /\ UNCHANGED <<upstream, kit, shared, launch, faults>>

\* A step fails on the way, or the command is killed: the kernel drops the lock.
UpDies ==
  /\ faults
  /\ up.at # "idle"
  /\ UpEnds
  /\ UNCHANGED <<upstream, kit, shared, receipts, launch, faults>>

UpStep ==
  \/ StepKit \/ MoveAside \/ InstallFloor \/ WriteSkill \/ WriteManifest
  \/ \E s \in Skills : CreateSkill(s)
  \/ StepSourceKit \/ LockExclusive \/ RefreshKit \/ Retain \/ Select
  \/ StepPreflights \/ Prove \/ FinishProof

-----------------------------------------------------------------------------
(* The node's own preflights: one seeded workspace for both attempts.      *)

LaunchAt(l, at) == launch[l].at = at
LaunchGo(l, at) == launch' = [launch EXCEPT ![l].at = at]
LaunchEnds(l) == launch' = [launch EXCEPT ![l] = NoLaunch]

BeginProof(l, p) ==
  /\ launch[l] = NoLaunch
  /\ KitStatus = "ready"
  /\ launch' = [launch EXCEPT ![l] = [NoLaunch EXCEPT !.at = "proving", !.provider = p,
                                                     !.files = Active]]
  /\ UNCHANGED <<upstream, kit, shared, receipts, up, faults>>

EndProof(l) ==
  /\ launch[l].at \in {"proving", "again"}
  /\ \E ready \in BOOLEAN :
       /\ WritePreflight(launch[l].provider, launch[l].files, ready)
       /\ IF ~ready /\ LaunchAt(l, "proving") THEN LaunchGo(l, "again") ELSE LaunchEnds(l)
  /\ UNCHANGED <<upstream, kit, shared, up, faults>>

-----------------------------------------------------------------------------
(* Launch, as far as it is about the kit.                                  *)

\* The provider is ready, and the manifest is read a first time.
BeginLaunch(l, p) ==
  /\ launch[l] = NoLaunch
  /\ KitStatus = "ready" /\ Proved(p)
  /\ launch' = [launch EXCEPT ![l] = [NoLaunch EXCEPT !.at = "prepare", !.provider = p,
                                                     !.seen = Active]]
  /\ UNCHANGED <<upstream, kit, shared, receipts, up, faults>>

\* Manifest and bytes are read again, checked against each other and held.
PrepareInstall(l) ==
  /\ LaunchAt(l, "prepare")
  /\ KitStatus = "ready"
  /\ launch' = [launch EXCEPT ![l].at = "record", ![l].seen = Active]
  /\ UNCHANGED <<upstream, kit, shared, receipts, up, faults>>

RecordKit(l) ==
  /\ LaunchAt(l, "record")
  /\ launch' = [launch EXCEPT ![l].at = "install", ![l].rec = launch[l].seen]
  /\ UNCHANGED <<upstream, kit, shared, receipts, up, faults>>

InstallPrepared(l) ==
  /\ LaunchAt(l, "install")
  /\ launch' = [launch EXCEPT ![l].at = "lock", ![l].files = launch[l].seen]
  /\ UNCHANGED <<upstream, kit, shared, receipts, up, faults>>

LockShared(l) ==
  /\ LaunchAt(l, "lock")
  /\ ~Exclusive
  /\ shared' = shared \cup {l}
  /\ LaunchGo(l, "before")
  /\ UNCHANGED <<upstream, kit, receipts, up, faults>>

\* verifyKitReady: the recorded revision is served, the provider is ready,
\* the recorded revision is still served.
VerifyBefore(l) ==
  /\ LaunchAt(l, "before") /\ Active = launch[l].rec
  /\ LaunchGo(l, "ready")
  /\ UNCHANGED <<upstream, kit, shared, receipts, up, faults>>

VerifyReady(l) ==
  /\ LaunchAt(l, "ready") /\ KitStatus = "ready" /\ Proved(launch[l].provider)
  /\ LaunchGo(l, "after")
  /\ UNCHANGED <<upstream, kit, shared, receipts, up, faults>>

VerifyAfter(l) ==
  /\ LaunchAt(l, "after") /\ Active = launch[l].rec
  /\ LaunchGo(l, "start")
  /\ UNCHANGED <<upstream, kit, shared, receipts, up, faults>>

\* The provider starts, and the lock is let go.
StartProvider(l) ==
  /\ LaunchAt(l, "start")
  /\ LaunchEnds(l)
  /\ shared' = shared \ {l}
  /\ UNCHANGED <<upstream, kit, receipts, up, faults>>

\* A check refuses, a step fails, or the launcher is killed.
LaunchFails(l) ==
  /\ launch[l] # NoLaunch
  /\ LaunchEnds(l)
  /\ shared' = shared \ {l}
  /\ UNCHANGED <<upstream, kit, receipts, up, faults>>

LaunchStep(l) ==
  \/ \E p \in Providers : BeginProof(l, p) \/ BeginLaunch(l, p)
  \/ EndProof(l)
  \/ PrepareInstall(l) \/ RecordKit(l) \/ InstallPrepared(l) \/ LockShared(l)
  \/ VerifyBefore(l) \/ VerifyReady(l) \/ VerifyAfter(l)
  \/ StartProvider(l)

-----------------------------------------------------------------------------
(* The world around.                                                       *)

\* Snowcat's main moves on; a receipt expires.
Advance ==
  /\ faults
  /\ upstream' \in Revisions \ {upstream}
  /\ UNCHANGED <<kit, shared, receipts, up, launch, faults>>

Expire(p) ==
  /\ receipts[p] # "none"
  /\ receipts' = [receipts EXCEPT ![p] = "none"]
  /\ UNCHANGED <<upstream, kit, shared, up, launch, faults>>

\* Somebody edits or deletes a skill file of the kit (bound: not before what
\* is damaged already has been repaired).
Sound ==
  /\ \A r \in Revisions : gens[r] \in {"none", "whole"}
  /\ RootStatus = "ready"

Meddle ==
  /\ faults /\ Sound
  /\ \E d \in Damage :
       \/ \E s \in Skills :
            /\ root.skill[s] # "absent"
            /\ root' = [root EXCEPT !.skill[s] = IF d = "drifted" THEN "torn" ELSE "absent"]
            /\ UNCHANGED gens
       \/ \E r \in Revisions :
            /\ gens[r] # "none"
            /\ gens' = [gens EXCEPT ![r] = d]
            /\ UNCHANGED root
  /\ UNCHANGED <<upstream, active, shared, receipts, up, launch, faults>>

Calm ==
  /\ faults
  /\ faults' = FALSE
  /\ UNCHANGED <<upstream, kit, shared, receipts, up, launch>>

Next ==
  \/ UpStep \/ UpDies
  \/ \E l \in Launchers : LaunchStep(l) \/ LaunchFails(l)
  \/ Advance \/ (\E p \in Providers : Expire(p)) \/ Meddle \/ Calm

Spec == Init /\ [][Next]_vars

\* node up is run again and again and goes on; a launch ends, and the gap to
\* the next one is longer than the lock's polling interval.
FairSpec ==
  /\ Spec
  /\ WF_vars(UpStep) /\ SF_vars(LockExclusive)
  /\ \A l \in Launchers : WF_vars(StartProvider(l) \/ LaunchFails(l))

-----------------------------------------------------------------------------
\* Whenever node up is killed between staging, renaming and selecting
\* (source.go:246-300), the selected generation is complete; only somebody's
\* hand in the directory makes it otherwise.
ActiveIsWhole == active # "root" => gens[active] \in {"whole"} \cup Damage

\* From its last check to its start (worker.go:488-508, 1783-1806) a worker
\* that holds the lock of the directory in place has the files its record
\* names, and they are the ones selected.
StartsOnActiveKit ==
  \A l \in Launchers : LaunchAt(l, "start") /\ l \in shared =>
    /\ launch[l].files = launch[l].rec
    /\ IF active = "root" THEN launch[l].rec \in Floors ELSE launch[l].rec = active

\* What node up can repair by itself: a floor that is drifted, or one that is
\* incomplete and otherwise as embedded.
Repairable ==
  /\ gens[upstream] \in {"none", "whole"}
  /\ \/ KitStatus = "ready"
     \/ active = "root" /\ KitStatus = "drifted"
     \/ active = "root" /\ \A s \in Skills : root.skill[s] \in {"absent", embedded}

\* Wherever the runs before it were killed, and whatever launches hold the
\* lock, node up run again ends with the prepared commit's kit selected.
KitConverges == ~faults /\ up = NoUp /\ Repairable ~> [](active = upstream)

\* docs/specs/node-up.md, kit step: the floor is installed when the kit is
\* missing, so a run that nobody disturbs leaves a kit that is ready.
UpRepairsKit == ~faults ~> [](KitStatus = "ready")
=============================================================================
