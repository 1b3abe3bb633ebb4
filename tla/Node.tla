-------------------------------- MODULE Node --------------------------------
(* The node as a user service: who installs it, what runs.                 *)
(*                                                                         *)
(* Commands (internal/nodeservice, internal/nodeup) write a release, an    *)
(* environment file, a unit file, the selection of the release and a       *)
(* record, one after the other, and have systemd load and start what they  *)
(* wrote.  systemd starts the node again by itself when it fails and when  *)
(* the host boots, from whatever the files say then.  A command can fail   *)
(* or be killed between any two of its steps; node up then looks at the    *)
(* record, at the environment file and at the node's health, and decides   *)
(* from them whether there is anything to install.                         *)
(*                                                                         *)
(* Bound: one command at a time; nothing in the code keeps two apart.      *)
CONSTANTS
  Releases,    \* releases, named by their content
  Spoilable,   \* bound: the releases whose files somebody may change
  Args,        \* listen address and directories: the arguments in the unit
  Envs,        \* contents of the environment file
  Plans,       \* what somebody may want: a release, arguments, environment
  VersionOf,   \* the build version of a release
  ListenOf     \* the address in the arguments

ASSUME PlansAssumption == Plans \subseteq [release : Releases, args : Args, env : Envs]
ASSUME NoneAssumption == "none" \notin Releases \cup Args \cup Envs

VARIABLES
  goal,       \* the release at hand and the declared configuration
  releases,   \* the releases below the install root
  spoiled,    \* those of them whose files are no longer what they are named for
  envFile, unitFile, current, record,   \* the files of the service
  loaded,     \* the unit as systemd has loaded it
  enabled,    \* whether systemd starts it at boot
  proc,       \* the node process
  cmd,        \* the command that runs
  faults      \* things fail, die and are changed

files == <<releases, spoiled, envFile, unitFile, current, record>>
systemd == <<loaded, enabled>>
vars == <<goal, files, systemd, proc, cmd, faults>>

NoRecord == [release |-> "none", args |-> "none", declared |-> FALSE]
Stopped == [at |-> "none", release |-> "none", args |-> "none", env |-> "none", campaign |-> FALSE]
NoCmd == [kind |-> "none", at |-> "idle", plan |-> [release |-> "none", args |-> "none", env |-> "none"],
          fresh |-> FALSE]

Steps == {"decide", "release", "env", "unit", "current", "record", "reload", "enable",
          "restart", "verify", "repositories", "campaign", "status",
          "disable", "rmUnit", "rmCurrent", "rmEnv", "rmRecord", "unload", "report"}

\* Only a release that is complete is ever selected (service.go:248-268).
TypeOK ==
  /\ goal \in Plans
  /\ releases \subseteq Releases /\ spoiled \subseteq releases
  /\ envFile \in Envs \cup {"none"} /\ unitFile \in Args \cup {"none"}
  /\ current \in releases \cup {"none"}
  /\ record \in [release : Releases \cup {"none"}, args : Args \cup {"none"}, declared : BOOLEAN]
  /\ loaded \in Args \cup {"none"} /\ enabled \in BOOLEAN
  /\ proc \in [at : {"none", "running", "failed"}, release : Releases \cup {"none"},
               args : Args \cup {"none"}, env : Envs \cup {"none"}, campaign : BOOLEAN]
  /\ cmd \in [kind : {"up", "install", "restart", "uninstall"}, at : Steps,
              plan : Plans, fresh : BOOLEAN] \cup {NoCmd}
  /\ faults \in BOOLEAN

Init ==
  /\ goal \in Plans
  /\ releases = {} /\ spoiled = {} /\ envFile = "none" /\ unitFile = "none" /\ current = "none"
  /\ record = NoRecord
  /\ loaded = "none" /\ enabled = FALSE
  /\ proc = Stopped /\ cmd = NoCmd
  /\ faults = TRUE

-----------------------------------------------------------------------------
(* systemd and the node process.                                           *)

\* What systemd starts: the selected release, the loaded unit's arguments,
\* the environment file as it is then.
Startable == current # "none" /\ loaded # "none" /\ envFile # "none"
FromFiles(args) == [at |-> "running", release |-> current, args |-> args, env |-> envFile,
                    campaign |-> FALSE]
Start == proc' = FromFiles(loaded) \/ (faults /\ proc' = [Stopped EXCEPT !.at = "failed"])

\* Active, answering at the recorded address, of the recorded build.
Healthy ==
  /\ record # NoRecord
  /\ proc.at = "running"
  /\ ListenOf[proc.args] = ListenOf[record.args]
  /\ VersionOf[proc.release] = VersionOf[record.release]

\* Restart=on-failure.
StartAgain ==
  /\ proc.at = "failed"
  /\ Startable
  /\ Start
  /\ UNCHANGED <<goal, files, systemd, cmd, faults>>

ProcessEnds ==
  /\ faults
  /\ proc.at = "running"
  /\ \E at \in {"none", "failed"} : proc' = [Stopped EXCEPT !.at = at]
  /\ UNCHANGED <<goal, files, systemd, cmd, faults>>

CampaignEnds ==
  /\ faults
  /\ proc.campaign
  /\ proc' = [proc EXCEPT !.campaign = FALSE]
  /\ UNCHANGED <<goal, files, systemd, cmd, faults>>

Reboot ==
  /\ faults
  /\ loaded' = unitFile
  /\ proc' = IF enabled /\ unitFile # "none" /\ current # "none" /\ envFile # "none"
             THEN FromFiles(unitFile) ELSE Stopped
  /\ cmd' = NoCmd
  /\ UNCHANGED <<goal, files, enabled, faults>>

-----------------------------------------------------------------------------
(* Commands.                                                               *)

At(step) == cmd.at = step
Go(step) == cmd' = [cmd EXCEPT !.at = step]
Ends == cmd' = NoCmd
Begin(kind, step, plan) ==
  cmd = NoCmd /\ cmd' = [kind |-> kind, at |-> step, plan |-> plan, fresh |-> FALSE]

BeginUp ==
  /\ Begin("up", "decide", goal)
  /\ UNCHANGED <<goal, files, systemd, proc, faults>>

\* The other commands: an installation without the configuration, a restart,
\* an uninstallation.
BeginOther ==
  /\ faults
  /\ \/ \E plan \in Plans : Begin("install", "release", plan)
     \/ record # NoRecord /\ Begin("restart", "restart", goal)
     \/ Begin("uninstall", "disable", goal)
  /\ UNCHANGED <<goal, files, systemd, proc, faults>>

\* A command is killed, or what it calls fails and it returns.
CommandDies ==
  /\ faults
  /\ cmd # NoCmd
  /\ Ends
  /\ UNCHANGED <<goal, files, systemd, proc, faults>>

-----------------------------------------------------------------------------
(* node up decides.                                                        *)

\* The node that runs is healthy, and record and environment file are the
\* plan's.  Neither the unit, the selection nor what runs is compared.
Matches(plan) ==
  /\ record = [release |-> plan.release, args |-> plan.args, declared |-> TRUE]
  /\ envFile = plan.env

\* Mutant: the environment file is not compared.
EnvironmentOverlooked ==
  /\ At("decide")
  /\ IF Healthy /\ record.release = cmd.plan.release /\ record.args = cmd.plan.args /\ record.declared
     THEN Go("repositories") ELSE Go("release")
  /\ UNCHANGED <<goal, files, systemd, proc, faults>>

Decide ==
  /\ At("decide")
  /\ IF Healthy /\ Matches(cmd.plan) THEN Go("repositories") ELSE Go("release")
  /\ UNCHANGED <<goal, files, systemd, proc, faults>>

-----------------------------------------------------------------------------
(* Install.                                                                *)

\* Mutant: the staged directory is never renamed.
ReleaseLeftStaged ==
  /\ At("release")
  /\ Go("env")
  /\ UNCHANGED <<goal, files, systemd, proc, faults>>

\* A staged directory becomes the release in one rename; one that is there is
\* used if it has the content it is named for.
InstallRelease ==
  /\ At("release")
  /\ cmd.plan.release \notin spoiled
  /\ releases' = releases \cup {cmd.plan.release}
  /\ Go("env")
  /\ UNCHANGED <<goal, spoiled, envFile, unitFile, current, record, systemd, proc, faults>>

\* One that does not match is refused, by every installation of that release.
RefuseRelease ==
  /\ At("release")
  /\ cmd.plan.release \in spoiled
  /\ Ends
  /\ UNCHANGED <<goal, files, systemd, proc, faults>>

WriteEnvironment ==
  /\ At("env")
  /\ envFile' = cmd.plan.env
  /\ Go("unit")
  /\ UNCHANGED <<goal, releases, spoiled, unitFile, current, record, systemd, proc, faults>>

WriteUnit ==
  /\ At("unit")
  /\ unitFile' = cmd.plan.args
  /\ Go("current")
  /\ UNCHANGED <<goal, releases, spoiled, envFile, current, record, systemd, proc, faults>>

SwitchCurrent ==
  /\ At("current")
  /\ current' = cmd.plan.release
  /\ Go("record")
  /\ UNCHANGED <<goal, releases, spoiled, envFile, unitFile, record, systemd, proc, faults>>

WriteRecord ==
  /\ At("record")
  /\ record' = [release |-> cmd.plan.release, args |-> cmd.plan.args, declared |-> cmd.kind = "up"]
  /\ Go("reload")
  /\ UNCHANGED <<goal, releases, spoiled, envFile, unitFile, current, systemd, proc, faults>>

\* Mutant: systemd is not told of the new unit.
ReloadForgotten ==
  /\ At("reload")
  /\ Go("enable")
  /\ UNCHANGED <<goal, files, systemd, proc, faults>>

DaemonReload ==
  /\ At("reload")
  /\ loaded' = unitFile
  /\ Go("enable")
  /\ UNCHANGED <<goal, files, enabled, proc, faults>>

Enable ==
  /\ At("enable")
  /\ enabled' = TRUE
  /\ Go("restart")
  /\ UNCHANGED <<goal, files, loaded, proc, faults>>

\* systemctl restart, of an installation and of the command of that name.  It
\* stops the process first; of a unit that systemd does not know it fails at once.
RestartUnit ==
  /\ At("restart")
  /\ \/ Startable /\ Start /\ Go("verify")
     \/ ~Startable /\ loaded # "none" /\ proc' = [Stopped EXCEPT !.at = "failed"] /\ Ends
     \/ loaded = "none" /\ UNCHANGED proc /\ Ends
  /\ UNCHANGED <<goal, files, systemd, faults>>

\* Polled until it is healthy, or given up.
Verify ==
  /\ At("verify")
  /\ \/ Healthy /\ cmd.kind = "up" /\ cmd' = [cmd EXCEPT !.at = "repositories", !.fresh = TRUE]
     \/ Healthy /\ cmd.kind = "install" /\ cmd' = [cmd EXCEPT !.at = "report", !.fresh = TRUE]
     \/ Healthy /\ cmd.kind = "restart" /\ Ends
     \/ ~Healthy /\ Ends
  /\ UNCHANGED <<goal, files, systemd, proc, faults>>

-----------------------------------------------------------------------------
(* node up goes on with the node that runs.                                *)

Answers == proc.at = "running" /\ ListenOf[proc.args] = ListenOf[cmd.plan.args]

\* The repositories are set up by the node; kit and providers are proved.
Repositories ==
  /\ At("repositories")
  /\ IF Answers THEN Go("campaign") ELSE Ends
  /\ UNCHANGED <<goal, files, systemd, proc, faults>>

\* An active campaign is left in place.
StartCampaign ==
  /\ At("campaign")
  /\ IF Answers THEN proc' = [proc EXCEPT !.campaign = TRUE] /\ Go("status")
     ELSE Ends /\ UNCHANGED proc
  /\ UNCHANGED <<goal, files, systemd, faults>>

Status ==
  /\ At("status")
  /\ IF Healthy THEN Go("report") ELSE Ends
  /\ UNCHANGED <<goal, files, systemd, proc, faults>>

Report ==
  /\ At("report")
  /\ Ends
  /\ UNCHANGED <<goal, files, systemd, proc, faults>>

-----------------------------------------------------------------------------
(* Uninstall.                                                              *)

\* systemctl disable --now knows only a unit that has its file.
Disable ==
  /\ At("disable")
  /\ IF unitFile = "none" THEN Ends /\ UNCHANGED <<enabled, proc>>
     ELSE enabled' = FALSE /\ proc' = Stopped /\ Go("rmUnit")
  /\ UNCHANGED <<goal, files, loaded, faults>>

RemoveUnit ==
  /\ At("rmUnit")
  /\ unitFile' = "none" /\ Go("rmCurrent")
  /\ UNCHANGED <<goal, releases, spoiled, envFile, current, record, systemd, proc, faults>>

RemoveCurrent ==
  /\ At("rmCurrent")
  /\ current' = "none" /\ Go("rmEnv")
  /\ UNCHANGED <<goal, releases, spoiled, envFile, unitFile, record, systemd, proc, faults>>

RemoveEnvironment ==
  /\ At("rmEnv")
  /\ envFile' = "none" /\ Go("rmRecord")
  /\ UNCHANGED <<goal, releases, spoiled, unitFile, current, record, systemd, proc, faults>>

RemoveRecord ==
  /\ At("rmRecord")
  /\ record' = NoRecord /\ Go("unload")
  /\ UNCHANGED <<goal, releases, spoiled, envFile, unitFile, current, systemd, proc, faults>>

Unload ==
  /\ At("unload")
  /\ loaded' = unitFile /\ Go("report")
  /\ UNCHANGED <<goal, files, enabled, proc, faults>>

-----------------------------------------------------------------------------
\* Another release is unpacked, the configuration is edited.
Declare ==
  /\ faults
  /\ goal' \in Plans \ {goal}
  /\ UNCHANGED <<files, systemd, proc, cmd, faults>>

\* Somebody changes a file of a release.
Spoil ==
  /\ faults
  /\ \E release \in (releases \cap Spoilable) \ spoiled : spoiled' = spoiled \cup {release}
  /\ UNCHANGED <<goal, releases, envFile, unitFile, current, record, systemd, proc, cmd, faults>>

Calm ==
  /\ faults
  /\ faults' = FALSE
  /\ UNCHANGED <<goal, files, systemd, proc, cmd>>

CommandStep ==
  \/ Decide \/ InstallRelease \/ RefuseRelease \/ WriteEnvironment \/ WriteUnit \/ SwitchCurrent \/ WriteRecord
  \/ DaemonReload \/ Enable \/ RestartUnit \/ Verify
  \/ Repositories \/ StartCampaign \/ Status \/ Report
  \/ Disable \/ RemoveUnit \/ RemoveCurrent \/ RemoveEnvironment \/ RemoveRecord \/ Unload

Next ==
  \/ BeginUp \/ BeginOther \/ CommandStep \/ CommandDies
  \/ StartAgain \/ ProcessEnds \/ CampaignEnds \/ Reboot
  \/ Declare \/ Spoil \/ Calm

Spec == Init /\ [][Next]_vars

\* node up is run again and again and goes on, systemd restarts what failed.
FairSpec == Spec /\ WF_vars(BeginUp) /\ WF_vars(CommandStep) /\ WF_vars(StartAgain)

-----------------------------------------------------------------------------
\* What is on disk, loaded and running is one plan.
Installed(plan) ==
  /\ envFile = plan.env /\ unitFile = plan.args /\ current = plan.release
  /\ record.release = plan.release /\ record.args = plan.args
  /\ loaded = plan.args /\ enabled
  /\ proc.at = "running" =>
       proc.release = plan.release /\ proc.args = plan.args /\ proc.env = plan.env

Removed ==
  /\ unitFile = "none" /\ current = "none" /\ envFile = "none" /\ record = NoRecord
  /\ loaded = "none" /\ ~enabled /\ proc = Stopped

\* The health a command verifies tells only a version at an address
\* (service.go:397-426).  Yet after an installation that was verified
\* everything is the plan's, the process too, however often systemd has
\* started it in between; and a reported uninstallation left nothing behind.
ReportedIsSo ==
  /\ cmd.fresh => Installed(cmd.plan)
  /\ cmd.kind = "uninstall" /\ cmd.at = "report" => Removed

\* Whatever node up does not compare agrees with what it does compare.
Revealed == Matches(goal) => Installed(goal)

\* However installations before it were cut, failed or undone, node up run
\* again ends with the node that is declared, its campaign running, and does
\* not restart it any more; except where a cut installation left record and
\* environment file as declared and the rest not, or the release was spoiled.
NodeConverges ==
  ~faults /\ cmd = NoCmd /\ Revealed /\ goal.release \notin spoiled
    ~> [](Installed(goal) /\ Matches(goal) /\ proc.campaign)
=============================================================================
