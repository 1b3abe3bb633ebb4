----------------------------- MODULE NodeProofs -----------------------------
(* Proofs about Node: what an installation that was verified, or an        *)
(* uninstallation that finished, reports is so, whatever systemd starts    *)
(* and the host does in between.                                           *)
(*                                                                         *)
(* ReportedIsSo speaks of the end of a command only.  The invariant says   *)
(* for each file, and for what systemd knows and runs, from which step on  *)
(* the command in progress has made it the plan's, or taken it away.       *)
EXTENDS Node, TLAPS

InstallSteps == {"decide", "release", "env", "unit", "current", "record", "reload", "enable",
                 "restart", "verify", "repositories", "campaign", "status", "report"}
UninstallSteps == {"disable", "rmUnit", "rmCurrent", "rmEnv", "rmRecord", "unload", "report"}

\* A command is at the steps of its kind, and only an installation that was
\* verified is fresh.
KindOfStep ==
  /\ cmd.kind = "none" => cmd.at = "idle"
  /\ cmd.kind \in {"up", "install"} => cmd.at \in InstallSteps
  /\ cmd.kind = "restart" => cmd.at \in {"restart", "verify"}
  /\ cmd.kind = "uninstall" => cmd.at \in UninstallSteps
  /\ cmd.fresh => /\ cmd.kind \in {"up", "install"}
                  /\ cmd.at \in {"repositories", "campaign", "status", "report"}

\* An installation at one of the steps, or verified.
Past(steps) == cmd.kind \in {"up", "install"} /\ (cmd.at \in steps \/ cmd.fresh)

InstalledSoFar ==
  /\ cmd.at \in {"env", "unit", "current"} => cmd.plan.release \in releases
  /\ Past({"unit", "current", "record", "reload", "enable", "restart", "verify"}) =>
       envFile = cmd.plan.env
  /\ Past({"current", "record", "reload", "enable", "restart", "verify"}) =>
       unitFile = cmd.plan.args
  /\ Past({"record", "reload", "enable", "restart", "verify"}) => current = cmd.plan.release
  /\ Past({"reload", "enable", "restart", "verify"}) =>
       record.release = cmd.plan.release /\ record.args = cmd.plan.args
  /\ Past({"enable", "restart", "verify"}) => loaded = cmd.plan.args
  /\ Past({"restart", "verify"}) => enabled

\* Whatever systemd starts from then on is the plan's.
RunsThePlan ==
  Past({"verify"}) /\ proc.at = "running" =>
    proc.release = cmd.plan.release /\ proc.args = cmd.plan.args /\ proc.env = cmd.plan.env

Undoing(steps) == cmd.kind = "uninstall" /\ cmd.at \in steps

RemovedSoFar ==
  /\ Undoing({"rmUnit", "rmCurrent", "rmEnv", "rmRecord", "unload", "report"}) =>
       ~enabled /\ proc = Stopped
  /\ Undoing({"rmCurrent", "rmEnv", "rmRecord", "unload", "report"}) => unitFile = "none"
  /\ Undoing({"rmEnv", "rmRecord", "unload", "report"}) => current = "none"
  /\ Undoing({"rmRecord", "unload", "report"}) => envFile = "none"
  /\ Undoing({"unload", "report"}) => record = NoRecord
  /\ Undoing({"report"}) => loaded = "none"

IInv == TypeOK /\ KindOfStep /\ InstalledSoFar /\ RunsThePlan /\ RemovedSoFar

-----------------------------------------------------------------------------
(* What commands do to the command's record.                               *)

Cmds == [kind : {"up", "install", "restart", "uninstall"}, at : Steps, plan : Plans, fresh : BOOLEAN]

LEMMA GoesOn ==
  ASSUME TypeOK, NEW step \in Steps, cmd.at # "idle", Go(step)
  PROVE  /\ cmd' \in Cmds
         /\ cmd'.at = step /\ cmd'.kind = cmd.kind /\ cmd'.plan = cmd.plan /\ cmd'.fresh = cmd.fresh
<1>1. cmd \in Cmds
  BY DEF TypeOK, Cmds, NoCmd
<1> QED  BY <1>1 DEF Go, Cmds

LEMMA PlanTypes ==
  ASSUME TypeOK, cmd.at # "idle"
  PROVE  /\ cmd \in Cmds /\ cmd.plan.release \in Releases
         /\ cmd.plan.args \in Args /\ cmd.plan.env \in Envs
<1>1. cmd \in Cmds
  BY DEF TypeOK, Cmds, NoCmd
<1> QED  BY <1>1, PlansAssumption DEF Cmds

Procs == [at : {"none", "running", "failed"}, release : Releases \cup {"none"},
          args : Args \cup {"none"}, env : Envs \cup {"none"}, campaign : BOOLEAN]

\* What systemd starts is the selected release with the environment on disk.
LEMMA Starts ==
  ASSUME TypeOK, Startable, Start
  PROVE  /\ proc' \in Procs
         /\ proc'.at = "running" =>
              proc'.release = current /\ proc'.args = loaded /\ proc'.env = envFile
<1>1. CASE proc' = FromFiles(loaded)
  BY <1>1 DEF TypeOK, Procs, FromFiles, Startable
<1>2. CASE proc' = [Stopped EXCEPT !.at = "failed"]
  BY <1>2 DEF Procs, Stopped
<1> QED  BY <1>1, <1>2 DEF Start

-----------------------------------------------------------------------------
(* Types.                                                                  *)

LEMMA InitInv == Init => IInv
<1> SUFFICES ASSUME Init PROVE IInv
  OBVIOUS
<1>1. TypeOK
  BY DEF Init, TypeOK, NoRecord, Stopped
<1>2. cmd.kind = "none" /\ cmd.at = "idle" /\ cmd.fresh = FALSE
  BY DEF Init, NoCmd
<1> QED
  BY <1>1, <1>2 DEF IInv, KindOfStep, InstalledSoFar, RunsThePlan, RemovedSoFar, Past, Undoing

Around == StartAgain \/ ProcessEnds \/ CampaignEnds \/ Reboot \/ Declare \/ Spoil \/ Calm

LEMMA AroundTypes ==
  ASSUME TypeOK, Around
  PROVE  TypeOK'
<1>1. CASE StartAgain
  <2>1. proc' \in Procs
    BY <1>1, Starts DEF StartAgain
  <2> QED  BY <1>1, <2>1 DEF StartAgain, TypeOK, files, systemd, Procs
<1>2. CASE ProcessEnds
  <2>1. proc' \in Procs
    BY <1>2 DEF ProcessEnds, Procs, Stopped
  <2> QED  BY <1>2, <2>1 DEF ProcessEnds, TypeOK, files, systemd, Procs
<1>3. CASE CampaignEnds
  <2>1. proc' \in Procs
    BY <1>3 DEF CampaignEnds, Procs, TypeOK
  <2> QED  BY <1>3, <2>1 DEF CampaignEnds, TypeOK, files, systemd, Procs
<1>4. CASE Reboot
  <2>1. proc' \in Procs
    BY <1>4 DEF Reboot, Procs, FromFiles, Stopped, TypeOK
  <2> QED  BY <1>4, <2>1 DEF Reboot, TypeOK, files, Procs
<1>5. CASE Declare \/ Spoil \/ Calm
  BY <1>5 DEF Declare, Spoil, Calm, TypeOK, files, systemd
<1> QED  BY <1>1, <1>2, <1>3, <1>4, <1>5 DEF Around

LEMMA CommandTypes ==
  ASSUME IInv, CommandStep \/ BeginUp \/ BeginOther \/ CommandDies
  PROVE  TypeOK'
<1> USE DEF At, Ends
<1>0. TypeOK /\ InstalledSoFar
  BY DEF IInv
<1>s. Steps = {"decide", "release", "env", "unit", "current", "record", "reload", "enable",
          "restart", "verify", "repositories", "campaign", "status",
          "disable", "rmUnit", "rmCurrent", "rmEnv", "rmRecord", "unload", "report"}
  BY DEF Steps
<1>c. cmd' \in Cmds \cup {NoCmd}
  <2>1. CASE BeginUp \/ BeginOther
    <3>1. PICK kind \in {"up", "install", "restart", "uninstall"}, step \in Steps, plan \in Plans :
            cmd' = [kind |-> kind, at |-> step, plan |-> plan, fresh |-> FALSE]
      BY <1>0, <1>s, <2>1 DEF BeginUp, BeginOther, Begin, TypeOK
    <3> QED  BY <3>1 DEF Cmds
  <2>2. CASE Verify
    <3>1. cmd \in Cmds
      BY <1>0, <2>2, PlanTypes DEF Verify
    <3>2. [cmd EXCEPT !.at = "repositories", !.fresh = TRUE] \in Cmds
          /\ [cmd EXCEPT !.at = "report", !.fresh = TRUE] \in Cmds
      BY <1>s, <3>1 DEF Cmds
    <3> QED  BY <2>2, <3>2 DEF Verify
  <2>3. CASE CommandDies \/ Report \/ RefuseRelease
    BY <2>3 DEF CommandDies, Report, RefuseRelease
  <2>4. CASE Decide \/ InstallRelease \/ WriteEnvironment \/ WriteUnit \/ SwitchCurrent \/ WriteRecord
    BY <1>0, <1>s, <2>4, GoesOn
       DEF Decide, InstallRelease, WriteEnvironment, WriteUnit, SwitchCurrent, WriteRecord
  <2>5. CASE DaemonReload \/ Enable \/ RestartUnit \/ Repositories \/ StartCampaign \/ Status
    BY <1>0, <1>s, <2>5, GoesOn
       DEF DaemonReload, Enable, RestartUnit, Repositories, StartCampaign, Status
  <2>6. CASE Disable \/ RemoveUnit \/ RemoveCurrent \/ RemoveEnvironment \/ RemoveRecord \/ Unload
    BY <1>0, <1>s, <2>6, GoesOn
       DEF Disable, RemoveUnit, RemoveCurrent, RemoveEnvironment, RemoveRecord, Unload
  <2> QED  BY <2>1, <2>2, <2>3, <2>4, <2>5, <2>6 DEF CommandStep
<1>1. CASE BeginUp \/ BeginOther \/ CommandDies \/ Decide \/ RefuseRelease \/ Verify
           \/ Repositories \/ Status \/ Report
  BY <1>0, <1>1, <1>c DEF BeginUp, BeginOther, CommandDies, Decide, RefuseRelease, Verify, Repositories, Status,
     Report, TypeOK, files, systemd, Cmds
<1>2. CASE InstallRelease \/ WriteEnvironment \/ WriteUnit \/ SwitchCurrent
  BY <1>0, <1>2, <1>c, PlanTypes DEF InstallRelease, WriteEnvironment, WriteUnit, SwitchCurrent,
     TypeOK, systemd, Cmds, InstalledSoFar
<1>3. CASE WriteRecord
  <2>1. record' \in [release : Releases \cup {"none"}, args : Args \cup {"none"}, declared : BOOLEAN]
    BY <1>0, <1>3, PlanTypes DEF WriteRecord
  <2> QED  BY <1>0, <1>3, <1>c, <2>1 DEF WriteRecord, TypeOK, systemd, Cmds
<1>4. CASE DaemonReload \/ Enable \/ Unload
  BY <1>0, <1>4, <1>c DEF DaemonReload, Enable, Unload, TypeOK, files, Cmds
<1>5. CASE RestartUnit \/ StartCampaign \/ Disable
  <2>1. proc' \in Procs
    <3>1. CASE RestartUnit
      <4>1. CASE Startable
        BY <1>0, <3>1, <4>1, Starts DEF RestartUnit, Startable
      <4>2. CASE ~Startable
        <5>1. proc \in Procs /\ [Stopped EXCEPT !.at = "failed"] \in Procs
          BY <1>0 DEF TypeOK, Procs, Stopped
        <5> QED  BY <3>1, <4>2, <5>1 DEF RestartUnit
      <4> QED  BY <4>1, <4>2
    <3>2. CASE StartCampaign
      BY <1>0, <3>2 DEF StartCampaign, TypeOK, Procs
    <3>3. CASE Disable
      <4>1. Stopped \in Procs /\ proc \in Procs
        BY <1>0 DEF TypeOK, Procs, Stopped
      <4> QED  BY <3>3, <4>1 DEF Disable
    <3> QED  BY <1>5, <3>1, <3>2, <3>3
  <2> QED  BY <1>0, <1>5, <1>c, <2>1 DEF RestartUnit, StartCampaign, Disable, TypeOK, files,
              systemd, Cmds, Procs
<1>6. CASE RemoveUnit \/ RemoveCurrent \/ RemoveEnvironment
  BY <1>0, <1>6, <1>c DEF RemoveUnit, RemoveCurrent, RemoveEnvironment, TypeOK, systemd, Cmds
<1>7. CASE RemoveRecord
  <2>1. record' \in [release : Releases \cup {"none"}, args : Args \cup {"none"}, declared : BOOLEAN]
    BY <1>7 DEF RemoveRecord, NoRecord
  <2> QED  BY <1>0, <1>7, <1>c, <2>1 DEF RemoveRecord, TypeOK, systemd, Cmds
<1> QED  BY <1>1, <1>2, <1>3, <1>4, <1>5, <1>6, <1>7 DEF CommandStep

-----------------------------------------------------------------------------
(* What each command has done so far.                                      *)

Promises == KindOfStep /\ InstalledSoFar /\ RunsThePlan /\ RemovedSoFar

\* A command that begins or ends promises nothing.
LEMMA Fresh ==
  ASSUME cmd'.fresh = FALSE,
         \/ cmd'.kind = "none" /\ cmd'.at = "idle"
         \/ cmd'.kind \in {"up", "install"} /\ cmd'.at \in {"decide", "release"}
         \/ cmd'.kind = "restart" /\ cmd'.at = "restart"
         \/ cmd'.kind = "uninstall" /\ cmd'.at = "disable"
  PROVE  Promises'
BY DEF Promises, KindOfStep, InstalledSoFar, RunsThePlan, RemovedSoFar, Past, Undoing,
   InstallSteps, UninstallSteps

LEMMA Ending ==
  ASSUME Ends
  PROVE  Promises'
<1>1. cmd'.kind = "none" /\ cmd'.at = "idle" /\ cmd'.fresh = FALSE
  BY DEF Ends, NoCmd
<1> QED  BY <1>1, Fresh

LEMMA Beginning ==
  ASSUME BeginUp \/ BeginOther
  PROVE  Promises'
<1>1. CASE BeginUp
  BY <1>1, Fresh DEF BeginUp, Begin
<1>2. CASE BeginOther
  <2>1. CASE \E plan \in Plans : Begin("install", "release", plan)
    BY <2>1, Fresh DEF Begin
  <2>2. CASE Begin("restart", "restart", goal)
    BY <2>2, Fresh DEF Begin
  <2>3. CASE Begin("uninstall", "disable", goal)
    BY <2>3, Fresh DEF Begin
  <2> QED  BY <1>2, <2>1, <2>2, <2>3 DEF BeginOther
<1> QED  BY <1>1, <1>2

LEMMA InstallPromises ==
  ASSUME IInv,
         Decide \/ InstallRelease \/ WriteEnvironment \/ WriteUnit \/ SwitchCurrent
         \/ WriteRecord \/ DaemonReload \/ Enable
  PROVE  Promises'
<1> USE DEF At, Promises, KindOfStep, InstalledSoFar, RunsThePlan, RemovedSoFar, Past, Undoing,
            InstallSteps, UninstallSteps
<1>0. TypeOK /\ KindOfStep /\ InstalledSoFar /\ RunsThePlan /\ RemovedSoFar
  BY DEF IInv
<1>1. CASE Decide
  <2>1. cmd'.at \in {"repositories", "release"} /\ cmd'.kind = cmd.kind /\ cmd'.fresh = FALSE
    BY <1>0, <1>1, GoesOn DEF Decide, Steps, TypeOK, NoCmd
  <2> QED  BY <1>0, <1>1, <2>1 DEF Decide
<1>2. CASE InstallRelease
  <2>1. /\ cmd'.at = "env" /\ cmd'.kind = cmd.kind /\ cmd'.plan = cmd.plan
        /\ cmd'.fresh = cmd.fresh /\ cmd.fresh \in BOOLEAN
    BY <1>0, <1>2, GoesOn, PlanTypes DEF InstallRelease, Steps, Cmds
  <2> QED  BY <1>0, <1>2, <2>1 DEF InstallRelease
<1>3. CASE WriteEnvironment
  <2>1. /\ cmd'.at = "unit" /\ cmd'.kind = cmd.kind /\ cmd'.plan = cmd.plan
        /\ cmd'.fresh = cmd.fresh /\ cmd.fresh \in BOOLEAN
    BY <1>0, <1>3, GoesOn, PlanTypes DEF WriteEnvironment, Steps, Cmds
  <2> QED  BY <1>0, <1>3, <2>1 DEF WriteEnvironment
<1>4. CASE WriteUnit
  <2>1. /\ cmd'.at = "current" /\ cmd'.kind = cmd.kind /\ cmd'.plan = cmd.plan
        /\ cmd'.fresh = cmd.fresh /\ cmd.fresh \in BOOLEAN
    BY <1>0, <1>4, GoesOn, PlanTypes DEF WriteUnit, Steps, Cmds
  <2> QED  BY <1>0, <1>4, <2>1 DEF WriteUnit
<1>5. CASE SwitchCurrent
  <2>1. /\ cmd'.at = "record" /\ cmd'.kind = cmd.kind /\ cmd'.plan = cmd.plan
        /\ cmd'.fresh = cmd.fresh /\ cmd.fresh \in BOOLEAN
    BY <1>0, <1>5, GoesOn, PlanTypes DEF SwitchCurrent, Steps, Cmds
  <2> QED  BY <1>0, <1>5, <2>1 DEF SwitchCurrent
<1>6. CASE WriteRecord
  <2>1. /\ cmd'.at = "reload" /\ cmd'.kind = cmd.kind /\ cmd'.plan = cmd.plan
        /\ cmd'.fresh = cmd.fresh /\ cmd.fresh \in BOOLEAN
    BY <1>0, <1>6, GoesOn, PlanTypes DEF WriteRecord, Steps, Cmds
  <2>2. record'.release = cmd.plan.release /\ record'.args = cmd.plan.args
    BY <1>6 DEF WriteRecord
  <2> QED  BY <1>0, <1>6, <2>1, <2>2 DEF WriteRecord
<1>7. CASE DaemonReload
  <2>1. /\ cmd'.at = "enable" /\ cmd'.kind = cmd.kind /\ cmd'.plan = cmd.plan
        /\ cmd'.fresh = cmd.fresh /\ cmd.fresh \in BOOLEAN
    BY <1>0, <1>7, GoesOn, PlanTypes DEF DaemonReload, Steps, Cmds
  <2> QED  BY <1>0, <1>7, <2>1 DEF DaemonReload, files
<1>8. CASE Enable
  <2>1. /\ cmd'.at = "restart" /\ cmd'.kind = cmd.kind /\ cmd'.plan = cmd.plan
        /\ cmd'.fresh = cmd.fresh /\ cmd.fresh \in BOOLEAN
    BY <1>0, <1>8, GoesOn, PlanTypes DEF Enable, Steps, Cmds
  <2> QED  BY <1>0, <1>8, <2>1 DEF Enable, files
<1> QED  BY <1>1, <1>2, <1>3, <1>4, <1>5, <1>6, <1>7, <1>8

LEMMA RunPromises ==
  ASSUME IInv, RestartUnit \/ Verify \/ Repositories \/ StartCampaign \/ Status
  PROVE  Promises'
<1> USE DEF At, Promises, KindOfStep, InstalledSoFar, RunsThePlan, RemovedSoFar, Past, Undoing,
            InstallSteps, UninstallSteps
<1>0. TypeOK /\ KindOfStep /\ InstalledSoFar /\ RunsThePlan /\ RemovedSoFar
  BY DEF IInv
<1>1. CASE RestartUnit
  <2>1. CASE Startable
    <3>1. /\ cmd'.at = "verify" /\ cmd'.kind = cmd.kind /\ cmd'.plan = cmd.plan
          /\ cmd'.fresh = cmd.fresh /\ cmd.fresh \in BOOLEAN
      BY <1>0, <1>1, <2>1, GoesOn, PlanTypes DEF RestartUnit, Startable, Steps, Cmds
    <3>2. proc'.at = "running" =>
            proc'.release = current /\ proc'.args = loaded /\ proc'.env = envFile
      BY <1>0, <1>1, <2>1, Starts DEF RestartUnit, Startable
    <3> QED  BY <1>0, <1>1, <3>1, <3>2 DEF RestartUnit, files, systemd
  <2>2. CASE ~Startable
    BY <1>1, <2>2, Ending DEF RestartUnit
  <2> QED  BY <2>1, <2>2
<1>2. CASE Verify
  <2>1. CASE Ends
    BY <2>1, Ending
  <2>2. CASE ~Ends
    <3>1. /\ cmd.kind \in {"up", "install"} /\ cmd.at = "verify"
          /\ \/ cmd' = [cmd EXCEPT !.at = "repositories", !.fresh = TRUE]
             \/ cmd' = [cmd EXCEPT !.at = "report", !.fresh = TRUE]
      BY <1>2, <2>2 DEF Verify
    <3>2. cmd \in Cmds
      BY <1>0, <3>1, PlanTypes
    <3>3. /\ cmd'.at \in {"repositories", "report"} /\ cmd'.kind = cmd.kind
          /\ cmd'.plan = cmd.plan /\ cmd'.fresh = TRUE
      <4>1. CASE cmd' = [cmd EXCEPT !.at = "repositories", !.fresh = TRUE]
        BY <3>2, <4>1 DEF Cmds
      <4>2. CASE cmd' = [cmd EXCEPT !.at = "report", !.fresh = TRUE]
        BY <3>2, <4>2 DEF Cmds
      <4> QED  BY <3>1, <4>1, <4>2
    <3> QED  BY <1>0, <1>2, <3>1, <3>3 DEF Verify, files, systemd
  <2> QED  BY <2>1, <2>2
<1>3. CASE Ends
  BY <1>3, Ending
<1>4. CASE ~Ends /\ (Repositories \/ StartCampaign \/ Status)
  <2>1. /\ cmd.at \in {"repositories", "campaign", "status"}
        /\ cmd'.at \in {"campaign", "status", "report"} /\ cmd'.kind = cmd.kind
        /\ cmd'.plan = cmd.plan /\ cmd'.fresh = cmd.fresh /\ cmd.fresh \in BOOLEAN
    BY <1>0, <1>4, GoesOn, PlanTypes DEF Repositories, StartCampaign, Status, Steps, Cmds
  <2>2. /\ proc'.at = proc.at /\ proc'.release = proc.release
        /\ proc'.args = proc.args /\ proc'.env = proc.env
    BY <1>0, <1>4 DEF Repositories, StartCampaign, Status, TypeOK
  <2>3. UNCHANGED <<releases, envFile, unitFile, current, record, loaded, enabled>>
    BY <1>4 DEF Repositories, StartCampaign, Status, files, systemd
  <2> QED  BY <1>0, <2>1, <2>2, <2>3
<1> QED  BY <1>1, <1>2, <1>3, <1>4

LEMMA RemovePromises ==
  ASSUME IInv,
         Disable \/ RemoveUnit \/ RemoveCurrent \/ RemoveEnvironment \/ RemoveRecord \/ Unload
  PROVE  Promises'
<1> USE DEF At, Promises, KindOfStep, InstalledSoFar, RunsThePlan, RemovedSoFar, Past, Undoing,
            InstallSteps, UninstallSteps
<1>0. TypeOK /\ KindOfStep /\ InstalledSoFar /\ RunsThePlan /\ RemovedSoFar
  BY DEF IInv
<1>1. CASE Disable
  <2>1. CASE unitFile # "none"
    <3>1. /\ cmd'.at = "rmUnit" /\ cmd'.kind = cmd.kind /\ cmd'.plan = cmd.plan
          /\ cmd'.fresh = cmd.fresh /\ cmd.fresh \in BOOLEAN
      BY <1>0, <1>1, <2>1, GoesOn, PlanTypes DEF Disable, Steps, Cmds
    <3> QED  BY <1>0, <1>1, <2>1, <3>1 DEF Disable, files
  <2>2. CASE unitFile = "none"
    BY <1>1, <2>2, Ending DEF Disable
  <2> QED  BY <2>1, <2>2
<1>2. CASE RemoveUnit
  <2>1. /\ cmd'.at = "rmCurrent" /\ cmd'.kind = cmd.kind /\ cmd'.plan = cmd.plan
        /\ cmd'.fresh = cmd.fresh /\ cmd.fresh \in BOOLEAN
    BY <1>0, <1>2, GoesOn, PlanTypes DEF RemoveUnit, Steps, Cmds
  <2> QED  BY <1>0, <1>2, <2>1 DEF RemoveUnit, systemd
<1>3. CASE RemoveCurrent
  <2>1. /\ cmd'.at = "rmEnv" /\ cmd'.kind = cmd.kind /\ cmd'.plan = cmd.plan
        /\ cmd'.fresh = cmd.fresh /\ cmd.fresh \in BOOLEAN
    BY <1>0, <1>3, GoesOn, PlanTypes DEF RemoveCurrent, Steps, Cmds
  <2> QED  BY <1>0, <1>3, <2>1 DEF RemoveCurrent, systemd
<1>4. CASE RemoveEnvironment
  <2>1. /\ cmd'.at = "rmRecord" /\ cmd'.kind = cmd.kind /\ cmd'.plan = cmd.plan
        /\ cmd'.fresh = cmd.fresh /\ cmd.fresh \in BOOLEAN
    BY <1>0, <1>4, GoesOn, PlanTypes DEF RemoveEnvironment, Steps, Cmds
  <2> QED  BY <1>0, <1>4, <2>1 DEF RemoveEnvironment, systemd
<1>5. CASE RemoveRecord
  <2>1. /\ cmd'.at = "unload" /\ cmd'.kind = cmd.kind /\ cmd'.plan = cmd.plan
        /\ cmd'.fresh = cmd.fresh /\ cmd.fresh \in BOOLEAN
    BY <1>0, <1>5, GoesOn, PlanTypes DEF RemoveRecord, Steps, Cmds
  <2> QED  BY <1>0, <1>5, <2>1 DEF RemoveRecord, systemd
<1>6. CASE Unload
  <2>1. /\ cmd'.at = "report" /\ cmd'.kind = cmd.kind /\ cmd'.plan = cmd.plan
        /\ cmd'.fresh = cmd.fresh /\ cmd.fresh \in BOOLEAN
    BY <1>0, <1>6, GoesOn, PlanTypes DEF Unload, Steps, Cmds
  <2> QED  BY <1>0, <1>6, <2>1 DEF Unload, files
<1> QED  BY <1>1, <1>2, <1>3, <1>4, <1>5, <1>6

\* systemd, the host and the operator change nothing a command relies on.
LEMMA AroundPromises ==
  ASSUME IInv, Around
  PROVE  Promises'
<1> USE DEF Promises, KindOfStep, InstalledSoFar, RunsThePlan, RemovedSoFar, Past, Undoing,
            InstallSteps, UninstallSteps
<1>0. TypeOK /\ KindOfStep /\ InstalledSoFar /\ RunsThePlan /\ RemovedSoFar
  BY DEF IInv
<1>1. CASE StartAgain
  <2>1. proc'.at = "running" =>
          proc'.release = current /\ proc'.args = loaded /\ proc'.env = envFile
    BY <1>0, <1>1, Starts DEF StartAgain
  <2>2. proc # Stopped
    BY <1>1 DEF StartAgain, Stopped
  <2> QED  BY <1>0, <1>1, <2>1, <2>2 DEF StartAgain, files, systemd
<1>2. CASE ProcessEnds
  <2>1. proc'.at # "running"
    BY <1>2 DEF ProcessEnds, Stopped
  <2>2. proc # Stopped
    BY <1>2 DEF ProcessEnds, Stopped
  <2> QED  BY <1>0, <1>2, <2>1, <2>2 DEF ProcessEnds, files, systemd
<1>3. CASE CampaignEnds
  <2>1. /\ proc'.at = proc.at /\ proc'.release = proc.release
        /\ proc'.args = proc.args /\ proc'.env = proc.env
    BY <1>0, <1>3 DEF CampaignEnds, TypeOK
  <2>2. proc # Stopped
    BY <1>3 DEF CampaignEnds, Stopped
  <2> QED  BY <1>0, <1>3, <2>1, <2>2 DEF CampaignEnds, files, systemd
<1>4. CASE Reboot
  BY <1>4, Ending DEF Reboot, Ends
<1>5. CASE Declare \/ Spoil \/ Calm
  BY <1>0, <1>5 DEF Declare, Spoil, Calm, files, systemd
<1> QED  BY <1>1, <1>2, <1>3, <1>4, <1>5 DEF Around

-----------------------------------------------------------------------------

LEMMA StepInv == IInv /\ [Next]_vars => IInv'
<1> SUFFICES ASSUME IInv, [Next]_vars PROVE IInv'
  OBVIOUS
<1>0. TypeOK' /\ Promises' => IInv'
  BY DEF IInv, Promises
<1>1. CASE UNCHANGED vars
  BY <1>1 DEF vars, files, systemd, IInv, TypeOK, KindOfStep, InstalledSoFar, RunsThePlan,
     RemovedSoFar, Past, Undoing
<1>2. CASE BeginUp \/ BeginOther
  BY <1>0, <1>2, CommandTypes, Beginning
<1>3. CASE CommandDies
  BY <1>0, <1>3, CommandTypes, Ending DEF CommandDies
<1>4. CASE CommandStep
  <2>1. Promises'
    BY <1>4, InstallPromises, RunPromises, RemovePromises, Ending DEF CommandStep, Report, RefuseRelease
  <2> QED  BY <1>0, <1>4, <2>1, CommandTypes
<1>5. CASE Around
  BY <1>0, <1>5, AroundTypes, AroundPromises DEF IInv
<1> QED  BY <1>1, <1>2, <1>3, <1>4, <1>5 DEF Next, Around

\* The invariant holds of every run of the commands, of systemd and of the
\* host, whatever fails and is killed (service.go:228-395).
THEOREM InvariantHolds == Spec => []IInv
<1>1. Init => IInv
  BY InitInv
<1>2. IInv /\ [Next]_vars => IInv'
  BY StepInv
<1> QED  BY <1>1, <1>2, PTL DEF Spec

\* The release that is selected is one that is there completely, whatever
\* installation was cut (service.go:248-268, 629-687).
THEOREM TypeCorrect == Spec => []TypeOK
<1>1. IInv => TypeOK
  BY DEF IInv
<1> QED  BY <1>1, InvariantHolds, PTL

\* For any releases, configurations and plans: what a verified installation
\* reports is on disk, loaded and running, and what a finished uninstallation
\* reports is gone (service.go:282-292, 375-395).
THEOREM ReportsAreSo == Spec => []ReportedIsSo
<1>1. IInv => ReportedIsSo
  <2> SUFFICES ASSUME IInv PROVE ReportedIsSo
    OBVIOUS
  <2>0. KindOfStep /\ InstalledSoFar /\ RunsThePlan /\ RemovedSoFar
    BY DEF IInv
  <2>1. cmd.fresh => Installed(cmd.plan)
    BY <2>0 DEF KindOfStep, InstalledSoFar, RunsThePlan, Past, Installed
  <2>2. cmd.kind = "uninstall" /\ cmd.at = "report" => Removed
    BY <2>0 DEF RemovedSoFar, Undoing, Removed
  <2> QED  BY <2>1, <2>2 DEF ReportedIsSo
<1> QED  BY <1>1, InvariantHolds, PTL
=============================================================================
