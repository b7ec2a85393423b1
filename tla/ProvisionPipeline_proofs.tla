----------------------- MODULE ProvisionPipeline_proofs -----------------------
(***************************************************************************)
(* Proofs about the provisioning pipeline, for every catalog whose lists   *)
(* name a script once and in the order CatalogAssumption asks for, every   *)
(* choice of follow-up flavors and missing scripts and any number of runs. *)
(***************************************************************************)
EXTENDS ProvisionPipeline, TLAPS, SequenceTheorems

Generations == {"generic", "intel", "amd"}
SshLines == {"hardened", "PasswordAuthentication no"}
-----------------------------------------------------------------------------
(* Shape of the steps.                                                     *)

\* The runtime of a GPU is installed and its device described within the
\* scripts the catalog puts before the inference profile.
LEMMA DeviceSteps ==
  ASSUME GpuIntel \/ GpuMesa \/ GpuRocm
  PROVE  /\ Walking /\ Rights
         /\ Current \in DeviceScripts \ run.absent
         /\ (GoOn /\ run.step = 1) \/ EndScript
<1>1. ASSUME NEW script, NEW runtime, InstallRuntime(script, runtime)
      PROVE  At({script}, 1) /\ GoOn
  BY <1>1 DEF InstallRuntime
<1>2. ASSUME NEW script, NEW k, NEW vendor, DescribeDevice(script, k, vendor)
      PROVE  At({script}, k) /\ EndScript
  BY <1>2 DEF DescribeDevice
<1>3. PICK script \in DeviceScripts, k \in {1, 2} :
        At({script}, k) /\ ((GoOn /\ k = 1) \/ EndScript)
  BY <1>1, <1>2 DEF GpuIntel, GpuMesa, GpuRocm, DeviceScripts
<1>4. QED  BY <1>3 DEF At

\* A step is taken at a script that is there, with rights; it ends the script
\* or goes on within it, and the two scripts the invariants speak of end with
\* their last step.
LEMMA StepWalks ==
  ASSUME Step
  PROVE  /\ Walking /\ Rights
         /\ Current \notin run.absent
         /\ ~(run.skip /\ Current = "99-cleanup.sh")
         /\ \/ GoOn /\ run.step \in 1..2
            \/ /\ EndScript
               /\ Current = "20-kernel-sysctl.sh" => run.step = 3
               /\ Current = "99-cleanup.sh" => run.step = 3
<1>1. CASE FastBoot \/ Essentials \/ Sysctl \/ KernelCmdline
  <2>1. CASE FastBoot  BY <2>1 DEF FastBoot, At
  <2>2. CASE Essentials  BY <2>2 DEF Essentials, At
  <2>3. CASE Sysctl  BY <2>3 DEF Sysctl, At
  <2>4. CASE KernelCmdline  BY <2>4 DEF KernelCmdline, At
  <2>5. QED  BY <1>1, <2>1, <2>2, <2>3, <2>4
<1>2. CASE InstallMicrocode \/ InferenceMemory \/ ImmutableTmp \/ VisionMedia
  BY <1>2 DEF InstallMicrocode, InferenceMemory, ImmutableTmp, VisionMedia, At
<1>3. CASE LockBuildUser \/ RefusePasswords \/ ForgetIdentity
  <2>1. CASE LockBuildUser
    <3>1. At({"99-cleanup.sh"}, 1) /\ GoOn  BY <2>1 DEF LockBuildUser
    <3>2. QED  BY <3>1 DEF At
  <2>2. CASE RefusePasswords
    <3>1. At({"99-cleanup.sh"}, 2) /\ GoOn  BY <2>2 DEF RefusePasswords
    <3>2. QED  BY <3>1 DEF At
  <2>3. CASE ForgetIdentity  BY <2>3 DEF ForgetIdentity, At
  <2>4. QED  BY <1>3, <2>1, <2>2, <2>3
<1>4. CASE HardenSsh \/ NetworkTime \/ UnattendedUpgrades \/ AddIommu
  BY <1>4 DEF HardenSsh, NetworkTime, InstallUnits, UnattendedUpgrades, AddIommu, At
<1>5. CASE GpuIntel \/ GpuMesa \/ GpuRocm
  BY <1>5, DeviceSteps DEF DeviceScripts
<1>8. CASE GpuNvidia \/ K8sRuntime \/ K3sRuntime \/ Precache
  BY <1>8 DEF GpuNvidia, K8sRuntime, K3sRuntime, InstallUnits, Precache, At
<1>6. CASE InferenceProfile \/ PreventDrift \/ RunnerTmp \/ VisionCoral \/ OtherScript
  BY <1>6 DEF InferenceProfile, PreventDrift, RunnerTmp, VisionCoral, OtherScript, At
<1>7. CASE PostgresSysctl \/ GatewaySysctl \/ MediaSysctl \/ GameSysctl
  BY <1>7 DEF PostgresSysctl, GatewaySysctl, MediaSysctl, GameSysctl, WriteDropin, At
<1>9. QED  BY <1>1, <1>2, <1>3, <1>4, <1>5, <1>6, <1>7, <1>8 DEF Step

\* Three steps write the boot configuration.
LEMMA StepBoot ==
  ASSUME Step, ~FastBoot, ~KernelCmdline, ~AddIommu
  PROVE  boot' = boot
  BY DEF Step, Essentials, HardenSsh, InstallUnits, NetworkTime,
     Sysctl, UnattendedUpgrades, InstallMicrocode,
     InstallRuntime, DescribeDevice, GpuIntel, GpuMesa, GpuRocm,
     GpuNvidia, K8sRuntime,
     K3sRuntime, Precache, InferenceMemory, InferenceProfile, ImmutableTmp,
     PreventDrift, RunnerTmp, WriteDropin, PostgresSysctl, GatewaySysctl,
     MediaSysctl, GameSysctl, VisionMedia, VisionCoral, OtherScript,
     LockBuildUser, RefusePasswords, ForgetIdentity, host

\* The drop-ins are written one file at a time.
DropinSteps == PostgresSysctl \/ GatewaySysctl \/ MediaSysctl \/ GameSysctl

\* The steps that write the configuration.
LEMMA StepConf ==
  ASSUME Step, ~HardenSsh, ~Sysctl, ~UnattendedUpgrades,
         ~InstallMicrocode, ~InferenceMemory, ~ImmutableTmp, ~PreventDrift,
         ~RunnerTmp, ~DropinSteps, ~RefusePasswords
  PROVE  conf' = conf
  BY DEF Step, DropinSteps, FastBoot, Essentials, InstallUnits, NetworkTime,
     KernelCmdline, AddIommu, InstallRuntime, DescribeDevice, GpuIntel, GpuMesa, GpuRocm,
     GpuNvidia,
     K8sRuntime, K3sRuntime, Precache, InferenceProfile, VisionMedia,
     VisionCoral, OtherScript, LockBuildUser, ForgetIdentity, host

\* The steps that write what the workload leaves.
LEMMA StepLoad ==
  ASSUME Step, ~Essentials, ~NetworkTime, ~GpuIntel, ~GpuMesa, ~GpuRocm, ~GpuNvidia,
         ~K8sRuntime, ~K3sRuntime, ~Precache, ~InferenceProfile,
         ~VisionMedia, ~VisionCoral
  PROVE  load' = load
  BY DEF Step, FastBoot, HardenSsh, Sysctl, KernelCmdline,
     UnattendedUpgrades, InstallMicrocode, AddIommu, InferenceMemory,
     ImmutableTmp, PreventDrift, RunnerTmp, WriteDropin, PostgresSysctl,
     GatewaySysctl, MediaSysctl, GameSysctl, OtherScript, LockBuildUser,
     RefusePasswords, ForgetIdentity, host

\* The cleanup alone takes rights and identity away.
LEMMA StepSeal ==
  ASSUME Step, ~LockBuildUser, ~ForgetIdentity
  PROVE  seal' = seal
  BY DEF Step, FastBoot, Essentials, HardenSsh, InstallUnits, NetworkTime,
     Sysctl, KernelCmdline, UnattendedUpgrades, InstallMicrocode,
     AddIommu, InstallRuntime, DescribeDevice, GpuIntel, GpuMesa, GpuRocm,
     GpuNvidia, K8sRuntime,
     K3sRuntime, Precache, InferenceMemory, InferenceProfile, ImmutableTmp,
     PreventDrift, RunnerTmp, WriteDropin, PostgresSysctl, GatewaySysctl,
     MediaSysctl, GameSysctl, VisionMedia, VisionCoral, OtherScript,
     RefusePasswords, host
-----------------------------------------------------------------------------
(* Type correctness.                                                       *)

\* The environment a run begins with is well formed either way.
LEMMA EnvsTyped ==
  ASSUME NEW f \in Flavors, NEW role \in {"agent", "server"}
  PROVE  /\ ApplyEnv(Catalog[f], role) \in Envs
         /\ BuildEnv(Catalog[f]) \in Envs
<1>1. /\ Catalog[f].KernelProfile \in Profiles
      /\ Catalog[f].PreheatProfile \in Preheats \cup {""}
  BY CatalogAssumption
<1>2. ApplyEnv(Catalog[f], role) \in Envs
  BY <1>1 DEF ApplyEnv, Envs, Preheats
<1>3. BuildEnv(Catalog[f]) \in Envs
  BY DEF BuildEnv, Envs, Profiles, Preheats
<1>4. QED  BY <1>2, <1>3

\* The list of a flavor is a sequence of scripts.
LEMMA ListTyped ==
  ASSUME PipelineTypeOK, run.phase # "idle"
  PROVE  /\ run.flavor \in Flavors
         /\ Provisioners \in Seq(Scripts)
         /\ Len(Provisioners) \in Nat
<1>1. run.flavor \in Flavors  BY DEF PipelineTypeOK
<1>2. Provisioners \in Seq(Scripts)  BY <1>1, CatalogAssumption DEF Provisioners
<1>3. QED  BY <1>1, <1>2, LenProperties

LEMMA BootTyped ==
  ASSUME boot \in BootType, run \in RunType, Step
  PROVE  boot' \in BootType
<1>1. CASE FastBoot
  BY <1>1 DEF FastBoot, BootType
<1>2. CASE KernelCmdline
  <2>1. CmdlineProfile(run.env.kernel) \in Profiles
    BY DEF CmdlineProfile, Profiles
  <2>2. <<>> \in Seq(Generations)  BY EmptySeq
  <2>3. QED  BY <1>2, <2>1, <2>2 DEF KernelCmdline, BootType, Generations
<1>3. CASE AddIommu
  <2>1. run.env.gen \in Generations  BY DEF RunType, Envs, Generations
  <2>2. boot.iommu \in Seq(Generations)  BY DEF BootType, Generations
  <2>3. Append(boot.iommu, run.env.gen) \in Seq(Generations)
    BY <2>1, <2>2, AppendProperties
  <2>4. QED  BY <1>3, <2>3 DEF AddIommu, BootType, Generations
<1>4. CASE ~FastBoot /\ ~KernelCmdline /\ ~AddIommu
  BY <1>4, StepBoot
<1>5. QED  BY <1>1, <1>2, <1>3, <1>4

LEMMA ConfTyped ==
  ASSUME conf \in ConfType, run \in RunType, Step
  PROVE  conf' \in ConfType
<1>1. CASE HardenSsh
  <2>1. <<"hardened">> \in Seq(SshLines)  BY DEF SshLines
  <2>2. QED  BY <1>1, <2>1 DEF HardenSsh, ConfType, SshLines
<1>2. CASE Sysctl  BY <1>2 DEF Sysctl, ConfType, Dropins
<1>3. CASE UnattendedUpgrades  BY <1>3 DEF UnattendedUpgrades, ConfType
<1>4. CASE InstallMicrocode
  <2>1. Microcode(run.env.gen) \subseteq {"intel", "amd"}  BY DEF Microcode
  <2>2. QED  BY <1>4, <2>1 DEF InstallMicrocode, ConfType
<1>5. CASE InferenceMemory  BY <1>5 DEF InferenceMemory, ConfType, Dropins
<1>6. CASE ImmutableTmp  BY <1>6 DEF ImmutableTmp, MountTmp, ConfType
<1>7. CASE PreventDrift  BY <1>7 DEF PreventDrift, ConfType
<1>8. CASE RunnerTmp  BY <1>8 DEF RunnerTmp, MountTmp, ConfType
<1>9. CASE DropinSteps
  <2>1. ASSUME NEW script, NEW file \in Dropins, WriteDropin(script, file)
        PROVE  conf' \in ConfType
    BY <2>1 DEF WriteDropin, ConfType
  <2>2. CASE PostgresSysctl  BY <2>1, <2>2 DEF PostgresSysctl, Dropins
  <2>3. CASE GatewaySysctl  BY <2>1, <2>3 DEF GatewaySysctl, Dropins
  <2>4. CASE MediaSysctl  BY <2>1, <2>4 DEF MediaSysctl, Dropins
  <2>5. CASE GameSysctl  BY <2>1, <2>5 DEF GameSysctl, Dropins
  <2>6. QED  BY <1>9, <2>2, <2>3, <2>4, <2>5 DEF DropinSteps
<1>10. CASE RefusePasswords
  <2>1. conf.sshd \in Seq(SshLines)  BY DEF ConfType, SshLines
  <2>2. Append(conf.sshd, "PasswordAuthentication no") \in Seq(SshLines)
    BY <2>1, AppendProperties DEF SshLines
  <2>3. QED  BY <1>10, <2>2 DEF RefusePasswords, ConfType, SshLines
<1>11. CASE /\ ~HardenSsh /\ ~Sysctl /\ ~UnattendedUpgrades
            /\ ~InstallMicrocode /\ ~InferenceMemory /\ ~ImmutableTmp
            /\ ~PreventDrift /\ ~RunnerTmp /\ ~DropinSteps /\ ~RefusePasswords
  BY <1>11, StepConf
<1>12. QED
  BY <1>1, <1>2, <1>3, <1>4, <1>5, <1>6, <1>7, <1>8, <1>9, <1>10, <1>11

LEMMA LoadTyped ==
  ASSUME load \in LoadType, run \in RunType, run.flavor \in Flavors, Step
  PROVE  load' \in LoadType
<1>1. ASSUME NEW script, NEW units \in SUBSET Units, InstallUnits(script, units)
      PROVE  load' \in LoadType
  BY <1>1 DEF InstallUnits, LoadType
<1>2. ASSUME NEW script, NEW k, NEW vendor \in {"intel", "amd"},
             DescribeDevice(script, k, vendor)
      PROVE  load' \in LoadType
  BY <1>2 DEF DescribeDevice, LoadType
<1>6. ASSUME NEW script, NEW runtime \in {"levelzero", "rocm"},
             InstallRuntime(script, runtime)
      PROVE  load' \in LoadType
  BY <1>6 DEF InstallRuntime, LoadType
<1>3. CASE Essentials  BY <1>3 DEF Essentials, LoadType, Units
<1>4. CASE NetworkTime  BY <1>1, <1>4 DEF NetworkTime, Units
<1>5. CASE GpuIntel \/ GpuMesa \/ GpuRocm
  BY <1>2, <1>5, <1>6 DEF GpuIntel, GpuMesa, GpuRocm
<1>7. CASE GpuNvidia  BY <1>7 DEF GpuNvidia, LoadType
<1>8. CASE K8sRuntime  BY <1>1, <1>8 DEF K8sRuntime, Units
<1>9. CASE K3sRuntime
  <2>1. K3sUnit(run.env.role) \in Units  BY DEF K3sUnit, Units
  <2>2. QED  BY <1>1, <1>9, <2>1 DEF K3sRuntime
<1>10. CASE Precache
  <2>1. Catalog[run.flavor].Vendor \in Vendors  BY CatalogAssumption
  <2>2. run.env.preheat \in Preheats  BY DEF RunType, Envs
  <2>3. Images(run.env, Catalog[run.flavor].Vendor) \subseteq Preheats \cup Vendors
    BY <2>1, <2>2 DEF Images
  <2>4. QED  BY <1>10, <2>3 DEF Precache, LoadType
<1>11. CASE InferenceProfile
  <2>1. Selectors(load.cdi \cup load.runtimes) \subseteq {"intel", "amd"}
    BY DEF Selectors, Signs
  <2>2. QED  BY <1>11, <2>1 DEF InferenceProfile, LoadType
<1>12. CASE VisionMedia  BY <1>12 DEF VisionMedia, LoadType
<1>13. CASE VisionCoral  BY <1>13 DEF VisionCoral, LoadType
<1>14. CASE /\ ~Essentials /\ ~NetworkTime /\ ~GpuIntel /\ ~GpuMesa /\ ~GpuRocm /\ ~GpuNvidia
            /\ ~K8sRuntime /\ ~K3sRuntime /\ ~Precache /\ ~InferenceProfile
            /\ ~VisionMedia /\ ~VisionCoral
  BY <1>14, StepLoad
<1>15. QED
  BY <1>3, <1>4, <1>5, <1>7, <1>8, <1>9, <1>10, <1>11, <1>12, <1>13, <1>14

LEMMA SealTyped ==
  ASSUME seal \in SealType, Step
  PROVE  seal' \in SealType
<1>1. CASE LockBuildUser
  <2>1. PICK cleaned \in BOOLEAN :
          seal' = [seal EXCEPT !.sudo = FALSE, !.cleaned = @ \/ cleaned]
    BY <1>1 DEF LockBuildUser
  <2>2. (seal.cleaned \/ cleaned) \in BOOLEAN  BY Zenon
  <2>3. QED  BY <2>1, <2>2 DEF SealType
<1>2. CASE ForgetIdentity  BY <1>2 DEF ForgetIdentity, SealType
<1>3. CASE ~LockBuildUser /\ ~ForgetIdentity  BY <1>3, StepSeal
<1>4. QED  BY <1>1, <1>2, <1>3

\* The walk stays within the list, and a script has at most three steps.
LEMMA RunTyped ==
  ASSUME PipelineTypeOK, Step
  PROVE  /\ run' \in RunType
         /\ past' = past
         /\ run'.flavor = run.flavor /\ run'.phase = run.phase
         /\ run.phase = "running" /\ run.flavor \in Flavors
         /\ run'.at <= Len(Provisioners) + 1
<1>1. run.phase = "running" /\ run.at <= Len(Provisioners)
  BY StepWalks DEF Walking
<1>2. run.flavor \in Flavors /\ Len(Provisioners) \in Nat
  BY <1>1, ListTyped
<1>3. run \in RunType  BY DEF PipelineTypeOK
<1>4. run.at \in Nat /\ run.at \in Positions /\ run.at + 1 \in Positions
  BY <1>3 DEF RunType, Positions
<1>5. CASE GoOn /\ run.step \in 1..2
  <2>1. run' = [run EXCEPT !.step = @ + 1] /\ past' = past  BY <1>5 DEF GoOn
  <2>2. run.step + 1 \in 1..3  BY <1>5
  <2>3. run' \in RunType  BY <1>3, <2>1, <2>2 DEF RunType
  <2>4. /\ run'.at = run.at
        /\ run'.flavor = run.flavor /\ run'.phase = run.phase
    BY <1>3, <2>1 DEF RunType
  <2>5. run'.at <= Len(Provisioners) + 1  BY <1>1, <1>2, <1>4, <2>4
  <2>6. QED  BY <1>1, <1>2, <2>1, <2>3, <2>4, <2>5
<1>6. CASE EndScript
  <2>1. run' = [run EXCEPT !.at = @ + 1, !.step = 1] /\ past' = past
    BY <1>6 DEF EndScript
  <2>2. 1 \in 1..3  OBVIOUS
  <2>3. run' \in RunType  BY <1>3, <1>4, <2>1, <2>2 DEF RunType
  <2>4. /\ run'.at = run.at + 1
        /\ run'.flavor = run.flavor /\ run'.phase = run.phase
    BY <1>3, <2>1 DEF RunType
  <2>5. run'.at <= Len(Provisioners) + 1  BY <1>1, <1>2, <1>4, <2>4
  <2>6. QED  BY <1>1, <1>2, <2>1, <2>3, <2>4, <2>5
<1>7. QED  BY <1>5, <1>6, StepWalks

LEMMA BeginTyped ==
  ASSUME PipelineTypeOK, past.runs < MaxRuns,
         NEW way \in {"packer", "apply"}, NEW f \in Flavors, NEW env \in Envs,
         NEW skip \in BOOLEAN, NEW absent \in SUBSET Scripts,
         Begin(way, f, env, skip, absent)
  PROVE  PipelineTypeOK'
<1>1. boot' \in BootType /\ conf' \in ConfType /\ load' \in LoadType /\ seal' \in SealType
  BY DEF PipelineTypeOK, Begin, host
<1>2. 1 \in Positions /\ 1 \in 1..3  BY DEF Positions
<1>3. run' \in RunType  BY <1>2 DEF Begin, RunType
<1>4. past' \in PastType
  <2>1. past \in PastType  BY DEF PipelineTypeOK
  <2>2. past.runs + 1 \in 0..MaxRuns  BY <2>1, BoundsAssumption DEF PastType
  <2>3. past.applied \cup {<<f, env>>} \in SUBSET (Flavors \X Envs)
    BY <2>1 DEF PastType
  <2>4. past.lacked \cup absent \in SUBSET Scripts  BY <2>1 DEF PastType
  <2>5. QED  BY <2>1, <2>2, <2>3, <2>4 DEF Begin, PastType
<1>5. run'.flavor = f /\ run'.at = 1  BY DEF Begin
<1>6. 1 <= Len(Catalog[f].Provisioners) + 1
  <2>1. Catalog[f].Provisioners \in Seq(Scripts)  BY CatalogAssumption
  <2>2. Len(Catalog[f].Provisioners) \in Nat  BY <2>1, LenProperties
  <2>3. QED  BY <2>2
<1>7. QED  BY <1>1, <1>3, <1>4, <1>5, <1>6 DEF PipelineTypeOK, Provisioners

LEMMA InitTyped == Init => PipelineTypeOK
<1> SUFFICES ASSUME Init PROVE PipelineTypeOK  OBVIOUS
<1>1. <<>> \in Seq(Generations) /\ <<>> \in Seq(SshLines)  BY EmptySeq
<1>2. boot \in BootType  BY <1>1 DEF Init, BootType, Generations
<1>3. conf \in ConfType  BY <1>1 DEF Init, ConfType, SshLines
<1>4. load \in LoadType  BY DEF Init, LoadType
<1>5. seal \in SealType  BY DEF Init, SealType
<1>6. Idle \in RunType /\ Idle.phase = "idle"
  BY DEF Idle, RunType, Envs, Profiles, Preheats, Positions
<1>7. past \in PastType  BY BoundsAssumption DEF Init, PastType
<1>8. QED  BY <1>2, <1>3, <1>4, <1>5, <1>6, <1>7 DEF Init, PipelineTypeOK

LEMMA NextTyped == PipelineTypeOK /\ [Next]_vars => PipelineTypeOK'
<1> SUFFICES ASSUME PipelineTypeOK, [Next]_vars PROVE PipelineTypeOK'  OBVIOUS
<1>0. run \in RunType /\ past \in PastType  BY DEF PipelineTypeOK
<1>1. CASE Build
  <2>1. PICK f \in Flavors : Begin("packer", f, BuildEnv(Catalog[f]), FALSE, {})
    BY <1>1 DEF Build
  <2>2. BuildEnv(Catalog[f]) \in Envs  BY EnvsTyped
  <2>3. past.runs < MaxRuns  BY <1>1 DEF Build
  <2>4. FALSE \in BOOLEAN /\ {} \in SUBSET Scripts /\ "packer" \in {"packer", "apply"}
    OBVIOUS
  <2>5. QED  BY <2>1, <2>2, <2>3, <2>4, BeginTyped
<1>2. CASE Apply
  <2>1. PICK f \in IF run.flavor \in Flavors THEN NextFlavors[run.flavor] ELSE Flavors,
             role \in {"agent", "server"}, skip \in BOOLEAN,
             absent \in {{}} \cup {{s} : s \in MayMiss} :
               Begin("apply", f, ApplyEnv(Catalog[f], role), skip, absent)
    BY <1>2 DEF Apply
  <2>2. f \in Flavors  BY BoundsAssumption
  <2>3. absent \in SUBSET Scripts  BY BoundsAssumption
  <2>4. ApplyEnv(Catalog[f], role) \in Envs  BY <2>2, EnvsTyped
  <2>5. past.runs < MaxRuns  BY <1>2 DEF Apply
  <2>6. QED  BY <2>1, <2>2, <2>3, <2>4, <2>5, BeginTyped
<1>3. CASE Reboot
  <2>1. seal \in SealType  BY DEF PipelineTypeOK
  <2>2. (seal.sudo \/ seal.cleaned) \in BOOLEAN  BY Zenon
  <2>3. seal' \in SealType  BY <1>3, <2>1, <2>2 DEF Reboot, SealType
  <2>4. QED  BY <1>3, <2>3 DEF Reboot, PipelineTypeOK, Provisioners
<1>4. CASE PassOver
  <2>1. Walking /\ EndScript /\ host' = host  BY <1>4 DEF PassOver
  <2>2. run.phase = "running" /\ run.at <= Len(Provisioners)  BY <2>1 DEF Walking
  <2>3. run.at \in Nat /\ run.at + 1 \in Positions /\ 1 \in 1..3
    BY <1>0 DEF RunType, Positions
  <2>4. run' = [run EXCEPT !.at = @ + 1, !.step = 1] /\ past' = past
    BY <2>1 DEF EndScript
  <2>5. run' \in RunType  BY <1>0, <2>3, <2>4 DEF RunType
  <2>6. run'.at = run.at + 1 /\ run'.flavor = run.flavor /\ run'.phase = run.phase
    BY <1>0, <2>4 DEF RunType
  <2>7. run.flavor \in Flavors /\ Len(Provisioners) \in Nat  BY <2>2, ListTyped
  <2>8. run'.at <= Len(Provisioners) + 1  BY <2>2, <2>3, <2>6, <2>7
  <2>9. Provisioners' = Provisioners  BY <2>6 DEF Provisioners
  <2>10. boot' = boot /\ conf' = conf /\ load' = load /\ seal' = seal
    BY <2>1 DEF host
  <2>11. QED
    BY <2>4, <2>5, <2>6, <2>7, <2>8, <2>9, <2>10 DEF PipelineTypeOK
<1>5. CASE Complete \/ Fail
  <2>1. PICK phase \in {"done", "failed"} : run' = [run EXCEPT !.phase = phase]
    BY <1>5 DEF Complete, Fail
  <2>2. run' \in RunType /\ run'.flavor = run.flavor /\ run'.phase = phase
    BY <1>0, <2>1 DEF RunType
  <2>3. run.phase = "running"  BY <1>5 DEF Complete, Fail, Walking
  <2>4. run.flavor \in Flavors  BY <2>3, ListTyped
  <2>5. UNCHANGED <<boot, conf, load, seal, past>>  BY <1>5 DEF Complete, Fail
  <2>6. QED  BY <2>2, <2>4, <2>5 DEF PipelineTypeOK
<1>6. CASE Step
  <2>1. boot' \in BootType  BY <1>6, <1>0, BootTyped DEF PipelineTypeOK
  <2>2. conf' \in ConfType  BY <1>6, <1>0, ConfTyped DEF PipelineTypeOK
  <2>3. load' \in LoadType  BY <1>6, <1>0, RunTyped, LoadTyped DEF PipelineTypeOK
  <2>4. seal' \in SealType  BY <1>6, SealTyped DEF PipelineTypeOK
  <2>5. /\ run' \in RunType /\ past' = past
        /\ run'.flavor = run.flavor /\ run.flavor \in Flavors
        /\ run'.at <= Len(Provisioners) + 1
    BY <1>6, RunTyped
  <2>6. Provisioners' = Provisioners  BY <2>5 DEF Provisioners
  <2>7. QED  BY <1>0, <2>1, <2>2, <2>3, <2>4, <2>5, <2>6 DEF PipelineTypeOK
<1>7. CASE UNCHANGED vars
  BY <1>7 DEF vars, PipelineTypeOK, Provisioners
<1>8. QED  BY <1>1, <1>2, <1>3, <1>4, <1>5, <1>6, <1>7 DEF Next

\* Type correctness: every reachable host, run and history is well formed and
\* the walk never leaves the list of its flavor.
THEOREM PipelineTypeCorrect == Spec => []PipelineTypeOK
  BY InitTyped, NextTyped, PTL DEF Spec
-----------------------------------------------------------------------------
(* The kernel command line.                                                *)

\* The run has rewritten the command line; it has added the IOMMU group.
Written == \E i \in 1..Len(Provisioners) :
             /\ Provisioners[i] = "20-kernel-sysctl.sh"
             /\ i < run.at \/ (i = run.at /\ run.step > 2)
Added == \E i \in 1..Len(Provisioners) :
           Provisioners[i] = "25-baremetal-tuning.sh" /\ i < run.at

\* OneIommuGroup is not inductive: that the line is clean when the group is
\* added has to be carried from the rewrite to the addition, over the steps
\* in between, and from one run to the next nothing may be carried at all.
IommuInv ==
  /\ ~boot.grub => boot.iommu = <<>>
  /\ run.phase = "running" => run.absent \subseteq past.lacked
  /\ "20-kernel-sysctl.sh" \notin past.lacked =>
       /\ Len(boot.iommu) <= 1
       /\ run.phase = "running" /\ Written /\ ~Added => boot.iommu = <<>>

\* Of the steps of 20-kernel-sysctl.sh, the second is the rewrite.
LEMMA SecondIsRewrite ==
  ASSUME Step, Current = "20-kernel-sysctl.sh", ~KernelCmdline
  PROVE  run.step # 2
<1>1. CASE FastBoot \/ Essentials \/ HardenSsh  BY <1>1 DEF FastBoot, Essentials, HardenSsh, At
<1>2. CASE Sysctl \/ UnattendedUpgrades
  BY <1>2 DEF Sysctl, UnattendedUpgrades, At
<1>3. CASE InstallMicrocode \/ InferenceMemory \/ ImmutableTmp \/ VisionMedia
  BY <1>3 DEF InstallMicrocode, InferenceMemory, ImmutableTmp, VisionMedia, At
<1>4. CASE LockBuildUser \/ RefusePasswords \/ ForgetIdentity
  <2>1. \/ At({"99-cleanup.sh"}, 1) \/ At({"99-cleanup.sh"}, 2)
        \/ At({"99-cleanup.sh"}, 3)
    BY <1>4, Zenon DEF LockBuildUser, RefusePasswords, ForgetIdentity
  <2>2. QED  BY <2>1 DEF At
<1>5. CASE NetworkTime \/ AddIommu  BY <1>5 DEF NetworkTime, InstallUnits, AddIommu, At
<1>6. CASE GpuIntel \/ GpuMesa \/ GpuRocm
  BY <1>6, DeviceSteps DEF DeviceScripts
<1>9. CASE GpuNvidia \/ K8sRuntime \/ K3sRuntime \/ Precache
  BY <1>9 DEF GpuNvidia, K8sRuntime, K3sRuntime, InstallUnits, Precache, At
<1>7. CASE InferenceProfile \/ PreventDrift \/ RunnerTmp \/ VisionCoral \/ OtherScript
  BY <1>7 DEF InferenceProfile, PreventDrift, RunnerTmp, VisionCoral, OtherScript, At
<1>8. CASE PostgresSysctl \/ GatewaySysctl \/ MediaSysctl \/ GameSysctl
  BY <1>8 DEF PostgresSysctl, GatewaySysctl, MediaSysctl, GameSysctl, WriteDropin, At
<1>10. QED  BY <1>1, <1>2, <1>3, <1>4, <1>5, <1>6, <1>7, <1>8, <1>9 DEF Step

\* A step that ends its script moves one on; the others stay.
LEMMA StepMoves ==
  ASSUME PipelineTypeOK, Step
  PROVE  /\ Provisioners' = Provisioners
         /\ run'.absent = run.absent /\ run'.skip = run.skip
         /\ run.at \in 1..Len(Provisioners) /\ run.step \in Nat
         /\ Len(Provisioners) \in Nat
         /\ \/ run'.at = run.at /\ run'.step = run.step + 1 /\ run.step \in 1..2
            \/ /\ run'.at = run.at + 1 /\ run'.step = 1
               /\ Current = "20-kernel-sysctl.sh" => run.step = 3
               /\ Current = "99-cleanup.sh" => run.step = 3
<1>1. run \in RunType /\ run.phase = "running" /\ run.at <= Len(Provisioners)
  BY StepWalks DEF PipelineTypeOK, Walking
<1>2. Provisioners' = Provisioners  BY RunTyped DEF Provisioners
<1>3. Len(Provisioners) \in Nat  BY <1>1, ListTyped
<1>4. run.at \in 1..Len(Provisioners) /\ run.step \in Nat
  BY <1>1, <1>3 DEF RunType, Positions
<1>5. CASE GoOn /\ run.step \in 1..2
  BY <1>1, <1>2, <1>3, <1>4, <1>5 DEF GoOn, RunType
<1>6. CASE /\ EndScript
           /\ Current = "20-kernel-sysctl.sh" => run.step = 3
           /\ Current = "99-cleanup.sh" => run.step = 3
  BY <1>1, <1>2, <1>3, <1>4, <1>6 DEF EndScript, RunType
<1>7. QED  BY <1>5, <1>6, StepWalks

\* A step that leaves the boot configuration alone neither writes nor unwrites.
LEMMA QuietStepIommu ==
  ASSUME PipelineTypeOK, Step, ~KernelCmdline
  PROVE  (Written' => Written) /\ (Added => Added')
<1>1. ASSUME Written' PROVE Written
  <2>1. PICK i \in 1..Len(Provisioners) :
          /\ Provisioners[i] = "20-kernel-sysctl.sh"
          /\ i < run'.at \/ (i = run'.at /\ run'.step > 2)
    BY <1>1, StepMoves DEF Written
  <2>2. CASE i < run.at  BY <2>1, <2>2 DEF Written
  <2>3. CASE i >= run.at
    <3>1. i = run.at  BY <2>1, <2>3, StepMoves
    <3>2. Current = "20-kernel-sysctl.sh"  BY <2>1, <3>1 DEF Current
    <3>3. run.step # 2  BY <3>2, SecondIsRewrite
    <3>4. run.step > 2  BY <2>1, <3>1, <3>2, <3>3, StepMoves
    <3>5. QED  BY <2>1, <3>1, <3>4 DEF Written
  <2>4. QED  BY <2>2, <2>3, StepMoves
<1>2. ASSUME Added PROVE Added'
  <2>1. PICK i \in 1..Len(Provisioners) :
          Provisioners[i] = "25-baremetal-tuning.sh" /\ i < run.at
    BY <1>2 DEF Added
  <2>2. i < run'.at  BY <2>1, StepMoves
  <2>3. QED  BY <2>1, <2>2, StepMoves DEF Added
<1>3. QED  BY <1>1, <1>2

\* When the group is added, the line was rewritten in this run and no group
\* was added since.
LEMMA CleanAtAddition ==
  ASSUME PipelineTypeOK, AddIommu
  PROVE  Written /\ ~Added /\ Added'
<1>0. Step  BY DEF Step
<1>1. Current = "25-baremetal-tuning.sh" /\ EndScript  BY DEF AddIommu, At
<1>2. run.flavor \in Flavors /\ run \in RunType
  BY <1>0, RunTyped DEF PipelineTypeOK
<1>3. run.at \in 1..Len(Provisioners) /\ Provisioners' = Provisioners
  BY <1>0, StepMoves
<1>4. Provisioners[run.at] = "25-baremetal-tuning.sh"  BY <1>1 DEF Current
<1>5. /\ \E i \in 1..Len(Provisioners) : i < run.at /\ Provisioners[i] = "20-kernel-sysctl.sh"
      /\ \A i \in 1..Len(Provisioners) :
           Provisioners[i] = "25-baremetal-tuning.sh" => i = run.at
  <2>1. \A i, j \in 1..Len(Provisioners) : Provisioners[i] = Provisioners[j] => i = j
    BY <1>2, CatalogAssumption DEF Provisioners
  <2>2. \A j \in 1..Len(Provisioners) : Provisioners[j] = "25-baremetal-tuning.sh" =>
          \E i \in 1..Len(Provisioners) : i < j /\ Provisioners[i] = "20-kernel-sysctl.sh"
    BY <1>2, CatalogAssumption DEF Provisioners
  <2>3. QED  BY <1>3, <1>4, <2>1, <2>2
<1>6. Written  BY <1>5 DEF Written
<1>7. ~Added  BY <1>3, <1>5 DEF Added
<1>8. run'.at = run.at + 1  BY <1>1, <1>2 DEF EndScript, RunType
<1>9. Added'  BY <1>3, <1>4, <1>8 DEF Added
<1>10. QED  BY <1>6, <1>7, <1>9

LEMMA InitIommu == Init => IommuInv
  BY DEF Init, Idle, IommuInv

LEMMA NextIommu == PipelineTypeOK /\ IommuInv /\ [Next]_vars => IommuInv'
<1> SUFFICES ASSUME PipelineTypeOK, IommuInv, [Next]_vars PROVE IommuInv'
  OBVIOUS
<1>0. run \in RunType /\ past \in PastType /\ boot \in BootType
  BY DEF PipelineTypeOK
<1>1. CASE Build \/ Apply
  <2>1. PICK way, f, env, skip, absent : Begin(way, f, env, skip, absent)
    BY <1>1 DEF Build, Apply
  <2>2. /\ run'.at = 1 /\ run'.step = 1 /\ run'.absent = absent
        /\ boot' = boot
    BY <2>1 DEF Begin, host
  <2>3. past'.lacked = past.lacked \cup absent  BY <1>0, <2>1 DEF Begin, PastType
  <2>4. ~Written'  BY <2>2 DEF Written
  <2>5. QED  BY <2>2, <2>3, <2>4 DEF IommuInv
<1>2. CASE Reboot
  BY <1>2 DEF Reboot, IommuInv, Written, Added, Provisioners
<1>3. CASE PassOver
  <2>1. /\ Walking /\ EndScript /\ boot' = boot
        /\ Current \in run.absent \/ Current = "99-cleanup.sh"
    BY <1>3 DEF PassOver, host
  <2>2. run' = [run EXCEPT !.at = @ + 1, !.step = 1] /\ past' = past
    BY <2>1 DEF EndScript
  <2>3. /\ run'.at = run.at + 1 /\ run'.step = 1 /\ run'.phase = run.phase
        /\ run'.flavor = run.flavor /\ run'.absent = run.absent
    BY <1>0, <2>2 DEF RunType
  <2>4. run.phase = "running" /\ run.at <= Len(Provisioners)
    BY <2>1 DEF Walking
  <2>5. Provisioners' = Provisioners  BY <2>3 DEF Provisioners
  <2>6. run.at \in 1..Len(Provisioners) /\ Len(Provisioners) \in Nat
    BY <1>0, <2>4, ListTyped DEF RunType, Positions
  <2>7. ASSUME "20-kernel-sysctl.sh" \notin past.lacked, Written'
        PROVE  Written
    <3>1. Current # "20-kernel-sysctl.sh"  BY <2>1, <2>4, <2>7 DEF IommuInv
    <3>2. PICK i \in 1..Len(Provisioners) :
            /\ Provisioners[i] = "20-kernel-sysctl.sh"
            /\ i < run'.at \/ (i = run'.at /\ run'.step > 2)
      BY <2>5, <2>7 DEF Written
    <3>3. i # run.at  BY <3>1, <3>2 DEF Current
    <3>4. i < run.at  BY <2>3, <2>6, <3>2, <3>3
    <3>5. QED  BY <3>2, <3>4 DEF Written
  <2>8. ASSUME Added PROVE Added'
    <3>1. PICK i \in 1..Len(Provisioners) :
            Provisioners[i] = "25-baremetal-tuning.sh" /\ i < run.at
      BY <2>8 DEF Added
    <3>2. i < run'.at  BY <2>3, <2>6, <3>1
    <3>3. QED  BY <2>5, <3>1, <3>2 DEF Added
  <2>9. QED  BY <2>1, <2>2, <2>3, <2>4, <2>7, <2>8 DEF IommuInv
<1>4. CASE Complete \/ Fail
  <2>1. run'.phase # "running"  BY <1>0, <1>4 DEF Complete, Fail, RunType
  <2>2. boot' = boot /\ past' = past  BY <1>4 DEF Complete, Fail
  <2>3. QED  BY <2>1, <2>2 DEF IommuInv
<1>5. CASE Step
  <2>1. /\ run.phase = "running" /\ run'.phase = run.phase
        /\ past' = past /\ run'.absent = run.absent
    BY <1>5, RunTyped, StepMoves
  <2>2. CASE KernelCmdline
    <3>1. boot'.grub = boot.grub /\ (boot'.iommu = <<>> \/ (~boot.grub /\ boot' = boot))
      BY <1>0, <2>2 DEF KernelCmdline, BootType
    <3>2. boot'.iommu = <<>>  BY <3>1 DEF IommuInv
    <3>3. Len(<<>>) = 0  BY EmptySeq
    <3>4. QED  BY <2>1, <3>2, <3>3 DEF IommuInv
  <2>3. CASE AddIommu
    <3>1. Written /\ ~Added /\ Added'  BY <2>3, CleanAtAddition
    <3>2. /\ boot'.grub = boot.grub
          /\ boot'.iommu = IF boot.grub THEN Append(boot.iommu, run.env.gen)
                           ELSE boot.iommu
      BY <1>0, <2>3 DEF AddIommu, BootType
    <3>3. ASSUME "20-kernel-sysctl.sh" \notin past.lacked
          PROVE  Len(boot'.iommu) <= 1
      <4>1. boot.iommu = <<>>  BY <2>1, <3>1, <3>3 DEF IommuInv
      <4>2. run.env.gen \in Generations  BY <1>0 DEF RunType, Envs, Generations
      <4>3. <<>> \in Seq(Generations) /\ Len(<<>>) = 0  BY EmptySeq
      <4>4. Len(Append(<<>>, run.env.gen)) = 1  BY <4>2, <4>3, AppendProperties
      <4>5. QED  BY <3>2, <4>1, <4>3, <4>4
    <3>4. ~boot'.grub => boot'.iommu = <<>>  BY <3>2 DEF IommuInv
    <3>5. QED  BY <2>1, <3>1, <3>3, <3>4 DEF IommuInv
  <2>4. CASE ~KernelCmdline /\ ~AddIommu
    <3>1. boot'.grub = boot.grub /\ boot'.iommu = boot.iommu
      <4>1. CASE FastBoot  BY <1>0, <4>1 DEF FastBoot, BootType
      <4>2. CASE ~FastBoot  BY <1>5, <2>4, <4>2, StepBoot
      <4>3. QED  BY <4>1, <4>2
    <3>2. (Written' => Written) /\ (Added => Added')
      BY <1>5, <2>4, QuietStepIommu
    <3>3. QED  BY <2>1, <3>1, <3>2 DEF IommuInv
  <2>5. QED  BY <2>2, <2>3, <2>4
<1>6. CASE UNCHANGED vars
  BY <1>6 DEF vars, IommuInv, Written, Added, Provisioners
<1>7. QED  BY <1>1, <1>2, <1>3, <1>4, <1>5, <1>6 DEF Next

\* However often flavors are put on a host, and wherever runs break off, the
\* kernel command line carries at most one IOMMU group, unless some workspace
\* lacked the script that rewrites it.
THEOREM IommuNeverPilesUp == Spec => []OneIommuGroup
<1>1. PipelineTypeOK /\ IommuInv => OneIommuGroup  BY DEF IommuInv, OneIommuGroup
<1>2. QED
  BY <1>1, InitTyped, NextTyped, InitIommu, NextIommu, PTL DEF Spec
-----------------------------------------------------------------------------
(* Sealing a host.                                                         *)

Cleanup == "99-cleanup.sh"
Hardened(lines) == \A i \in DOMAIN lines : lines[i] = "hardened"

\* SealNeedsRights is not inductive: it takes that the rule is gone from the
\* cleanup's first step on, so that its others have no right to run, and that
\* a walk has passed a cleanup only by leaving it out.
SealInv ==
  /\ ~seal.other => seal.identity /\ Hardened(conf.sshd)
  /\ ~seal.other /\ run.phase = "running" =>
       /\ run.at <= Len(Provisioners) /\ Current = Cleanup /\ run.step >= 2 => ~seal.sudo
       /\ \A i \in 1..Len(Provisioners) : i < run.at /\ Provisioners[i] = Cleanup =>
             Cleanup \in run.absent \/ run.skip
  /\ Settled /\ Cleanup \in Ran => seal.other

\* The cleanup's three steps are its own.
LEMMA CleanupSteps ==
  ASSUME Step, Current = Cleanup
  PROVE  LockBuildUser \/ RefusePasswords \/ ForgetIdentity
<1>0. Current = "99-cleanup.sh"  BY DEF Cleanup
<1>1. CASE FastBoot \/ Essentials \/ HardenSsh
  BY <1>0, <1>1 DEF FastBoot, Essentials, HardenSsh, At
<1>2. CASE Sysctl \/ UnattendedUpgrades
  BY <1>0, <1>2 DEF Sysctl, UnattendedUpgrades, At
<1>3. CASE InstallMicrocode \/ InferenceMemory \/ ImmutableTmp \/ VisionMedia
  BY <1>0, <1>3 DEF InstallMicrocode, InferenceMemory, ImmutableTmp, VisionMedia, At
<1>4. CASE NetworkTime \/ AddIommu
  BY <1>0, <1>4 DEF NetworkTime, InstallUnits, AddIommu, At
<1>5. CASE GpuIntel \/ GpuMesa \/ GpuRocm
  BY <1>0, <1>5, DeviceSteps DEF DeviceScripts
<1>9. CASE GpuNvidia \/ K8sRuntime \/ K3sRuntime \/ Precache
  BY <1>0, <1>9 DEF GpuNvidia, K8sRuntime, K3sRuntime, InstallUnits, Precache, At
<1>6. CASE InferenceProfile \/ PreventDrift \/ RunnerTmp \/ VisionCoral \/ OtherScript
  BY <1>0, <1>6 DEF InferenceProfile, PreventDrift, RunnerTmp, VisionCoral,
     OtherScript, At
<1>7. CASE PostgresSysctl \/ GatewaySysctl \/ MediaSysctl \/ GameSysctl
  BY <1>0, <1>7 DEF PostgresSysctl, GatewaySysctl, MediaSysctl, GameSysctl,
     WriteDropin, At
<1>8. CASE KernelCmdline  BY <1>0, <1>8 DEF KernelCmdline, At
<1>10. QED  BY <1>1, <1>2, <1>3, <1>4, <1>5, <1>6, <1>7, <1>8, <1>9 DEF Step

\* Two steps write the file of the SSH settings.
LEMMA StepSshd ==
  ASSUME conf \in ConfType, Step, ~HardenSsh, ~RefusePasswords
  PROVE  conf'.sshd = conf.sshd
<1>1. CASE Sysctl  BY <1>1 DEF Sysctl, ConfType
<1>2. CASE UnattendedUpgrades  BY <1>2 DEF UnattendedUpgrades, ConfType
<1>3. CASE InstallMicrocode  BY <1>3 DEF InstallMicrocode, ConfType
<1>4. CASE InferenceMemory  BY <1>4 DEF InferenceMemory, ConfType
<1>5. CASE ImmutableTmp  BY <1>5 DEF ImmutableTmp, MountTmp, ConfType
<1>6. CASE PreventDrift  BY <1>6 DEF PreventDrift, ConfType
<1>7. CASE RunnerTmp  BY <1>7 DEF RunnerTmp, MountTmp, ConfType
<1>8. CASE DropinSteps
  <2>1. ASSUME NEW script, NEW file, WriteDropin(script, file)
        PROVE  conf'.sshd = conf.sshd
    BY <2>1 DEF WriteDropin, ConfType
  <2>2. CASE PostgresSysctl  BY <2>1, <2>2 DEF PostgresSysctl
  <2>3. CASE GatewaySysctl  BY <2>1, <2>3 DEF GatewaySysctl
  <2>4. CASE MediaSysctl  BY <2>1, <2>4 DEF MediaSysctl
  <2>5. CASE GameSysctl  BY <2>1, <2>5 DEF GameSysctl
  <2>6. QED  BY <1>8, <2>2, <2>3, <2>4, <2>5 DEF DropinSteps
<1>9. CASE /\ ~Sysctl /\ ~UnattendedUpgrades
            /\ ~InstallMicrocode /\ ~InferenceMemory /\ ~ImmutableTmp
            /\ ~PreventDrift /\ ~RunnerTmp /\ ~DropinSteps
  BY <1>9, StepConf
<1>10. QED
  BY <1>1, <1>2, <1>3, <1>4, <1>5, <1>6, <1>7, <1>8, <1>9

LEMMA InitSeal == Init => SealInv
  BY DEF Init, Idle, SealInv, Hardened, Settled

\* Without rights from elsewhere a step can be the cleanup's first only.
LEMMA StepSealInv ==
  ASSUME PipelineTypeOK, SealInv, Step
  PROVE  SealInv'
<1>0. seal \in SealType /\ conf \in ConfType  BY DEF PipelineTypeOK
<1>1. /\ run.phase = "running" /\ run'.phase = run.phase
      /\ run'.flavor = run.flavor
  BY RunTyped
<1>2. seal'.other = seal.other
  <2>1. CASE LockBuildUser  BY <1>0, <2>1 DEF LockBuildUser, SealType
  <2>2. CASE ForgetIdentity  BY <1>0, <2>2 DEF ForgetIdentity, SealType
  <2>3. CASE ~LockBuildUser /\ ~ForgetIdentity  BY <2>3, StepSeal
  <2>4. QED  BY <2>1, <2>2, <2>3
<1>3. ~Settled'  BY <1>1 DEF Settled
<1>4. CASE seal.other  BY <1>2, <1>3, <1>4 DEF SealInv
<1>5. CASE ~seal.other
  <2>1. seal.sudo /\ Current \notin run.absent /\ ~(run.skip /\ Current = Cleanup)
    BY <1>5, StepWalks DEF Rights, Cleanup
  <2>2. run.at \in 1..Len(Provisioners) /\ Provisioners' = Provisioners
    BY StepMoves
  <2>3. ~(Current = Cleanup /\ run.step >= 2)
    BY <1>1, <1>5, <2>1, <2>2 DEF SealInv
  <2>4. ~RefusePasswords /\ ~ForgetIdentity
    <3>1. ASSUME NEW k \in {2, 3}, At({"99-cleanup.sh"}, k) PROVE FALSE
      BY <2>3, <3>1 DEF At, Cleanup
    <3>2. QED  BY <3>1 DEF RefusePasswords, ForgetIdentity
  <2>5. seal'.identity /\ Hardened(conf'.sshd)
    <3>1. seal'.identity = seal.identity
      <4>1. CASE LockBuildUser  BY <1>0, <4>1 DEF LockBuildUser, SealType
      <4>2. CASE ~LockBuildUser  BY <2>4, <4>2, StepSeal
      <4>3. QED  BY <4>1, <4>2
    <3>2. Hardened(conf'.sshd)
      <4>1. CASE HardenSsh
        <5>1. conf'.sshd = <<"hardened">>  BY <1>0, <4>1 DEF HardenSsh, ConfType
        <5>2. QED  BY <5>1 DEF Hardened
      <4>2. CASE ~HardenSsh
        <5>1. conf'.sshd = conf.sshd  BY <1>0, <2>4, <4>2, StepSshd
        <5>2. QED  BY <1>5, <5>1 DEF SealInv
      <4>3. QED  BY <4>1, <4>2
    <3>3. QED  BY <1>5, <3>1, <3>2 DEF SealInv
  <2>6. CASE Current = Cleanup
    <3>1. LockBuildUser  BY <2>4, <2>6, CleanupSteps
    <3>2. ~seal'.sudo  BY <1>0, <3>1 DEF LockBuildUser, SealType
    <3>3. run'.at = run.at /\ run'.absent = run.absent /\ run'.skip = run.skip
      BY <2>3, <2>6, StepMoves DEF Cleanup
    <3>4. QED
      BY <1>1, <1>2, <1>3, <1>5, <2>2, <2>5, <3>2, <3>3 DEF SealInv
  <2>7. CASE Current # Cleanup
    <3>1. run'.absent = run.absent /\ run'.skip = run.skip  BY StepMoves
    <3>2. \A i \in 1..Len(Provisioners) : i < run'.at /\ Provisioners[i] = Cleanup =>
             Cleanup \in run.absent \/ run.skip
      <4>1. SUFFICES ASSUME NEW i \in 1..Len(Provisioners), i < run'.at,
                            Provisioners[i] = Cleanup
                     PROVE  Cleanup \in run.absent \/ run.skip
        OBVIOUS
      <4>2. i # run.at  BY <2>7, <4>1 DEF Current
      <4>3. i < run.at  BY <2>2, <4>1, <4>2, StepMoves
      <4>4. QED  BY <1>1, <1>5, <4>1, <4>3 DEF SealInv
    <3>3. ~(/\ run'.at <= Len(Provisioners) /\ Current' = Cleanup /\ run'.step >= 2)
      <4>1. CASE run'.at = run.at
        <5>1. Current' = Current  BY <2>2, <4>1 DEF Current
        <5>2. QED  BY <2>7, <5>1
      <4>2. CASE run'.at # run.at
        <5>1. run'.step = 1  BY <4>2, StepMoves
        <5>2. QED  BY <5>1
      <4>3. QED  BY <4>1, <4>2
    <3>4. QED
      BY <1>2, <1>3, <1>5, <2>2, <2>5, <3>1, <3>2, <3>3 DEF SealInv
  <2>8. QED  BY <2>6, <2>7
<1>6. QED  BY <1>4, <1>5

LEMMA NextSeal == PipelineTypeOK /\ SealInv /\ [Next]_vars => SealInv'
<1> SUFFICES ASSUME PipelineTypeOK, SealInv, [Next]_vars PROVE SealInv'
  OBVIOUS
<1>0. run \in RunType /\ seal \in SealType  BY DEF PipelineTypeOK
<1>1. CASE Build \/ Apply
  <2>1. PICK way, f, env, skip, absent : Begin(way, f, env, skip, absent)
    BY <1>1 DEF Build, Apply
  <2>2. /\ run'.at = 1 /\ run'.step = 1 /\ run'.phase = "running"
        /\ seal' = seal /\ conf' = conf
    BY <2>1 DEF Begin, host
  <2>3. ~Settled'  BY <2>2 DEF Settled
  <2>4. QED  BY <2>2, <2>3 DEF SealInv
<1>2. CASE Reboot
  <2>1. seal'.other = seal.other /\ seal'.identity = TRUE
    BY <1>0, <1>2 DEF Reboot, SealType
  <2>2. conf' = conf /\ run' = run /\ run.phase # "running"
    BY <1>2 DEF Reboot, Usable
  <2>3. Settled' = Settled /\ Ran' = Ran  BY <2>2 DEF Settled, Ran
  <2>4. QED  BY <2>1, <2>2, <2>3 DEF SealInv
<1>3. CASE PassOver
  <2>1. /\ Walking /\ EndScript /\ seal' = seal /\ conf' = conf
        /\ \/ Current \in run.absent
           \/ run.skip /\ Current = Cleanup
    BY <1>3 DEF PassOver, host, Cleanup
  <2>2. run' = [run EXCEPT !.at = @ + 1, !.step = 1]  BY <2>1 DEF EndScript
  <2>3. /\ run'.at = run.at + 1 /\ run'.step = 1 /\ run'.phase = run.phase
        /\ run'.flavor = run.flavor /\ run'.absent = run.absent
        /\ run'.skip = run.skip
    BY <1>0, <2>2 DEF RunType
  <2>4. run.phase = "running" /\ run.at <= Len(Provisioners)
    BY <2>1 DEF Walking
  <2>5. Provisioners' = Provisioners /\ ~Settled'
    BY <2>3, <2>4 DEF Provisioners, Settled
  <2>6. run.at \in 1..Len(Provisioners) /\ Len(Provisioners) \in Nat
    BY <1>0, <2>4, ListTyped DEF RunType, Positions
  <2>7. ASSUME ~seal.other, NEW i \in 1..Len(Provisioners), i < run'.at,
               Provisioners[i] = Cleanup
        PROVE  Cleanup \in run.absent \/ run.skip
    <3>1. CASE i = run.at  BY <2>1, <2>7, <3>1 DEF Current
    <3>2. CASE i # run.at
      <4>1. i < run.at  BY <2>3, <2>6, <2>7, <3>2
      <4>2. QED  BY <2>4, <2>7, <4>1 DEF SealInv
    <3>3. QED  BY <3>1, <3>2
  <2>8. QED  BY <2>1, <2>3, <2>5, <2>7 DEF SealInv
<1>4. CASE Complete
  <2>1. /\ run.phase = "running" /\ run.at > Len(Provisioners)
        /\ seal' = seal /\ conf' = conf /\ run' = [run EXCEPT !.phase = "done"]
    BY <1>4 DEF Complete
  <2>2. /\ run'.phase = "done" /\ run'.flavor = run.flavor
        /\ run'.absent = run.absent /\ run'.skip = run.skip
    BY <1>0, <2>1 DEF RunType
  <2>3. Ran' = Ran  BY <2>2 DEF Ran
  <2>4. ASSUME ~seal.other, Cleanup \in Ran PROVE FALSE
    <3>1. /\ Cleanup \in ScriptsOf(Catalog[run.flavor])
          /\ Cleanup \notin run.absent /\ ~run.skip
      BY <2>4 DEF Ran, Cleanup
    <3>2. Provisioners \in Seq(Scripts) /\ Len(Provisioners) \in Nat
      BY <2>1, ListTyped
    <3>3. PICK i \in DOMAIN Provisioners : Provisioners[i] = Cleanup
      BY <3>1 DEF ScriptsOf, Provisioners
    <3>4. i \in 1..Len(Provisioners)  BY <3>2, <3>3, LenProperties
    <3>5. i < run.at  BY <1>0, <2>1, <3>2, <3>4 DEF RunType, Positions
    <3>6. QED  BY <2>1, <2>4, <3>1, <3>3, <3>4, <3>5 DEF SealInv
  <2>5. QED  BY <2>1, <2>2, <2>3, <2>4 DEF SealInv
<1>5. CASE Fail
  <2>1. run'.phase = "failed" /\ seal' = seal /\ conf' = conf
    BY <1>0, <1>5 DEF Fail, RunType
  <2>2. QED  BY <2>1 DEF SealInv, Settled
<1>6. CASE Step  BY <1>6, StepSealInv
<1>7. CASE UNCHANGED vars
  BY <1>7 DEF vars, SealInv, Settled, Ran, Current, Provisioners
<1>8. QED  BY <1>1, <1>2, <1>3, <1>4, <1>5, <1>6, <1>7 DEF Next

\* A host whose build user has no rights but its sudo rule is never sealed: the
\* password line is not written, the identity stays, and no run that reaches
\* the cleanup completes.
THEOREM SealTakesRights == Spec => []SealNeedsRights
<1>1. SealInv => SealNeedsRights
  BY DEF SealInv, SealNeedsRights, Hardened, Cleanup
<1>2. QED
  BY <1>1, InitTyped, NextTyped, InitSeal, NextSeal, PTL DEF Spec
-----------------------------------------------------------------------------
(* What a run leaves.                                                      *)

\* The run has taken step k of script s.
Taken(s, k) ==
  /\ \E i \in 1..Len(Provisioners) :
       Provisioners[i] = s /\ (i < run.at \/ (i = run.at /\ run.step > k))
  /\ s \notin run.absent
  /\ ~(run.skip /\ s = "99-cleanup.sh")

\* The pairs of Certain, with the step that leaves the item in the middle, and
\* the unit of the k3s role.
LeftAt(env) == {
  <<"52-k3s-runtime.sh", 1, K3sUnit(env.role)>>,
  <<"00-base-strip.sh", 2, "qemu-guest-agent.service">>,
  <<"10-network-time.sh", 1, "chrony.service">>,
  <<"20-kernel-sysctl.sh", 1, "99-lusoris.conf">>,
  <<"20-kernel-sysctl.sh", 3, "20auto-upgrades">>,
  <<"30-gpu-intel.sh", 2, "intel">>, <<"31-gpu-amd-mesa.sh", 1, "amd">>,
  <<"32-gpu-amd-rocm.sh", 2, "amd">>,
  <<"50-k8s-runtime.sh", 1, "containerd.service">>,
  <<"50-k8s-runtime.sh", 1, "kubelet.service">>,
  <<"60-ai-infer-runtime.sh", 1, "95-ai-memory.conf">>,
  <<"61-cloudnative-immutable.sh", 2, "99-immutable-prevent-drift">>,
  <<"70-cloudnative-pg.sh", 1, "70-cloudnative-pg.conf">>,
  <<"75-appliance-vision.sh", 2, "coral">>,
  <<"76-appliance-gateway.sh", 1, "99-gateway.conf">>,
  <<"77-appliance-media.sh", 1, "99-media-streaming.conf">>,
  <<"79-appliance-game.sh", 1, "99-game-server.conf">>}

\* Converges speaks of completed runs only.  Its inductive form says at every
\* step what the steps taken so far have left, and, where a file is written
\* twice, which of the two steps was the last.
ItemsInv == \A q \in LeftAt(run.env) : Taken(q[1], q[2]) => q[3] \in Items
SshInv ==
  Taken("00-base-strip.sh", 3) => conf.sshd = <<"hardened">> \o
    (IF Taken("99-cleanup.sh", 2) THEN <<"PasswordAuthentication no">> ELSE <<>>)
LineInv ==
  boot.grub /\ Taken("20-kernel-sysctl.sh", 2) =>
    /\ boot.profile = CmdlineProfile(run.env.kernel)
    /\ boot.iommu = IF Taken("25-baremetal-tuning.sh", 2) THEN <<run.env.gen>> ELSE <<>>
SelectInv ==
  Taken("60-ai-infer-runtime.sh", 2) =>
    load.selectors = Selectors(load.cdi \cup load.runtimes)
LeavesInv ==
  /\ run.phase = "done" => run.at > Len(Provisioners)
  /\ ItemsInv /\ SshInv /\ LineInv /\ SelectInv

\* A step takes itself, and no other step of the script it is in or of one it
\* is not in.
LEMMA StepTakes ==
  ASSUME PipelineTypeOK, Step, NEW s, NEW k \in 1..3, Taken(s, k)', ~Taken(s, k)
  PROVE  /\ Current = s /\ run.step <= k
         /\ run'.at = run.at => run.step = k
<1>1. PICK i \in 1..Len(Provisioners) :
        Provisioners[i] = s /\ (i < run'.at \/ (i = run'.at /\ run'.step > k))
  BY StepMoves DEF Taken
<1>2. s \notin run.absent /\ ~(run.skip /\ s = "99-cleanup.sh")
  BY StepMoves DEF Taken
<1>3. ~(i < run.at) /\ ~(i = run.at /\ run.step > k)
  BY <1>1, <1>2 DEF Taken
<1>4. i = run.at  BY <1>1, <1>3, StepMoves
<1>5. run.step <= k  BY <1>3, <1>4, StepMoves
<1>6. ASSUME run'.at = run.at PROVE run.step = k
  <2>1. run'.step > k  BY <1>1, <1>4, <1>6
  <2>2. run'.step = run.step + 1  BY <1>6, StepMoves
  <2>3. QED  BY <1>5, <2>1, <2>2, StepMoves
<1>7. QED  BY <1>1, <1>4, <1>5, <1>6 DEF Current

\* What was taken stays taken.
LEMMA StepKeepsTaken ==
  ASSUME PipelineTypeOK, Step, NEW s, NEW k \in 1..3, Taken(s, k)
  PROVE  Taken(s, k)'
<1>1. PICK i \in 1..Len(Provisioners) :
        Provisioners[i] = s /\ (i < run.at \/ (i = run.at /\ run.step > k))
  BY DEF Taken
<1>2. i < run'.at \/ (i = run'.at /\ run'.step > k)  BY <1>1, StepMoves
<1>3. QED  BY <1>1, <1>2, StepMoves DEF Taken

\* The step under way has not been taken before, nor has any step of a script
\* further down the list.
LEMMA NotYetTaken ==
  ASSUME PipelineTypeOK, Walking, NEW k \in 1..3,
         NEW j \in 1..Len(Provisioners), j > run.at \/ (j = run.at /\ run.step <= k)
  PROVE  ~Taken(Provisioners[j], k)
<1>1. run.flavor \in Flavors /\ run \in RunType
  BY ListTyped DEF Walking, PipelineTypeOK
<1>2. \A i \in 1..Len(Provisioners) : Provisioners[i] = Provisioners[j] => i = j
  BY <1>1, CatalogAssumption DEF Provisioners
<1>3. j \in Nat /\ run.at \in Nat /\ run.step \in Nat
  <2>1. Len(Provisioners) \in Nat  BY ListTyped DEF Walking
  <2>2. QED  BY <1>1, <2>1 DEF RunType, Positions
<1>4. QED  BY <1>2, <1>3 DEF Taken

\* Nothing a script left is taken away by another.
LEMMA StepGrows ==
  ASSUME conf \in ConfType, load \in LoadType, Step
  PROVE  /\ conf.dropins \cup conf.apt \subseteq conf'.dropins \cup conf'.apt
         /\ load.units \cup load.cdi \cup load.runtimes
              \subseteq load'.units \cup load'.cdi \cup load'.runtimes
<1>1. conf.dropins \subseteq conf'.dropins /\ conf.apt \subseteq conf'.apt
  <2>1. CASE HardenSsh \/ RefusePasswords
    BY <2>1 DEF HardenSsh, RefusePasswords, ConfType
  <2>2. CASE Sysctl \/ UnattendedUpgrades \/ InstallMicrocode \/ InferenceMemory
    BY <2>2 DEF Sysctl, UnattendedUpgrades, InstallMicrocode, InferenceMemory, ConfType
  <2>3. CASE ImmutableTmp \/ PreventDrift \/ RunnerTmp
    BY <2>3 DEF ImmutableTmp, PreventDrift, RunnerTmp, MountTmp, ConfType
  <2>4. CASE DropinSteps
    BY <2>4 DEF DropinSteps, PostgresSysctl, GatewaySysctl, MediaSysctl, GameSysctl,
       WriteDropin, ConfType
  <2>5. CASE /\ ~HardenSsh /\ ~Sysctl /\ ~UnattendedUpgrades
             /\ ~InstallMicrocode /\ ~InferenceMemory /\ ~ImmutableTmp
             /\ ~PreventDrift /\ ~RunnerTmp /\ ~DropinSteps /\ ~RefusePasswords
    BY <2>5, StepConf
  <2>6. QED  BY <2>1, <2>2, <2>3, <2>4, <2>5
<1>2. /\ load.units \subseteq load'.units /\ load.cdi \subseteq load'.cdi
      /\ load.runtimes \subseteq load'.runtimes
  <2>1. CASE Essentials \/ NetworkTime \/ K8sRuntime \/ K3sRuntime
    BY <2>1 DEF Essentials, NetworkTime, K8sRuntime, K3sRuntime, InstallUnits, LoadType
  <2>2. CASE GpuIntel \/ GpuMesa \/ GpuRocm \/ VisionCoral
    <3>1. ASSUME NEW script, NEW runtime, InstallRuntime(script, runtime)
          PROVE  /\ load'.units = load.units /\ load'.cdi = load.cdi
                 /\ load.runtimes \subseteq load'.runtimes
      BY <3>1 DEF InstallRuntime, LoadType
    <3>2. ASSUME NEW script, NEW k, NEW vendor, DescribeDevice(script, k, vendor)
          PROVE  /\ load'.units = load.units /\ load.cdi \subseteq load'.cdi
                 /\ load'.runtimes = load.runtimes
      BY <3>2 DEF DescribeDevice, LoadType
    <3>3. CASE VisionCoral  BY <3>3 DEF VisionCoral, LoadType
    <3>4. QED  BY <2>2, <3>1, <3>2, <3>3 DEF GpuIntel, GpuMesa, GpuRocm
  <2>3. CASE GpuNvidia  BY <2>3 DEF GpuNvidia, LoadType
  <2>4. CASE Precache
    <3>1. PICK got : load' = [load EXCEPT !.images = @ \cup got]
      BY <2>4 DEF Precache
    <3>2. QED  BY <3>1 DEF LoadType
  <2>5. CASE InferenceProfile \/ VisionMedia
    BY <2>5 DEF InferenceProfile, VisionMedia, LoadType
  <2>6. CASE /\ ~Essentials /\ ~NetworkTime /\ ~GpuIntel /\ ~GpuMesa /\ ~GpuRocm /\ ~GpuNvidia
             /\ ~K8sRuntime /\ ~K3sRuntime /\ ~Precache /\ ~InferenceProfile
             /\ ~VisionMedia /\ ~VisionCoral
    BY <2>6, StepLoad
  <2>7. QED  BY <2>1, <2>2, <2>3, <2>4, <2>5, <2>6
<1>3. QED  BY <1>1, <1>2

\* A step leaves the items that LeftAt gives to it: when a script is left
\* behind, no step of it that leaves something is still to come.
LEMMA StepLeaves ==
  ASSUME conf \in ConfType, load \in LoadType, run \in RunType, Step,
         NEW q \in LeftAt(run.env), q[1] = Current, run.step <= q[2],
         run'.at = run.at => run.step = q[2]
  PROVE  q[3] \in Items'
<1>1. ASSUME GoOn PROVE run.step = q[2]
  <2>1. run'.at = run.at  BY <1>1 DEF GoOn, RunType
  <2>2. QED  BY <2>1
<1>2. ASSUME NEW script, NEW units, InstallUnits(script, units)
      PROVE  Current = script /\ units \subseteq Items'
  BY <1>2 DEF InstallUnits, At, LoadType, Items
<1>3. ASSUME NEW script, NEW file, WriteDropin(script, file)
      PROVE  Current = script /\ file \in Items'
  BY <1>3 DEF WriteDropin, At, ConfType, Items
<1>4. ASSUME NEW script, NEW k, NEW vendor, DescribeDevice(script, k, vendor)
      PROVE  Current = script /\ vendor \in Items'
  BY <1>4 DEF DescribeDevice, At, LoadType, Items
<1>27. ASSUME NEW script, NEW runtime, InstallRuntime(script, runtime)
       PROVE  Current = script /\ run.step = 1 /\ GoOn
  BY <1>27 DEF InstallRuntime, At
<1>5. CASE FastBoot  BY <1>1, <1>5 DEF FastBoot, At, LeftAt
<1>6. CASE Essentials
  <2>1. Current = "00-base-strip.sh" /\ "qemu-guest-agent.service" \in Items'
    BY <1>6 DEF Essentials, At, LoadType, Items
  <2>2. QED  BY <2>1 DEF LeftAt
<1>7. CASE HardenSsh  BY <1>7 DEF HardenSsh, At, LeftAt
<1>8. CASE NetworkTime
  <2>1. Current = "10-network-time.sh" /\ "chrony.service" \in Items'
    BY <1>2, <1>8 DEF NetworkTime
  <2>2. QED  BY <2>1 DEF LeftAt
<1>9. CASE Sysctl
  <2>1. Current = "20-kernel-sysctl.sh" /\ run.step = 1 /\ GoOn
    BY <1>9 DEF Sysctl, At
  <2>2. "99-lusoris.conf" \in Items'  BY <1>9 DEF Sysctl, ConfType, Items
  <2>3. QED  BY <1>1, <2>1, <2>2 DEF LeftAt
<1>10. CASE KernelCmdline
  <2>1. Current = "20-kernel-sysctl.sh" /\ run.step = 2 /\ GoOn
    BY <1>10 DEF KernelCmdline, At
  <2>2. QED  BY <1>1, <2>1 DEF LeftAt
<1>11. CASE UnattendedUpgrades
  <2>1. Current = "20-kernel-sysctl.sh" /\ run.step = 3
    BY <1>11 DEF UnattendedUpgrades, At
  <2>2. "20auto-upgrades" \in Items'  BY <1>11 DEF UnattendedUpgrades, ConfType, Items
  <2>3. QED  BY <2>1, <2>2 DEF LeftAt
<1>12. CASE InstallMicrocode \/ AddIommu
  <2>1. Current = "25-baremetal-tuning.sh"
    BY <1>12 DEF InstallMicrocode, AddIommu, At
  <2>2. QED  BY <2>1 DEF LeftAt
<1>13. CASE GpuIntel
  <2>1. /\ Current = "30-gpu-intel.sh"
        /\ "intel" \in Items' \/ (run.step = 1 /\ GoOn)
    BY <1>4, <1>13, <1>27 DEF GpuIntel
  <2>2. QED  BY <1>1, <2>1 DEF LeftAt
<1>14. CASE GpuMesa \/ GpuRocm
  <2>1. CASE GpuMesa
    <3>1. Current = "31-gpu-amd-mesa.sh" /\ "amd" \in Items'
      BY <1>4, <2>1 DEF GpuMesa
    <3>2. QED  BY <3>1 DEF LeftAt
  <2>2. CASE GpuRocm
    <3>1. /\ Current = "32-gpu-amd-rocm.sh"
          /\ "amd" \in Items' \/ (run.step = 1 /\ GoOn)
      BY <1>4, <1>27, <2>2 DEF GpuRocm
    <3>2. QED  BY <1>1, <3>1 DEF LeftAt
  <2>3. QED  BY <1>14, <2>1, <2>2
<1>15. CASE GpuNvidia  BY <1>15 DEF GpuNvidia, At, LeftAt
<1>16. CASE K8sRuntime
  <2>1. Current = "50-k8s-runtime.sh" /\ {"containerd.service", "kubelet.service"} \subseteq Items'
    BY <1>2, <1>16 DEF K8sRuntime
  <2>2. QED  BY <2>1 DEF LeftAt
<1>17. CASE K3sRuntime
  <2>1. Current = "52-k3s-runtime.sh" /\ K3sUnit(run.env.role) \in Items'
    BY <1>2, <1>17 DEF K3sRuntime
  <2>2. QED  BY <2>1 DEF LeftAt
<1>18. CASE Precache  BY <1>18 DEF Precache, At, LeftAt
<1>19. CASE InferenceMemory \/ InferenceProfile
  <2>1. Current = "60-ai-infer-runtime.sh" /\ (InferenceMemory \/ run.step = 2)
    BY <1>19 DEF InferenceMemory, InferenceProfile, At
  <2>2. InferenceMemory => "95-ai-memory.conf" \in Items'
    BY DEF InferenceMemory, ConfType, Items
  <2>3. QED  BY <1>1, <2>1, <2>2 DEF LeftAt
<1>20. CASE ImmutableTmp \/ PreventDrift
  <2>1. Current = "61-cloudnative-immutable.sh" /\ ((run.step = 1 /\ GoOn) \/ PreventDrift)
    BY <1>20 DEF ImmutableTmp, PreventDrift, At
  <2>2. PreventDrift => "99-immutable-prevent-drift" \in Items'
    BY DEF PreventDrift, ConfType, Items
  <2>3. QED  BY <1>1, <2>1, <2>2 DEF LeftAt
<1>21. CASE RunnerTmp  BY <1>21 DEF RunnerTmp, At, LeftAt
<1>22. CASE DropinSteps
  <2>1. CASE PostgresSysctl
    <3>1. Current = "70-cloudnative-pg.sh" /\ "70-cloudnative-pg.conf" \in Items'
      BY <1>3, <2>1 DEF PostgresSysctl
    <3>2. QED  BY <3>1 DEF LeftAt
  <2>2. CASE GatewaySysctl
    <3>1. Current = "76-appliance-gateway.sh" /\ "99-gateway.conf" \in Items'
      BY <1>3, <2>2 DEF GatewaySysctl
    <3>2. QED  BY <3>1 DEF LeftAt
  <2>3. CASE MediaSysctl
    <3>1. Current = "77-appliance-media.sh" /\ "99-media-streaming.conf" \in Items'
      BY <1>3, <2>3 DEF MediaSysctl
    <3>2. QED  BY <3>1 DEF LeftAt
  <2>4. CASE GameSysctl
    <3>1. Current = "79-appliance-game.sh" /\ "99-game-server.conf" \in Items'
      BY <1>3, <2>4 DEF GameSysctl
    <3>2. QED  BY <3>1 DEF LeftAt
  <2>5. QED  BY <1>22, <2>1, <2>2, <2>3, <2>4 DEF DropinSteps
<1>23. CASE VisionMedia \/ VisionCoral
  <2>1. Current = "75-appliance-vision.sh" /\ ((run.step = 1 /\ GoOn) \/ VisionCoral)
    BY <1>23 DEF VisionMedia, VisionCoral, At
  <2>2. VisionCoral => "coral" \in Items'
    BY DEF VisionCoral, LoadType, Items
  <2>3. QED  BY <1>1, <2>1, <2>2 DEF LeftAt
<1>24. CASE OtherScript  BY <1>24 DEF OtherScript, At, LeftAt
<1>25. CASE LockBuildUser \/ RefusePasswords \/ ForgetIdentity
  <2>1. Current = "99-cleanup.sh"
    BY <1>25, Zenon DEF LockBuildUser, RefusePasswords, ForgetIdentity, At
  <2>2. QED  BY <2>1 DEF LeftAt
<1>26. QED
  BY <1>5, <1>6, <1>7, <1>8, <1>9, <1>10, <1>11, <1>12, <1>13, <1>14, <1>15, <1>16,
     <1>17, <1>18, <1>19, <1>20, <1>21, <1>22, <1>23, <1>24, <1>25
  DEF Step, DropinSteps

LEMMA StepItems ==
  ASSUME PipelineTypeOK, ItemsInv, Step
  PROVE  ItemsInv'
<1>1. run \in RunType /\ conf \in ConfType /\ load \in LoadType
  BY DEF PipelineTypeOK
<1>2. run'.env = run.env
  BY <1>1, StepWalks DEF GoOn, EndScript, RunType
<1>3. LeftAt(run'.env) = LeftAt(run.env)  BY <1>2
<1>4. Items \subseteq Items'  BY <1>1, StepGrows DEF Items
<1>5. ASSUME NEW q \in LeftAt(run.env), Taken(q[1], q[2])'
      PROVE  q[3] \in Items'
  <2>1. CASE Taken(q[1], q[2])  BY <1>4, <1>5, <2>1 DEF ItemsInv
  <2>2. CASE ~Taken(q[1], q[2])
    <3>1. q[2] \in 1..3  BY DEF LeftAt
    <3>2. /\ Current = q[1] /\ run.step <= q[2]
          /\ run'.at = run.at => run.step = q[2]
      BY <1>5, <2>2, <3>1, StepTakes
    <3>3. QED  BY <1>1, <3>2, StepLeaves
  <2>3. QED  BY <2>1, <2>2
<1>6. QED  BY <1>3, <1>5 DEF ItemsInv

\* The steps of the scripts that write a file twice, and of those that undo
\* each other's work.
LEMMA StepsOfScript ==
  ASSUME Step
  PROVE  /\ Current = "00-base-strip.sh" => FastBoot \/ Essentials \/ HardenSsh
         /\ Current = "20-kernel-sysctl.sh" => Sysctl \/ KernelCmdline \/ UnattendedUpgrades
         /\ Current = "25-baremetal-tuning.sh" => InstallMicrocode \/ AddIommu
         /\ Current = "60-ai-infer-runtime.sh" => InferenceMemory \/ InferenceProfile
<1>1. CASE FastBoot \/ Essentials \/ HardenSsh
  BY <1>1 DEF FastBoot, Essentials, HardenSsh, At
<1>2. CASE Sysctl \/ UnattendedUpgrades
  BY <1>2 DEF Sysctl, UnattendedUpgrades, At
<1>3. CASE InstallMicrocode \/ InferenceMemory \/ ImmutableTmp \/ VisionMedia
  BY <1>3 DEF InstallMicrocode, InferenceMemory, ImmutableTmp, VisionMedia, At
<1>4. CASE LockBuildUser \/ RefusePasswords \/ ForgetIdentity
  <2>1. Current = "99-cleanup.sh"
    BY <1>4, Zenon DEF LockBuildUser, RefusePasswords, ForgetIdentity, At
  <2>2. QED  BY <2>1
<1>5. CASE NetworkTime \/ AddIommu  BY <1>5 DEF NetworkTime, InstallUnits, AddIommu, At
<1>6. CASE GpuIntel \/ GpuMesa \/ GpuRocm
  BY <1>6, DeviceSteps DEF DeviceScripts
<1>10. CASE GpuNvidia \/ K8sRuntime \/ K3sRuntime \/ Precache
  BY <1>10 DEF GpuNvidia, K8sRuntime, K3sRuntime, InstallUnits, Precache, At
<1>7. CASE InferenceProfile \/ PreventDrift \/ RunnerTmp \/ VisionCoral \/ OtherScript
  BY <1>7 DEF InferenceProfile, PreventDrift, RunnerTmp, VisionCoral, OtherScript, At
<1>8. CASE PostgresSysctl \/ GatewaySysctl \/ MediaSysctl \/ GameSysctl
  BY <1>8 DEF PostgresSysctl, GatewaySysctl, MediaSysctl, GameSysctl, WriteDropin, At
<1>9. CASE KernelCmdline  BY <1>9 DEF KernelCmdline, At
<1>11. QED
  BY <1>1, <1>2, <1>3, <1>4, <1>5, <1>6, <1>7, <1>8, <1>9, <1>10 DEF Step

\* The hardening is written whole; the cleanup, last in the list, adds its line
\* to it once.
LEMMA StepSsh ==
  ASSUME PipelineTypeOK, SshInv, Step
  PROVE  SshInv'
<1>0. /\ run \in RunType /\ conf \in ConfType /\ run.flavor \in Flavors
      /\ run.phase = "running" /\ Walking
  BY RunTyped, StepWalks DEF PipelineTypeOK
<1>1. /\ run.at \in 1..Len(Provisioners) /\ Current = Provisioners[run.at]
      /\ run.step \in Nat
  BY StepMoves DEF Current
<1>2. SUFFICES ASSUME Taken("00-base-strip.sh", 3)'
               PROVE  conf'.sshd = <<"hardened">> \o
                        (IF Taken("99-cleanup.sh", 2)'
                         THEN <<"PasswordAuthentication no">> ELSE <<>>)
  BY DEF SshInv
<1>3. CASE HardenSsh
  <2>1. Current = "00-base-strip.sh" /\ conf'.sshd = <<"hardened">>
    BY <1>0, <1>3 DEF HardenSsh, At, ConfType
  <2>2. ~Taken("99-cleanup.sh", 2)
    <3>1. SUFFICES ASSUME NEW i \in 1..Len(Provisioners),
                          Provisioners[i] = "99-cleanup.sh"
                   PROVE  i > run.at
      BY <1>1 DEF Taken
    <3>2. i = Len(Provisioners)  BY <1>0, <3>1, CatalogAssumption DEF Provisioners
    <3>3. i # run.at  BY <1>1, <2>1, <3>1
    <3>4. QED  BY <1>1, <3>2, <3>3
  <2>3. ~Taken("99-cleanup.sh", 2)'
    <3>1. Current # "99-cleanup.sh"  BY <2>1
    <3>2. QED  BY <2>2, <3>1, StepTakes
  <2>4. <<"hardened">> = <<"hardened">> \o <<>>  OBVIOUS
  <2>5. QED  BY <2>1, <2>3, <2>4
<1>4. CASE ~HardenSsh
  <2>1. Taken("00-base-strip.sh", 3)
    <3>1. SUFFICES ASSUME ~Taken("00-base-strip.sh", 3) PROVE FALSE  OBVIOUS
    <3>2. /\ Current = "00-base-strip.sh"
          /\ run'.at = run.at => run.step = 3
      BY <1>2, <3>1, StepTakes
    <3>3. FastBoot \/ Essentials  BY <1>4, <3>2, StepsOfScript
    <3>4. GoOn /\ run.step \in 1..2  BY <3>3 DEF FastBoot, Essentials, At
    <3>5. run'.at = run.at  BY <1>0, <3>4 DEF GoOn, RunType
    <3>6. QED  BY <3>2, <3>4, <3>5
  <2>2. CASE RefusePasswords
    <3>0. conf'.sshd = Append(conf.sshd, "PasswordAuthentication no")
      BY <1>0, <2>2 DEF RefusePasswords, ConfType
    <3>1. Current = "99-cleanup.sh" /\ run.step = 2 /\ GoOn
      BY <2>2 DEF RefusePasswords, At
    <3>2. ~Taken("99-cleanup.sh", 2)
      <4>1. run.step <= 2 /\ 2 \in 1..3  BY <3>1
      <4>2. ~Taken(Provisioners[run.at], 2)  BY <1>0, <1>1, <4>1, NotYetTaken
      <4>3. Provisioners[run.at] = "99-cleanup.sh"  BY <1>1, <3>1
      <4>4. QED  BY <4>2, <4>3
    <3>3. conf.sshd = <<"hardened">>
      <4>1. conf.sshd = <<"hardened">> \o <<>>  BY <2>1, <3>2 DEF SshInv
      <4>2. QED  BY <4>1
    <3>4. Taken("99-cleanup.sh", 2)'
      <4>1. run'.at = run.at /\ run'.step = 3
        <5>1. run' = [run EXCEPT !.step = 3]  BY <3>1 DEF GoOn
        <5>2. QED  BY <1>0, <5>1 DEF RunType
      <4>2. "99-cleanup.sh" \notin run.absent /\ ~run.skip
        BY <3>1, StepWalks
      <4>3. Provisioners' = Provisioners /\ run'.absent = run.absent /\ run'.skip = run.skip
        BY StepMoves
      <4>4. Provisioners'[run.at] = "99-cleanup.sh" /\ run.at \in 1..Len(Provisioners')
        BY <1>1, <3>1, <4>3
      <4>5. QED  BY <4>1, <4>2, <4>3, <4>4 DEF Taken
    <3>5. <<"hardened">> \o <<"PasswordAuthentication no">>
            = Append(<<"hardened">>, "PasswordAuthentication no")
      <4>1. <<"hardened">> \in Seq(SshLines) /\ "PasswordAuthentication no" \in SshLines
        BY DEF SshLines
      <4>2. QED  BY <4>1, AppendIsConcat
    <3>6. QED  BY <3>0, <3>3, <3>4, <3>5
  <2>3. CASE ~RefusePasswords
    <3>1. conf'.sshd = conf.sshd  BY <1>0, <1>4, <2>3, StepSshd
    <3>2. Taken("99-cleanup.sh", 2)' <=> Taken("99-cleanup.sh", 2)
      <4>1. Taken("99-cleanup.sh", 2) => Taken("99-cleanup.sh", 2)'  BY StepKeepsTaken
      <4>2. ASSUME Taken("99-cleanup.sh", 2)', ~Taken("99-cleanup.sh", 2) PROVE FALSE
        <5>1. /\ Current = "99-cleanup.sh" /\ run.step <= 2
              /\ run'.at = run.at => run.step = 2
          BY <4>2, StepTakes
        <5>2. run.step # 3  BY <1>1, <5>1
        <5>3. run'.at = run.at /\ run.step = 2  BY <1>1, <5>1, <5>2, StepMoves
        <5>4. LockBuildUser \/ ForgetIdentity
          BY <2>3, <5>1, CleanupSteps DEF Cleanup
        <5>5. run.step # 2
          <6>1. At({"99-cleanup.sh"}, 1) \/ At({"99-cleanup.sh"}, 3)
            BY <5>4 DEF LockBuildUser, ForgetIdentity
          <6>2. QED  BY <6>1 DEF At
        <5>6. QED  BY <5>3, <5>5
      <4>3. QED  BY <4>1, <4>2
    <3>3. QED  BY <2>1, <3>1, <3>2 DEF SshInv
  <2>4. QED  BY <2>2, <2>3
<1>5. QED  BY <1>3, <1>4

\* A step that is not step k of script s, and does not end s before it, leaves
\* what was taken of s as it was.
LEMMA StepKeepsNotTaken ==
  ASSUME PipelineTypeOK, Step, NEW s, NEW k \in 1..3,
         Current = s => run'.at = run.at /\ run.step # k
  PROVE  Taken(s, k)' <=> Taken(s, k)
<1>1. Taken(s, k) => Taken(s, k)'  BY StepKeepsTaken
<1>2. ASSUME Taken(s, k)', ~Taken(s, k) PROVE FALSE
  <2>1. Current = s  BY <1>2, StepTakes
  <2>2. run.step = k  BY <1>2, <2>1, StepTakes
  <2>3. QED  BY <2>1, <2>2
<1>3. QED  BY <1>1, <1>2

\* The rewrite of the command line comes before the addition to it, and after
\* the addition nothing writes it any more.
LEMMA StepLine ==
  ASSUME PipelineTypeOK, LineInv, Step
  PROVE  LineInv'
<1>0. /\ run \in RunType /\ boot \in BootType /\ run.flavor \in Flavors
      /\ run.phase = "running" /\ Walking
  BY RunTyped, StepWalks DEF PipelineTypeOK
<1>1. /\ run.at \in 1..Len(Provisioners) /\ Current = Provisioners[run.at]
      /\ run.step \in Nat /\ Len(Provisioners) \in Nat
  BY StepMoves DEF Current
<1>2. run'.env = run.env
  BY <1>0, StepWalks DEF GoOn, EndScript, RunType
<1>3. CASE KernelCmdline
  <2>1. Current = "20-kernel-sysctl.sh"  BY <1>3 DEF KernelCmdline, At
  <2>2. /\ boot'.grub = boot.grub
        /\ boot.grub => /\ boot'.profile = CmdlineProfile(run.env.kernel)
                        /\ boot'.iommu = <<>>
    BY <1>0, <1>3 DEF KernelCmdline, BootType
  <2>3. ~Taken("25-baremetal-tuning.sh", 2)
    <3>1. SUFFICES ASSUME NEW j \in 1..Len(Provisioners),
                          Provisioners[j] = "25-baremetal-tuning.sh"
                   PROVE  j > run.at
      BY <1>1 DEF Taken
    <3>2. PICK i \in 1..Len(Provisioners) :
            i < j /\ Provisioners[i] = "20-kernel-sysctl.sh"
      BY <1>0, <3>1, CatalogAssumption DEF Provisioners
    <3>3. \A m, n \in 1..Len(Provisioners) : Provisioners[m] = Provisioners[n] => m = n
      BY <1>0, CatalogAssumption DEF Provisioners
    <3>4. i = run.at  BY <1>1, <2>1, <3>2, <3>3
    <3>5. QED  BY <3>2, <3>4
  <2>4. ~Taken("25-baremetal-tuning.sh", 2)'
    <3>1. Current # "25-baremetal-tuning.sh"  BY <2>1
    <3>2. QED  BY <2>3, <3>1, StepTakes
  <2>5. QED  BY <1>2, <2>2, <2>4 DEF LineInv
<1>4. CASE ~KernelCmdline
  <2>1. Taken("20-kernel-sysctl.sh", 2)' => Taken("20-kernel-sysctl.sh", 2)
    <3>1. SUFFICES ASSUME Taken("20-kernel-sysctl.sh", 2)',
                          ~Taken("20-kernel-sysctl.sh", 2)
                   PROVE  FALSE
      OBVIOUS
    <3>2. /\ Current = "20-kernel-sysctl.sh" /\ run.step <= 2
          /\ run'.at = run.at => run.step = 2
      BY <3>1, StepTakes
    <3>3. run.step # 2  BY <1>4, <3>2, SecondIsRewrite
    <3>4. run'.at = run.at \/ run.step = 3  BY <3>2, StepMoves
    <3>5. QED  BY <3>2, <3>3, <3>4
  <2>2. CASE AddIommu
    <3>1. Current = "25-baremetal-tuning.sh" /\ run.step = 2 /\ EndScript
      BY <2>2 DEF AddIommu, At
    <3>2. /\ boot'.grub = boot.grub /\ boot'.profile = boot.profile
          /\ boot.grub => boot'.iommu = Append(boot.iommu, run.env.gen)
      BY <1>0, <2>2 DEF AddIommu, BootType
    <3>3. ~Taken("25-baremetal-tuning.sh", 2)
      <4>1. run.step <= 2 /\ 2 \in 1..3  BY <3>1
      <4>2. ~Taken(Provisioners[run.at], 2)  BY <1>0, <1>1, <4>1, NotYetTaken
      <4>3. Provisioners[run.at] = "25-baremetal-tuning.sh"  BY <1>1, <3>1
      <4>4. QED  BY <4>2, <4>3
    <3>4. Taken("25-baremetal-tuning.sh", 2)'
      <4>1. run'.at = run.at + 1
        <5>1. run' = [run EXCEPT !.at = @ + 1, !.step = 1]  BY <3>1 DEF EndScript
        <5>2. QED  BY <1>0, <5>1 DEF RunType
      <4>2. "25-baremetal-tuning.sh" \notin run.absent  BY <3>1, StepWalks
      <4>3. Provisioners' = Provisioners /\ run'.absent = run.absent  BY StepMoves
      <4>4. Provisioners'[run.at] = "25-baremetal-tuning.sh" /\ run.at \in 1..Len(Provisioners')
        BY <1>1, <3>1, <4>3
      <4>5. run.at < run'.at  BY <1>1, <4>1
      <4>6. QED  BY <4>2, <4>3, <4>4, <4>5 DEF Taken
    <3>5. Append(<<>>, run.env.gen) = <<run.env.gen>>
      <4>1. run.env.gen \in Generations  BY <1>0 DEF RunType, Envs, Generations
      <4>2. <<>> \in Seq(Generations)  BY EmptySeq
      <4>3. Append(<<>>, run.env.gen) = <<>> \o <<run.env.gen>>
        BY <4>1, <4>2, AppendIsConcat
      <4>4. QED  BY <4>3
    <3>6. QED  BY <1>2, <2>1, <3>2, <3>3, <3>4, <3>5 DEF LineInv
  <2>3. CASE ~AddIommu
    <3>1. /\ boot'.grub = boot.grub /\ boot'.profile = boot.profile
          /\ boot'.iommu = boot.iommu
      <4>1. CASE FastBoot  BY <1>0, <4>1 DEF FastBoot, BootType
      <4>2. CASE ~FastBoot  BY <1>4, <2>3, <4>2, StepBoot
      <4>3. QED  BY <4>1, <4>2
    <3>2. Taken("25-baremetal-tuning.sh", 2)' <=> Taken("25-baremetal-tuning.sh", 2)
      <4>1. ASSUME Current = "25-baremetal-tuning.sh"
            PROVE  run'.at = run.at /\ run.step # 2
        <5>1. InstallMicrocode  BY <2>3, <4>1, StepsOfScript
        <5>2. GoOn /\ run.step = 1  BY <5>1 DEF InstallMicrocode, At
        <5>3. run'.at = run.at  BY <1>0, <5>2 DEF GoOn, RunType
        <5>4. QED  BY <5>2, <5>3
      <4>2. QED  BY <4>1, StepKeepsNotTaken
    <3>3. QED  BY <1>2, <2>1, <3>1, <3>2 DEF LineInv
  <2>4. QED  BY <2>2, <2>3
<1>5. QED  BY <1>3, <1>4

\* What is described after the inference profile was written is no device that
\* it would select.
LEMMA StepSelect ==
  ASSUME PipelineTypeOK, SelectInv, Step
  PROVE  SelectInv'
<1>0. /\ run \in RunType /\ load \in LoadType /\ run.flavor \in Flavors
      /\ run.phase = "running" /\ Walking
  BY RunTyped, StepWalks DEF PipelineTypeOK
<1>1. /\ run.at \in 1..Len(Provisioners) /\ Current = Provisioners[run.at]
      /\ run.step \in Nat /\ Len(Provisioners) \in Nat
  BY StepMoves DEF Current
<1>2. CASE InferenceProfile
  <2>1. /\ load'.cdi = load.cdi /\ load'.runtimes = load.runtimes
        /\ load'.selectors = Selectors(load.cdi \cup load.runtimes)
    BY <1>0, <1>2 DEF InferenceProfile, LoadType
  <2>2. QED  BY <2>1 DEF SelectInv
<1>3. CASE ~InferenceProfile
  <2>1. Taken("60-ai-infer-runtime.sh", 2)' <=> Taken("60-ai-infer-runtime.sh", 2)
    <3>1. ASSUME Current = "60-ai-infer-runtime.sh"
          PROVE  run'.at = run.at /\ run.step # 2
      <4>1. InferenceMemory  BY <1>3, <3>1, StepsOfScript
      <4>2. GoOn /\ run.step = 1  BY <4>1 DEF InferenceMemory, At
      <4>3. run'.at = run.at  BY <1>0, <4>2 DEF GoOn, RunType
      <4>4. QED  BY <4>2, <4>3
    <3>2. QED  BY <3>1, StepKeepsNotTaken
  <2>2. CASE GpuIntel \/ GpuMesa \/ GpuRocm
    <3>1. Current \in DeviceScripts  BY <2>2, DeviceSteps
    <3>2. ~Taken("60-ai-infer-runtime.sh", 2)
      <4>1. SUFFICES ASSUME NEW j \in 1..Len(Provisioners),
                            Provisioners[j] = "60-ai-infer-runtime.sh"
                     PROVE  run.at < j
        BY <1>1 DEF Taken
      <4>2. \A i \in 1..Len(Provisioners) : Provisioners[i] \in DeviceScripts => i < j
        BY <1>0, <4>1, CatalogAssumption DEF Provisioners
      <4>3. QED  BY <1>1, <3>1, <4>2
    <3>3. QED  BY <2>1, <3>2 DEF SelectInv
  <2>3. CASE ~GpuIntel /\ ~GpuMesa /\ ~GpuRocm
    <3>1. /\ load'.selectors = load.selectors
          /\ Selectors(load'.cdi \cup load'.runtimes) = Selectors(load.cdi \cup load.runtimes)
      <4>1. CASE Essentials \/ NetworkTime \/ K8sRuntime \/ K3sRuntime
        BY <1>0, <4>1 DEF Essentials, NetworkTime, K8sRuntime, K3sRuntime, InstallUnits,
           LoadType
      <4>2. CASE GpuNvidia
        BY <1>0, <4>2 DEF GpuNvidia, LoadType, Selectors, Signs
      <4>3. CASE VisionCoral
        BY <1>0, <4>3 DEF VisionCoral, LoadType, Selectors, Signs
      <4>4. CASE VisionMedia  BY <1>0, <4>4 DEF VisionMedia, LoadType
      <4>5. CASE Precache
        <5>1. PICK got : load' = [load EXCEPT !.images = @ \cup got]
          BY <4>5 DEF Precache
        <5>2. QED  BY <1>0, <5>1 DEF LoadType
      <4>6. CASE /\ ~Essentials /\ ~NetworkTime /\ ~GpuNvidia
                 /\ ~K8sRuntime /\ ~K3sRuntime /\ ~Precache
                 /\ ~VisionMedia /\ ~VisionCoral
        BY <1>3, <2>3, <4>6, StepLoad
      <4>7. QED  BY <4>1, <4>2, <4>3, <4>4, <4>5, <4>6
    <3>2. QED  BY <2>1, <3>1 DEF SelectInv
  <2>4. QED  BY <2>2, <2>3
<1>4. QED  BY <1>2, <1>3

\* A host that stays as it is keeps what the run has taken.
LEMMA QuietLeaves ==
  ASSUME LeavesInv, UNCHANGED <<boot, conf, load>>, run'.env = run.env,
         run'.phase = "done" => run'.at > Len(Provisioners'),
         \A s : \A k \in 1..3 : Taken(s, k)' <=> Taken(s, k)
  PROVE  LeavesInv'
<1>1. 1 \in 1..3 /\ 2 \in 1..3 /\ 3 \in 1..3  OBVIOUS
<1>2. ItemsInv'
  <2>1. SUFFICES ASSUME NEW q \in LeftAt(run.env), Taken(q[1], q[2])'
                 PROVE  q[3] \in Items
    BY DEF ItemsInv, Items, LeftAt
  <2>2. q[2] \in 1..3  BY DEF LeftAt
  <2>3. Taken(q[1], q[2])  BY <2>1, <2>2
  <2>4. QED  BY <2>3 DEF LeavesInv, ItemsInv
<1>3. SshInv'  BY <1>1 DEF LeavesInv, SshInv
<1>4. LineInv'  BY <1>1 DEF LeavesInv, LineInv
<1>5. SelectInv'  BY <1>1 DEF LeavesInv, SelectInv
<1>6. QED  BY <1>2, <1>3, <1>4, <1>5 DEF LeavesInv

\* At the head of its list a run has taken nothing.
LEMMA NothingTaken ==
  ASSUME run.at = 1, run.step = 1, NEW s, NEW k \in 1..3
  PROVE  ~Taken(s, k)
  BY DEF Taken

LEMMA NothingLeft == run.at = 1 /\ run.step = 1 /\ run.phase # "done" => LeavesInv
<1> SUFFICES ASSUME run.at = 1, run.step = 1, run.phase # "done" PROVE LeavesInv
  OBVIOUS
<1>1. 1 \in 1..3 /\ 2 \in 1..3 /\ 3 \in 1..3  OBVIOUS
<1>2. ASSUME NEW q \in LeftAt(run.env) PROVE ~Taken(q[1], q[2])
  <2>1. q[2] \in 1..3  BY DEF LeftAt
  <2>2. QED  BY <2>1, NothingTaken
<1>3. ItemsInv  BY <1>2 DEF ItemsInv
<1>4. SshInv /\ LineInv /\ SelectInv
  BY <1>1, NothingTaken DEF SshInv, LineInv, SelectInv
<1>5. QED  BY <1>3, <1>4 DEF LeavesInv

LEMMA InitLeaves == Init => LeavesInv
<1> SUFFICES ASSUME Init PROVE LeavesInv  OBVIOUS
<1>1. run.at = 1 /\ run.step = 1 /\ run.phase = "idle"  BY DEF Init, Idle
<1>2. QED  BY <1>1, NothingLeft

\* A script that is passed over counts as not taken, before and after.
LEMMA PassOverTakes ==
  ASSUME PipelineTypeOK, PassOver
  PROVE  \A s : \A k \in 1..3 : Taken(s, k)' <=> Taken(s, k)
<1>0. run \in RunType  BY DEF PipelineTypeOK
<1>1. /\ Walking /\ EndScript
      /\ \/ Current \in run.absent
         \/ run.skip /\ Current = "99-cleanup.sh"
  BY DEF PassOver
<1>2. run' = [run EXCEPT !.at = @ + 1, !.step = 1]  BY <1>1 DEF EndScript
<1>3. /\ run'.at = run.at + 1 /\ run'.step = 1 /\ run'.flavor = run.flavor
      /\ run'.absent = run.absent /\ run'.skip = run.skip
  BY <1>0, <1>2 DEF RunType
<1>4. Provisioners' = Provisioners  BY <1>3 DEF Provisioners
<1>5. run.at \in 1..Len(Provisioners) /\ Len(Provisioners) \in Nat
  BY <1>0, <1>1, ListTyped DEF Walking, RunType, Positions
<1>6. TAKE s
<1>7. TAKE k \in 1..3
<1>8. CASE s = Current  BY <1>1, <1>3, <1>8 DEF Taken
<1>9. CASE s # Current
  <2>1. ASSUME NEW i \in 1..Len(Provisioners), Provisioners[i] = s
        PROVE  /\ (i < run'.at \/ (i = run'.at /\ run'.step > k)) <=> i < run.at
               /\ (i < run.at \/ (i = run.at /\ run.step > k)) <=> i < run.at
    <3>1. i # run.at  BY <1>9, <2>1 DEF Current
    <3>2. QED  BY <1>3, <1>5, <3>1
  <2>2. QED  BY <1>3, <1>4, <2>1 DEF Taken
<1>10. QED  BY <1>8, <1>9

LEMMA NextLeaves == PipelineTypeOK /\ LeavesInv /\ [Next]_vars => LeavesInv'
<1> SUFFICES ASSUME PipelineTypeOK, LeavesInv, [Next]_vars PROVE LeavesInv'
  OBVIOUS
<1>0. run \in RunType  BY DEF PipelineTypeOK
<1>1. CASE Build \/ Apply
  <2>1. PICK way, f, env, skip, absent : Begin(way, f, env, skip, absent)
    BY <1>1 DEF Build, Apply
  <2>2. run'.at = 1 /\ run'.step = 1 /\ run'.phase # "done"
    BY <2>1 DEF Begin
  <2>3. (run.at = 1 /\ run.step = 1 /\ run.phase # "done" => LeavesInv)'
    BY NothingLeft, PTL
  <2>4. QED  BY <2>2, <2>3
<1>2. CASE Reboot
  <2>1. run' = run /\ UNCHANGED <<boot, conf, load>>  BY <1>2 DEF Reboot
  <2>2. Provisioners' = Provisioners  BY <2>1 DEF Provisioners
  <2>3. \A s : \A k \in 1..3 : Taken(s, k)' <=> Taken(s, k)
    BY <2>1, <2>2 DEF Taken
  <2>4. run'.phase = "done" => run'.at > Len(Provisioners')
    BY <2>1, <2>2 DEF LeavesInv
  <2>5. QED  BY <2>1, <2>3, <2>4, QuietLeaves
<1>3. CASE PassOver
  <2>1. /\ Walking /\ EndScript /\ UNCHANGED <<boot, conf, load>>
        /\ \/ Current \in run.absent
           \/ run.skip /\ Current = "99-cleanup.sh"
    BY <1>3 DEF PassOver, host
  <2>2. run' = [run EXCEPT !.at = @ + 1, !.step = 1]  BY <2>1 DEF EndScript
  <2>3. /\ run'.at = run.at + 1 /\ run'.step = 1 /\ run'.phase = run.phase
        /\ run'.flavor = run.flavor /\ run'.absent = run.absent
        /\ run'.skip = run.skip /\ run'.env = run.env
    BY <1>0, <2>2 DEF RunType
  <2>4. run.phase = "running" /\ run.at <= Len(Provisioners)
    BY <2>1 DEF Walking
  <2>7. \A s : \A k \in 1..3 : Taken(s, k)' <=> Taken(s, k)
    BY <1>3, PassOverTakes
  <2>8. run'.phase # "done"  BY <2>3, <2>4
  <2>9. QED  BY <2>1, <2>3, <2>7, <2>8, QuietLeaves
<1>4. CASE Complete \/ Fail
  <2>1. UNCHANGED <<boot, conf, load>>  BY <1>4 DEF Complete, Fail
  <2>2. PICK phase \in {"done", "failed"} : run' = [run EXCEPT !.phase = phase]
    BY <1>4 DEF Complete, Fail
  <2>3. /\ run'.at = run.at /\ run'.step = run.step /\ run'.phase = phase
        /\ run'.flavor = run.flavor /\ run'.absent = run.absent
        /\ run'.skip = run.skip /\ run'.env = run.env
    BY <1>0, <2>2 DEF RunType
  <2>4. Provisioners' = Provisioners  BY <2>3 DEF Provisioners
  <2>5. \A s : \A k \in 1..3 : Taken(s, k)' <=> Taken(s, k)
    BY <2>3, <2>4 DEF Taken
  <2>6. run'.phase = "done" => run'.at > Len(Provisioners')
    <3>1. CASE Complete  BY <2>3, <2>4, <3>1 DEF Complete
    <3>2. CASE Fail
      <4>1. run' = [run EXCEPT !.phase = "failed"]  BY <3>2 DEF Fail
      <4>2. QED  BY <1>0, <4>1 DEF RunType
    <3>3. QED  BY <1>4, <3>1, <3>2
  <2>7. QED  BY <2>1, <2>3, <2>5, <2>6, QuietLeaves
<1>5. CASE Step
  <2>1. ItemsInv' /\ SshInv' /\ LineInv' /\ SelectInv'
    BY <1>5, StepItems, StepSsh, StepLine, StepSelect DEF LeavesInv
  <2>2. run'.phase # "done"  BY <1>5, RunTyped
  <2>3. QED  BY <2>1, <2>2 DEF LeavesInv
<1>6. CASE UNCHANGED vars
  <2>1. run' = run /\ UNCHANGED <<boot, conf, load>>  BY <1>6 DEF vars
  <2>2. Provisioners' = Provisioners  BY <2>1 DEF Provisioners
  <2>3. \A s : \A k \in 1..3 : Taken(s, k)' <=> Taken(s, k)
    BY <2>1, <2>2 DEF Taken
  <2>4. run'.phase = "done" => run'.at > Len(Provisioners')
    BY <2>1, <2>2 DEF LeavesInv
  <2>5. QED  BY <2>1, <2>3, <2>4, QuietLeaves
<1>7. QED  BY <1>1, <1>2, <1>3, <1>4, <1>5, <1>6 DEF Next
-----------------------------------------------------------------------------
(* Where what is left comes from.                                          *)

\* In every state, not only when a run has ended, the host has nothing that no
\* flavor of its history leaves; the run under way is part of that history.
OriginInv ==
  /\ run.phase # "idle" => <<run.flavor, run.env>> \in past.applied
  /\ Items \subseteq HistoryItems
  /\ load.selectors \subseteq Selectors(HistoryItems)
  /\ load.images \subseteq HistoryImages

\* The items of one script.
ItemsOf(s, env) ==
  {q[2] : q \in {p \in Certain \cup BestEffort : p[1] = s}}
  \cup {u \in {K3sUnit(env.role)} : s = "52-k3s-runtime.sh"}

\* What a script leaves is among what the list that has it leaves.
LEMMA ScriptLeft ==
  ASSUME NEW scripts, NEW s \in scripts, NEW env
  PROVE  ItemsOf(s, env) \subseteq LeftBy(Certain \cup BestEffort, scripts, env)
<1>1. SUFFICES ASSUME NEW x \in ItemsOf(s, env)
               PROVE  x \in LeftBy(Certain \cup BestEffort, scripts, env)
  OBVIOUS
<1>2. CASE x = K3sUnit(env.role) /\ s = "52-k3s-runtime.sh"
  BY <1>2 DEF LeftBy
<1>3. CASE \E q \in Certain \cup BestEffort : q[1] = s /\ x = q[2]
  BY <1>3 DEF LeftBy
<1>4. QED  BY <1>1, <1>2, <1>3 DEF ItemsOf

\* A step adds nothing that is not of its script.
LEMMA StepAdds ==
  ASSUME conf \in ConfType, load \in LoadType, Step
  PROVE  Items' \subseteq Items \cup ItemsOf(Current, run.env)
<1>1. ASSUME NEW script, NEW units, InstallUnits(script, units)
      PROVE  Current = script /\ Items' = Items \cup units
  BY <1>1 DEF InstallUnits, At, LoadType, Items
<1>2. ASSUME NEW script, NEW file, WriteDropin(script, file)
      PROVE  Current = script /\ Items' = Items \cup {file}
  BY <1>2 DEF WriteDropin, At, ConfType, Items
<1>3. ASSUME NEW script, NEW k, NEW vendor, DescribeDevice(script, k, vendor)
      PROVE  Current = script /\ Items' = Items \cup {vendor}
  BY <1>3 DEF DescribeDevice, At, LoadType, Items
<1>23. ASSUME NEW script, NEW runtime, InstallRuntime(script, runtime)
       PROVE  Current = script /\ Items' \subseteq Items \cup {runtime}
  BY <1>23 DEF InstallRuntime, At, LoadType, Items
<1>4. ASSUME NEW q \in Certain \cup BestEffort, q[1] = Current
      PROVE  q[2] \in ItemsOf(Current, run.env)
  BY <1>4 DEF ItemsOf
<1>5. CASE Essentials
  <2>1. Current = "00-base-strip.sh" /\ Items' = Items \cup {"qemu-guest-agent.service"}
    BY <1>5 DEF Essentials, At, LoadType, Items
  <2>2. <<"00-base-strip.sh", "qemu-guest-agent.service">> \in Certain  BY DEF Certain
  <2>3. QED  BY <1>4, <2>1, <2>2
<1>6. CASE NetworkTime
  <2>1. Current = "10-network-time.sh" /\ Items' = Items \cup {"chrony.service"}
    BY <1>1, <1>6 DEF NetworkTime
  <2>2. <<"10-network-time.sh", "chrony.service">> \in Certain  BY DEF Certain
  <2>3. QED  BY <1>4, <2>1, <2>2
<1>7. CASE Sysctl
  <2>1. Current = "20-kernel-sysctl.sh" /\ Items' = Items \cup {"99-lusoris.conf"}
    BY <1>7 DEF Sysctl, At, ConfType, Items
  <2>2. <<"20-kernel-sysctl.sh", "99-lusoris.conf">> \in Certain  BY DEF Certain
  <2>3. QED  BY <1>4, <2>1, <2>2
<1>8. CASE UnattendedUpgrades
  <2>1. Current = "20-kernel-sysctl.sh" /\ Items' = Items \cup {"20auto-upgrades"}
    BY <1>8 DEF UnattendedUpgrades, At, ConfType, Items
  <2>2. <<"20-kernel-sysctl.sh", "20auto-upgrades">> \in Certain  BY DEF Certain
  <2>3. QED  BY <1>4, <2>1, <2>2
<1>9. CASE GpuIntel
  <2>1. Current = "30-gpu-intel.sh" /\ Items' \subseteq Items \cup {"intel", "levelzero"}
    BY <1>3, <1>9, <1>23 DEF GpuIntel
  <2>2. /\ <<"30-gpu-intel.sh", "intel">> \in Certain
        /\ <<"30-gpu-intel.sh", "levelzero">> \in BestEffort
    BY DEF Certain, BestEffort
  <2>3. QED  BY <1>4, <2>1, <2>2
<1>10. CASE GpuMesa
  <2>1. Current = "31-gpu-amd-mesa.sh" /\ Items' = Items \cup {"amd"}
    BY <1>3, <1>10 DEF GpuMesa
  <2>2. <<"31-gpu-amd-mesa.sh", "amd">> \in Certain  BY DEF Certain
  <2>3. QED  BY <1>4, <2>1, <2>2
<1>24. CASE GpuRocm
  <2>1. Current = "32-gpu-amd-rocm.sh" /\ Items' \subseteq Items \cup {"amd", "rocm"}
    BY <1>3, <1>23, <1>24 DEF GpuRocm
  <2>2. /\ <<"32-gpu-amd-rocm.sh", "amd">> \in Certain
        /\ <<"32-gpu-amd-rocm.sh", "rocm">> \in BestEffort
    BY DEF Certain, BestEffort
  <2>3. QED  BY <1>4, <2>1, <2>2
<1>11. CASE GpuNvidia
  <2>1. /\ Current \in {"33-gpu-nvidia-legacy.sh", "34-gpu-nvidia-mainstream.sh",
              "35-gpu-nvidia-datacenter.sh", "36-gpu-nvidia-bleeding.sh",
              "37-gpu-nvidia-modern.sh"}
        /\ Items' \subseteq Items \cup {"nvidia"}
    BY <1>11 DEF GpuNvidia, At, LoadType, Items
  <2>2. <<Current, "nvidia">> \in BestEffort  BY <2>1 DEF BestEffort
  <2>3. QED  BY <1>4, <2>1, <2>2
<1>12. CASE K8sRuntime
  <2>1. /\ Current = "50-k8s-runtime.sh"
        /\ Items' = Items \cup {"containerd.service", "kubelet.service"}
    BY <1>1, <1>12 DEF K8sRuntime
  <2>2. /\ <<"50-k8s-runtime.sh", "containerd.service">> \in Certain
        /\ <<"50-k8s-runtime.sh", "kubelet.service">> \in Certain
    BY DEF Certain
  <2>3. QED  BY <1>4, <2>1, <2>2
<1>13. CASE K3sRuntime
  <2>1. Current = "52-k3s-runtime.sh" /\ Items' = Items \cup {K3sUnit(run.env.role)}
    BY <1>1, <1>13 DEF K3sRuntime
  <2>2. QED  BY <2>1 DEF ItemsOf
<1>14. CASE InferenceMemory
  <2>1. Current = "60-ai-infer-runtime.sh" /\ Items' = Items \cup {"95-ai-memory.conf"}
    BY <1>14 DEF InferenceMemory, At, ConfType, Items
  <2>2. <<"60-ai-infer-runtime.sh", "95-ai-memory.conf">> \in Certain  BY DEF Certain
  <2>3. QED  BY <1>4, <2>1, <2>2
<1>15. CASE PreventDrift
  <2>1. /\ Current = "61-cloudnative-immutable.sh"
        /\ Items' = Items \cup {"99-immutable-prevent-drift"}
    BY <1>15 DEF PreventDrift, At, ConfType, Items
  <2>2. <<"61-cloudnative-immutable.sh", "99-immutable-prevent-drift">> \in Certain
    BY DEF Certain
  <2>3. QED  BY <1>4, <2>1, <2>2
<1>16. CASE VisionCoral
  <2>1. Current = "75-appliance-vision.sh" /\ Items' = Items \cup {"coral"}
    BY <1>16 DEF VisionCoral, At, LoadType, Items
  <2>2. <<"75-appliance-vision.sh", "coral">> \in Certain  BY DEF Certain
  <2>3. QED  BY <1>4, <2>1, <2>2
<1>17. CASE DropinSteps
  <2>1. PICK p \in Certain : WriteDropin(p[1], p[2])
    <3>1. /\ <<"70-cloudnative-pg.sh", "70-cloudnative-pg.conf">> \in Certain
          /\ <<"76-appliance-gateway.sh", "99-gateway.conf">> \in Certain
          /\ <<"77-appliance-media.sh", "99-media-streaming.conf">> \in Certain
          /\ <<"79-appliance-game.sh", "99-game-server.conf">> \in Certain
      BY DEF Certain
    <3>2. QED
      BY <1>17, <3>1 DEF DropinSteps, PostgresSysctl, GatewaySysctl, MediaSysctl, GameSysctl
  <2>2. QED  BY <1>2, <1>4, <2>1
<1>18. CASE FastBoot \/ KernelCmdline \/ AddIommu \/ OtherScript \/ LockBuildUser
            \/ ForgetIdentity
  <2>1. conf' = conf /\ load' = load
    BY <1>18 DEF FastBoot, KernelCmdline, AddIommu, OtherScript, LockBuildUser,
       ForgetIdentity, host
  <2>2. QED  BY <2>1 DEF Items
<1>19. CASE HardenSsh \/ RefusePasswords \/ InstallMicrocode \/ ImmutableTmp \/ RunnerTmp
  <2>1. load' = load /\ conf'.dropins = conf.dropins /\ conf'.apt = conf.apt
    BY <1>19 DEF HardenSsh, RefusePasswords, InstallMicrocode, ImmutableTmp, RunnerTmp,
       MountTmp, ConfType
  <2>2. QED  BY <2>1 DEF Items
<1>20. CASE Precache
  <2>1. PICK got : load' = [load EXCEPT !.images = @ \cup got] /\ conf' = conf
    BY <1>20 DEF Precache
  <2>2. QED  BY <2>1 DEF LoadType, Items
<1>21. CASE InferenceProfile \/ VisionMedia
  BY <1>21 DEF InferenceProfile, VisionMedia, LoadType, Items
<1>22. QED
  BY <1>5, <1>6, <1>7, <1>8, <1>9, <1>10, <1>11, <1>12, <1>13, <1>14, <1>15, <1>16,
     <1>17, <1>18, <1>19, <1>20, <1>21, <1>24
  DEF Step, DropinSteps

\* The more there is to find, the more is selected.
LEMMA SelectorsGrow ==
  ASSUME NEW found, NEW more, found \subseteq more
  PROVE  Selectors(found) \subseteq Selectors(more)
  BY DEF Selectors

\* Only the pulls of a kubernetes list bring images, and only those of the run;
\* the inference profile selects what the host has.
LEMMA StepPulls ==
  ASSUME load \in LoadType, Step
  PROVE  /\ load'.images \subseteq
              load.images \cup Images(run.env, Catalog[run.flavor].Vendor)
         /\ load'.selectors \subseteq load.selectors \cup Selectors(Items)
<1>1. CASE Essentials \/ NetworkTime \/ K8sRuntime \/ K3sRuntime
  BY <1>1 DEF Essentials, NetworkTime, K8sRuntime, K3sRuntime, InstallUnits, LoadType
<1>2. CASE GpuIntel \/ GpuMesa \/ GpuRocm \/ VisionCoral
  <2>1. ASSUME NEW script, NEW runtime, InstallRuntime(script, runtime)
        PROVE  load'.images = load.images /\ load'.selectors = load.selectors
    BY <2>1 DEF InstallRuntime, LoadType
  <2>2. ASSUME NEW script, NEW k, NEW vendor, DescribeDevice(script, k, vendor)
        PROVE  load'.images = load.images /\ load'.selectors = load.selectors
    BY <2>2 DEF DescribeDevice, LoadType
  <2>3. CASE VisionCoral  BY <2>3 DEF VisionCoral, LoadType
  <2>4. QED  BY <1>2, <2>1, <2>2, <2>3 DEF GpuIntel, GpuMesa, GpuRocm
<1>3. CASE GpuNvidia  BY <1>3 DEF GpuNvidia, LoadType
<1>4. CASE Precache
  <2>1. PICK got \in SUBSET Images(run.env, Catalog[run.flavor].Vendor) :
          load' = [load EXCEPT !.images = @ \cup got]
    BY <1>4 DEF Precache
  <2>2. load'.images = load.images \cup got /\ load'.selectors = load.selectors
    BY <2>1 DEF LoadType
  <2>3. QED  BY <2>2
<1>5. CASE InferenceProfile \/ VisionMedia
  <2>1. CASE InferenceProfile
    <3>1. /\ load'.images = load.images
          /\ load'.selectors = Selectors(load.cdi \cup load.runtimes)
      BY <2>1 DEF InferenceProfile, LoadType
    <3>2. load.cdi \cup load.runtimes \subseteq Items  BY DEF Items
    <3>3. QED  BY <3>1, <3>2, SelectorsGrow
  <2>2. CASE VisionMedia  BY <2>2 DEF VisionMedia, LoadType
  <2>3. QED  BY <1>5, <2>1, <2>2
<1>6. CASE /\ ~Essentials /\ ~NetworkTime /\ ~GpuIntel /\ ~GpuMesa /\ ~GpuRocm /\ ~GpuNvidia
           /\ ~K8sRuntime /\ ~K3sRuntime /\ ~Precache /\ ~InferenceProfile
           /\ ~VisionMedia /\ ~VisionCoral
  BY <1>6, StepLoad
<1>7. QED  BY <1>1, <1>2, <1>3, <1>4, <1>5, <1>6

LEMMA InitOrigin == Init => OriginInv
<1> SUFFICES ASSUME Init PROVE OriginInv  OBVIOUS
<1>1. load.selectors = {} /\ load.images = {} /\ run.phase = "idle"
  BY DEF Init, Idle
<1>2. Items = {}  BY DEF Init, Items
<1>3. QED  BY <1>1, <1>2 DEF OriginInv

\* What the flavor of the run leaves is part of what the history leaves.
LEMMA RunInHistory ==
  ASSUME <<run.flavor, run.env>> \in past.applied
  PROVE  /\ LeftBy(Certain \cup BestEffort, ScriptsOf(Catalog[run.flavor]), run.env)
              \subseteq HistoryItems
         /\ Images(run.env, Catalog[run.flavor].Vendor) \subseteq HistoryImages
<1> DEFINE a == <<run.flavor, run.env>>
<1>1. a[1] = run.flavor /\ a[2] = run.env  OBVIOUS
<1>2. a \in past.applied  OBVIOUS
<1> HIDE DEF a
<1>3. /\ LeftBy(Certain \cup BestEffort, ScriptsOf(Catalog[a[1]]), a[2]) \subseteq HistoryItems
      /\ Images(a[2], Catalog[a[1]].Vendor) \subseteq HistoryImages
  BY <1>2 DEF HistoryItems, HistoryImages
<1>4. QED  BY <1>1, <1>3

LEMMA NextOrigin == PipelineTypeOK /\ OriginInv /\ [Next]_vars => OriginInv'
<1> SUFFICES ASSUME PipelineTypeOK, OriginInv, [Next]_vars PROVE OriginInv'
  OBVIOUS
<1>0. /\ run \in RunType /\ conf \in ConfType /\ load \in LoadType
      /\ past \in PastType
  BY DEF PipelineTypeOK
<1>1. CASE Build \/ Apply
  <2>1. PICK way, f, env, skip, absent : Begin(way, f, env, skip, absent)
    BY <1>1 DEF Build, Apply
  <2>2. run'.flavor = f /\ run'.env = env  BY <2>1 DEF Begin
  <2>3. past'.applied = past.applied \cup {<<f, env>>}
    BY <1>0, <2>1 DEF Begin, PastType
  <2>4. conf' = conf /\ load' = load  BY <2>1 DEF Begin, host
  <2>5. HistoryItems \subseteq HistoryItems'  BY <2>3 DEF HistoryItems
  <2>6. HistoryImages \subseteq HistoryImages'  BY <2>3 DEF HistoryImages
  <2>7. Items' = Items /\ Selectors(HistoryItems) \subseteq Selectors(HistoryItems')
    BY <2>4, <2>5, SelectorsGrow DEF Items
  <2>8. <<run'.flavor, run'.env>> \in past'.applied  BY <2>2, <2>3
  <2>9. QED  BY <2>4, <2>5, <2>6, <2>7, <2>8 DEF OriginInv
<1>2. CASE Reboot \/ UNCHANGED vars
  <2>1. run' = run /\ past' = past /\ conf' = conf /\ load' = load
    BY <1>2 DEF Reboot, vars
  <2>2. QED  BY <2>1 DEF OriginInv, Items, HistoryItems, HistoryImages
<1>3. CASE PassOver \/ Complete \/ Fail
  <2>1. past' = past /\ conf' = conf /\ load' = load
    BY <1>3 DEF PassOver, Complete, Fail, EndScript, host
  <2>2. run'.flavor = run.flavor /\ run'.env = run.env
    BY <1>0, <1>3 DEF PassOver, Complete, Fail, EndScript, RunType
  <2>3. run.phase = "running"  BY <1>3 DEF PassOver, Complete, Fail, Walking
  <2>4. QED
    BY <2>1, <2>2, <2>3 DEF OriginInv, Items, HistoryItems, HistoryImages
<1>4. CASE Step
  <2>1. past' = past /\ run'.flavor = run.flavor /\ run.phase = "running"
    BY <1>4, RunTyped
  <2>2. run'.env = run.env
    BY <1>0, <1>4, StepWalks DEF GoOn, EndScript, RunType
  <2>3. HistoryItems' = HistoryItems /\ HistoryImages' = HistoryImages
    BY <2>1 DEF HistoryItems, HistoryImages
  <2>4. <<run.flavor, run.env>> \in past.applied  BY <2>1 DEF OriginInv
  <2>5. Current \in ScriptsOf(Catalog[run.flavor])
    <3>1. run.at \in 1..Len(Provisioners) /\ Provisioners \in Seq(Scripts)
      BY <1>4, <2>1, StepMoves, ListTyped
    <3>2. run.at \in DOMAIN Provisioners  BY <3>1, LenProperties
    <3>3. QED  BY <3>2 DEF ScriptsOf, Current, Provisioners
  <2>6. Items' \subseteq HistoryItems
    <3>1. ItemsOf(Current, run.env)
            \subseteq LeftBy(Certain \cup BestEffort, ScriptsOf(Catalog[run.flavor]), run.env)
      BY <2>5, ScriptLeft
    <3>2. Items' \subseteq Items \cup ItemsOf(Current, run.env)
      BY <1>0, <1>4, StepAdds
    <3>3. QED  BY <2>4, <3>1, <3>2, RunInHistory DEF OriginInv
  <2>7. load'.images \subseteq HistoryImages
    BY <1>0, <1>4, <2>4, StepPulls, RunInHistory DEF OriginInv
  <2>8. load'.selectors \subseteq Selectors(HistoryItems)
    <3>1. load'.selectors \subseteq load.selectors \cup Selectors(Items)
      BY <1>0, <1>4, StepPulls
    <3>2. Selectors(Items) \subseteq Selectors(HistoryItems)
      BY SelectorsGrow DEF OriginInv
    <3>3. QED  BY <3>1, <3>2 DEF OriginInv
  <2>9. QED  BY <2>1, <2>2, <2>3, <2>4, <2>6, <2>7, <2>8 DEF OriginInv
<1>5. QED  BY <1>1, <1>2, <1>3, <1>4 DEF Next
-----------------------------------------------------------------------------
(* Convergence.                                                            *)

\* At the end of a run all steps of the scripts that were there are taken.
LEMMA EndTakesAll ==
  ASSUME PipelineTypeOK, LeavesInv, Settled
  PROVE  \A s : \A k \in 1..3 : Taken(s, k) <=> s \in Ran
<1>1. /\ Provisioners \in Seq(Scripts) /\ Len(Provisioners) \in Nat
      /\ run.at \in Nat /\ run.at > Len(Provisioners)
  BY ListTyped DEF PipelineTypeOK, LeavesInv, Settled, RunType, Positions
<1>2. DOMAIN Provisioners = 1..Len(Provisioners)  BY <1>1, LenProperties
<1>3. TAKE s
<1>4. TAKE k \in 1..3
<1>5. s \in Ran <=> /\ \E i \in 1..Len(Provisioners) : Provisioners[i] = s
                    /\ s \notin run.absent
                    /\ ~(run.skip /\ s = "99-cleanup.sh")
  BY <1>2 DEF Ran, ScriptsOf, Provisioners
<1>6. \A i \in 1..Len(Provisioners) : i < run.at  BY <1>1
<1>7. QED  BY <1>5, <1>6 DEF Taken

LEMMA ConvergedAtEnd == PipelineTypeOK /\ LeavesInv /\ OriginInv => Converges
<1> SUFFICES ASSUME PipelineTypeOK, LeavesInv, OriginInv PROVE Converges
  OBVIOUS
<1>1. ASSUME Settled
      PROVE  LeftBy(Certain, Ran, run.env) \subseteq Items
  <2>0. 1 \in 1..3 /\ 2 \in 1..3 /\ 3 \in 1..3  OBVIOUS
  <2>1. ASSUME NEW p \in Certain, p[1] \in Ran PROVE p[2] \in Items
    <3>1. PICK k \in 1..3 : <<p[1], k, p[2]>> \in LeftAt(run.env)
      BY <2>0 DEF Certain, LeftAt
    <3>2. Taken(p[1], k)  BY <1>1, <2>1, EndTakesAll
    <3>3. QED  BY <3>1, <3>2 DEF LeavesInv, ItemsInv
  <2>2. ASSUME "52-k3s-runtime.sh" \in Ran PROVE K3sUnit(run.env.role) \in Items
    <3>1. <<"52-k3s-runtime.sh", 1, K3sUnit(run.env.role)>> \in LeftAt(run.env)
      BY DEF LeftAt
    <3>2. Taken("52-k3s-runtime.sh", 1)  BY <1>1, <2>0, <2>2, EndTakesAll
    <3>3. QED  BY <3>1, <3>2 DEF LeavesInv, ItemsInv
  <2>3. QED  BY <2>1, <2>2 DEF LeftBy
<1>2. ASSUME Settled, "00-base-strip.sh" \in Ran
      PROVE  conf.sshd = <<"hardened">> \o (IF "99-cleanup.sh" \in Ran
               THEN <<"PasswordAuthentication no">> ELSE <<>>)
  <2>1. 2 \in 1..3 /\ 3 \in 1..3  OBVIOUS
  <2>2. Taken("00-base-strip.sh", 3)  BY <1>2, <2>1, EndTakesAll
  <2>3. Taken("99-cleanup.sh", 2) <=> "99-cleanup.sh" \in Ran
    BY <1>2, <2>1, EndTakesAll
  <2>4. QED  BY <2>2, <2>3 DEF LeavesInv, SshInv
<1>3. ASSUME Settled, boot.grub,
             {"20-kernel-sysctl.sh", "25-baremetal-tuning.sh"} \subseteq Ran
      PROVE  /\ boot.profile = CmdlineProfile(run.env.kernel)
             /\ boot.iommu = <<run.env.gen>>
  BY <1>3, EndTakesAll DEF LeavesInv, LineInv
<1>4. ASSUME Settled, "60-ai-infer-runtime.sh" \in Ran
      PROVE  load.selectors = Selectors(load.cdi \cup load.runtimes)
  BY <1>4, EndTakesAll DEF LeavesInv, SelectInv
<1>5. /\ Items \subseteq HistoryItems
      /\ load.selectors \subseteq Selectors(HistoryItems)
      /\ load.images \subseteq HistoryImages
  BY DEF OriginInv
<1>6. QED  BY <1>1, <1>2, <1>3, <1>4, <1>5 DEF Converges

\* Over any number of runs of any flavors of any catalog, each failing wherever
\* it may, a run that completes leaves the files, units, SSH settings and command
\* line its scripts stand for and selects the GPUs the host has in the end; and a
\* host never has anything that no flavor put on it accounts for.
THEOREM RunsConverge == Spec => []Converges
  BY ConvergedAtEnd, InitTyped, NextTyped, InitLeaves, NextLeaves, InitOrigin,
     NextOrigin, PTL DEF Spec
=============================================================================
