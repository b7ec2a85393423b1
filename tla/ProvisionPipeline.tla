-------------------------- MODULE ProvisionPipeline --------------------------
(***************************************************************************)
(* One host and the flavors that are put on it.  A flavor is a list of     *)
(* provisioner scripts, run in order either by Packer in a new virtual     *)
(* machine (packer/builds.pkr.hcl) or on a running host by the script that *)
(* GenerateApplyScript writes (pkg/imageless/imageless.go).  Every script  *)
(* is set -euo pipefail, so a command that fails ends its script and the   *)
(* run; commands followed by || true are the best-effort ones.             *)
(*                                                                         *)
(* A script is cut into the steps between which the host can be left: each *)
(* step has one lasting effect that the properties tell apart, and Fail    *)
(* may end a run before any of them.  A step with sudo needs the rule of   *)
(* cloud-init (seal.sudo) or rights from elsewhere (seal.other).           *)
(*                                                                         *)
(*   boot  /etc/default/grub: is it there, how often the recordfail line   *)
(*         was appended, which profile wrote the command line, and which   *)
(*         IOMMU groups were added to it since                             *)
(*   conf  files of /etc that do not depend on the workload                *)
(*   load  what the workload scripts leave                                 *)
(*   seal  rights and identity: what the cleanup takes away and the next   *)
(*         boot may give back                                              *)
(*   run   the run under way, or the last one                              *)
(*   past  history: the runs begun, the flavors they were for and the      *)
(*         scripts some run did not find                                   *)
(***************************************************************************)
EXTENDS Integers, Sequences, FiniteSets

CONSTANTS
  Catalog,      \* the flavor of an identifier (flavors.flavorIndex)
  NextFlavors,  \* bound: the flavors that may follow on a host a flavor was put on
  MayMiss,      \* bound: the scripts the local workspace may lack
  MaxRuns       \* bound on the runs on one host

VARIABLES boot, conf, load, seal, run, past

vars == <<boot, conf, load, seal, run, past>>
host == <<boot, conf, load, seal>>

Flavors == DOMAIN Catalog
Scripts == {"00-base-strip.sh", "05-hypervisor-agents.sh", "10-network-time.sh",
  "20-kernel-sysctl.sh", "25-baremetal-tuning.sh", "30-gpu-intel.sh",
  "31-gpu-amd-mesa.sh", "32-gpu-amd-rocm.sh", "33-gpu-nvidia-legacy.sh",
  "34-gpu-nvidia-mainstream.sh", "35-gpu-nvidia-datacenter.sh",
  "36-gpu-nvidia-bleeding.sh", "37-gpu-nvidia-modern.sh", "40-docker-runtime.sh",
  "41-podman-runtime.sh", "50-k8s-runtime.sh", "52-k3s-runtime.sh",
  "55-k8s-precache.sh", "60-ai-infer-runtime.sh", "61-cloudnative-immutable.sh",
  "65-storage-cncf.sh", "70-cloudnative-pg.sh", "75-appliance-vision.sh",
  "76-appliance-gateway.sh", "77-appliance-media.sh", "78-appliance-runner.sh",
  "79-appliance-game.sh", "99-cleanup.sh"}

\* What the proofs use of the catalog: its profiles are known, no list names a
\* script twice, and the order of a list is such that the command line is
\* written (20) before the IOMMU group is added to it (25), the devices are
\* described (30 to 32) before the inference profile selects them (60), and
\* the cleanup comes last.
Profiles == {"generic", "ai-infer", "baremetal", "k8s"}
Preheats == {"lean", "cilium", "calico", "flannel"}
Vendors == {"none", "intel", "amd", "nvidia"}
DeviceScripts == {"30-gpu-intel.sh", "31-gpu-amd-mesa.sh", "32-gpu-amd-rocm.sh"}
ASSUME CatalogAssumption ==
  \A f \in Flavors :
    LET s == Catalog[f].Provisioners IN
    /\ Catalog[f].KernelProfile \in Profiles
    /\ Catalog[f].PreheatProfile \in Preheats \cup {""}
    /\ Catalog[f].Vendor \in Vendors
    /\ s \in Seq(Scripts)
    /\ \A i, j \in 1..Len(s) : s[i] = s[j] => i = j
    /\ \A j \in 1..Len(s) :
         /\ s[j] = "25-baremetal-tuning.sh" =>
              \E i \in 1..Len(s) : i < j /\ s[i] = "20-kernel-sysctl.sh"
         /\ s[j] = "60-ai-infer-runtime.sh" =>
              \A i \in 1..Len(s) : s[i] \in DeviceScripts => i < j
         /\ s[j] = "99-cleanup.sh" => j = Len(s)
ASSUME BoundsAssumption ==
  /\ NextFlavors \in [Flavors -> SUBSET Flavors]
  /\ MayMiss \subseteq Scripts
  /\ MaxRuns \in Nat
-----------------------------------------------------------------------------
(* The environment a run gives its scripts.                                *)

\* Mutant of ApplyEnv: the kernel profile is not exported.
ApplyEnvNoProfile(f, role) ==
  [kernel |-> "generic", gen |-> "generic", role |-> role,
   preheat |-> IF f.PreheatProfile = "" THEN "lean" ELSE f.PreheatProfile]

\* The exports of the generated script.  BM_GEN and K3S_ROLE are not among
\* them: the scripts fall back to generic, and to the caller's role or agent.
ApplyEnv(f, role) ==
  [kernel |-> f.KernelProfile, gen |-> "generic", role |-> role,
   preheat |-> IF f.PreheatProfile = "" THEN "lean" ELSE f.PreheatProfile]

\* The environment_vars of the build blocks, defaults of the scripts included.
BuildEnv(f) ==
  [kernel |->
     CASE f.TierID \in {"base", "containers"} -> "generic"
       [] f.TierID \in {"kubernetes", "k3s"} \/ f.ID = "cloudnative-k8s" -> "k8s"
       [] f.TierID = "ai-infer" \/ f.ID = "cloudnative-pg" -> "ai-infer"
       [] f.ID \in {"cloudnative-storage", "appliance-media-server"} -> "baremetal"
       [] OTHER -> "generic",
   gen |->
     CASE f.Vendor = "intel" \/ f.ID = "appliance-vision-nvr" -> "intel"
       [] f.Vendor = "amd" -> "amd"
       [] OTHER -> "generic",
   role |-> IF f.ID = "k3s-server-generic" THEN "server" ELSE "agent",
   preheat |->
     CASE f.ID = "k8s-node-cilium" -> "cilium"
       [] f.ID = "k8s-node-calico" -> "calico"
       [] f.ID = "k8s-node-flannel" -> "flannel"
       [] OTHER -> "lean"]

\* The scripts of the build blocks, which repeat the catalog's lists by hand:
\* the common five, a GPU script, the scripts of the workload, the cleanup.
BuildGpu(f) ==
  CASE f.Vendor = "intel" -> <<"30-gpu-intel.sh">>
    [] f.ID = "base-amd" -> <<"31-gpu-amd-mesa.sh">>
    [] f.Vendor = "amd" /\ f.ID # "base-amd" -> <<"32-gpu-amd-rocm.sh">>
    [] f.ID = "base-nvidia-legacy" -> <<"33-gpu-nvidia-legacy.sh">>
    [] f.ID \in {"base-nvidia-mainstream", "docker-nvidia", "k8s-node-nvidia",
               "k3s-agent-nvidia", "ai-infer-nvidia"} -> <<"34-gpu-nvidia-mainstream.sh">>
    [] f.ID = "base-nvidia-datacenter" -> <<"35-gpu-nvidia-datacenter.sh">>
    [] f.ID \in {"base-nvidia-bleeding", "docker-nvidia-bleeding", "k8s-node-nvidia-bleeding",
               "ai-infer-nvidia-bleeding"} -> <<"36-gpu-nvidia-bleeding.sh">>
    [] f.ID \in {"base-nvidia-modern", "docker-nvidia-modern", "k8s-node-nvidia-modern",
               "ai-infer-nvidia-modern"} -> <<"37-gpu-nvidia-modern.sh">>
    [] OTHER -> <<>>
BuildWorkload(f) ==
  CASE f.ID = "podman-generic" -> <<"41-podman-runtime.sh">>
    [] f.TierID = "containers" /\ f.ID # "podman-generic" -> <<"40-docker-runtime.sh">>
    [] f.TierID = "kubernetes" -> <<"50-k8s-runtime.sh", "55-k8s-precache.sh">>
    [] f.TierID = "k3s" -> <<"52-k3s-runtime.sh">>
    [] f.TierID = "ai-infer" -> <<"40-docker-runtime.sh", "60-ai-infer-runtime.sh">>
    [] f.ID = "cloudnative-generic" -> <<"40-docker-runtime.sh", "61-cloudnative-immutable.sh">>
    [] f.ID = "cloudnative-k8s" ->
         <<"50-k8s-runtime.sh", "55-k8s-precache.sh", "61-cloudnative-immutable.sh">>
    [] f.ID = "cloudnative-storage" -> <<"65-storage-cncf.sh">>
    [] f.ID = "cloudnative-pg" -> <<"40-docker-runtime.sh", "70-cloudnative-pg.sh">>
    [] f.ID = "appliance-vision-nvr" -> <<"40-docker-runtime.sh", "75-appliance-vision.sh">>
    [] f.ID = "appliance-gateway-dns" -> <<"76-appliance-gateway.sh">>
    [] f.ID = "appliance-media-server" -> <<"40-docker-runtime.sh", "77-appliance-media.sh">>
    [] f.ID = "appliance-ci-runner" -> <<"40-docker-runtime.sh", "78-appliance-runner.sh">>
    [] f.ID = "appliance-game-server" -> <<"40-docker-runtime.sh", "79-appliance-game.sh">>
    [] OTHER -> <<>>
BuildScripts(f) ==
  <<"00-base-strip.sh", "05-hypervisor-agents.sh", "10-network-time.sh",
    "20-kernel-sysctl.sh", "25-baremetal-tuning.sh">>
  \o BuildGpu(f) \o BuildWorkload(f) \o <<"99-cleanup.sh">>

\* Packer and the generated script run the same scripts in the same order, so
\* that one walk below stands for both.
ASSUME BuildAssumption ==
  \A f \in Flavors : BuildScripts(Catalog[f]) = Catalog[f].Provisioners

\* The tuning GenerateBootCommand adds when an image is booted directly.
BootTuning(f) ==
  IF f.KernelProfile = "ai-infer"
  THEN {<<"transparent_hugepage", "madvise">>, <<"numa", "on">>} ELSE {}

\* The case of 20-kernel-sysctl.sh over KERNEL_PROFILE.
CmdlineProfile(p) == IF p \in {"ai-infer", "baremetal", "k8s"} THEN p ELSE "generic"
\* What it adds to the command line for each.
Tuning(p) ==
  CASE p = "ai-infer" -> {<<"preempt", "full">>, <<"transparent_hugepage", "always">>,
                          <<"processor.max_cstate", "1">>, <<"intel_idle.max_cstate", "1">>}
    [] p = "baremetal" -> {<<"iommu", "pt">>, <<"split_lock_detect", "off">>}
    [] p = "k8s" -> {<<"vm.swappiness", "0">>}
    [] OTHER -> {}
Microcode(gen) == CASE gen = "intel" -> {"intel"}
                    [] gen = "amd" -> {"amd"}
                    [] OTHER -> {"intel", "amd"}
\* Mutant of K3sUnit: the roles are swapped.
K3sUnitSwapped(role) == IF role = "server" THEN "k3s-agent.service" ELSE "k3s.service"
K3sUnit(role) == IF role = "server" THEN "k3s.service" ELSE "k3s-agent.service"
\* The images 55-k8s-precache.sh pulls besides the pause container.
Images(env, vendor) == {env.preheat, vendor} \ {"lean", "none"}
\* The selectors 60-ai-infer-runtime.sh writes for the GPUs it finds: by a CDI
\* file or by the directory of a runtime.
Signs == [intel |-> {"intel", "levelzero"}, amd |-> {"amd", "rocm"}]
Selectors(found) == {v \in DOMAIN Signs : found \cap Signs[v] # {}}
-----------------------------------------------------------------------------
Idle == [phase |-> "idle", way |-> "none", flavor |-> "none",
         env |-> [kernel |-> "generic", gen |-> "generic", role |-> "agent",
                  preheat |-> "lean"],
         skip |-> FALSE, absent |-> {}, at |-> 1, step |-> 1]

\* A host as the distribution's cloud image leaves it; a container has no
\* /etc/default/grub.
Init ==
  /\ \E grub \in BOOLEAN :
       boot = [grub |-> grub, recordfail |-> 0, profile |-> "distro", iommu |-> <<>>]
  /\ conf = [sshd |-> <<>>, dropins |-> {}, apt |-> {},
             tmp |-> "none", microcode |-> {}]
  /\ load = [units |-> {}, runtimes |-> {}, cdi |-> {}, images |-> {},
             selectors |-> {}, libva |-> 0]
  /\ \E other \in BOOLEAN :
       seal = [sudo |-> TRUE, other |-> other, cleaned |-> FALSE,
               identity |-> TRUE]
  /\ run = Idle
  /\ past = [runs |-> 0, applied |-> {}, lacked |-> {}]

Provisioners == Catalog[run.flavor].Provisioners
Rights == seal.sudo \/ seal.other

\* Packer destroys the machine of a build that failed.
Usable == /\ run.phase \in {"idle", "done", "failed"}
          /\ ~(run.way = "packer" /\ run.phase = "failed")

Begin(way, f, env, skip, absent) ==
  /\ run' = [phase |-> "running", way |-> way, flavor |-> f, env |-> env,
             skip |-> skip, absent |-> absent, at |-> 1, step |-> 1]
  /\ past' = [past EXCEPT !.runs = @ + 1,
                          !.applied = @ \cup {<<f, env>>},
                          !.lacked = @ \cup absent]
  /\ UNCHANGED host

\* Packer builds in a new machine with a grub, from the full checkout.
Build ==
  /\ past.runs = 0 /\ past.runs < MaxRuns /\ boot.grub
  /\ \E f \in Flavors : Begin("packer", f, BuildEnv(Catalog[f]), FALSE, {})

\* The generated script, with or without --skip-cleanup, in a workspace that
\* may lack one script, with or without K3S_ROLE=server in the caller's
\* environment.
Apply ==
  /\ Usable /\ past.runs < MaxRuns
  /\ \E f \in IF run.flavor \in Flavors THEN NextFlavors[run.flavor] ELSE Flavors,
        role \in {"agent", "server"}, skip \in BOOLEAN,
        absent \in {{}} \cup {{s} : s \in MayMiss} :
       /\ role = "server" => Catalog[f].TierID = "k3s"
       /\ Begin("apply", f, ApplyEnv(Catalog[f], role), skip, absent)

\* The first boot after a run: identity and host keys are made anew, and
\* cloud-init, if its state was cleaned, gives the build user its rule again.
Reboot ==
  /\ Usable /\ run.phase # "idle"
  /\ ~(seal.identity /\ ~seal.cleaned)
  /\ seal' = [seal EXCEPT !.identity = TRUE, !.cleaned = FALSE,
                          !.sudo = @ \/ seal.cleaned]
  /\ UNCHANGED <<boot, conf, load, run, past>>
-----------------------------------------------------------------------------
(* The walk through the list of scripts.                                   *)

Walking == run.phase = "running" /\ run.at <= Len(Provisioners)
Current == Provisioners[run.at]

\* Step k of one of the given scripts, with the right to change the host.
At(scripts, k) ==
  /\ Walking /\ Current \in scripts \ run.absent /\ run.step = k
  /\ ~(run.skip /\ Current = "99-cleanup.sh")
  /\ Rights
GoOn == run' = [run EXCEPT !.step = @ + 1] /\ past' = past
EndScript == run' = [run EXCEPT !.at = @ + 1, !.step = 1] /\ past' = past

\* Mutant of PassOver: the script after the missing one is skipped as well.
PassOverTwo ==
  /\ Walking
  /\ Current \in run.absent \/ (run.skip /\ Current = "99-cleanup.sh")
  /\ run' = [run EXCEPT !.at = @ + 2, !.step = 1] /\ past' = past
  /\ UNCHANGED host

\* A script that is not in the workspace draws a warning; the cleanup is not
\* in the generated script at all with --skip-cleanup.
PassOver ==
  /\ Walking
  /\ Current \in run.absent \/ (run.skip /\ Current = "99-cleanup.sh")
  /\ EndScript /\ UNCHANGED host

\* After the last script; Packer still has to shut the machine down.
Complete ==
  /\ run.phase = "running" /\ run.at > Len(Provisioners)
  /\ run.way = "packer" => Rights
  /\ run' = [run EXCEPT !.phase = "done"]
  /\ UNCHANGED <<boot, conf, load, seal, past>>

\* A command fails, and with it its script and the run.
Fail ==
  /\ Walking \/ (run.phase = "running" /\ run.way = "packer")
  /\ run' = [run EXCEPT !.phase = "failed"]
  /\ UNCHANGED <<boot, conf, load, seal, past>>
-----------------------------------------------------------------------------
(* The steps.                                                              *)

FastBoot ==
  /\ At({"00-base-strip.sh"}, 1) /\ GoOn
  /\ boot' = IF boot.grub THEN [boot EXCEPT !.recordfail = @ + 1] ELSE boot
  /\ UNCHANGED <<conf, load, seal>>

Essentials ==
  /\ At({"00-base-strip.sh"}, 2) /\ GoOn
  /\ load' = [load EXCEPT !.units = @ \cup {"qemu-guest-agent.service"}]
  /\ UNCHANGED <<boot, conf, seal>>

\* Mutant of HardenSsh: cat >> for cat >.
HardenSshAppends ==
  /\ At({"00-base-strip.sh"}, 3) /\ EndScript
  /\ conf' = [conf EXCEPT !.sshd = Append(@, "hardened")]
  /\ UNCHANGED <<boot, load, seal>>

HardenSsh ==
  /\ At({"00-base-strip.sh"}, 3) /\ EndScript
  /\ conf' = [conf EXCEPT !.sshd = <<"hardened">>]
  /\ UNCHANGED <<boot, load, seal>>

InstallUnits(script, units) ==
  /\ At({script}, 1) /\ EndScript
  /\ load' = [load EXCEPT !.units = @ \cup units]
  /\ UNCHANGED <<boot, conf, seal>>

NetworkTime == InstallUnits("10-network-time.sh", {"chrony.service"})

Sysctl ==
  /\ At({"20-kernel-sysctl.sh"}, 1) /\ GoOn
  /\ conf' = [conf EXCEPT !.dropins = @ \cup {"99-lusoris.conf"}]
  /\ UNCHANGED <<boot, load, seal>>

\* Mutant of KernelCmdline: what was appended to the line stays.
KernelCmdlineKeeps ==
  /\ At({"20-kernel-sysctl.sh"}, 2) /\ GoOn
  /\ boot' = IF boot.grub
             THEN [boot EXCEPT !.profile = CmdlineProfile(run.env.kernel)]
             ELSE boot
  /\ UNCHANGED <<conf, load, seal>>

\* sed replaces the whole command line.
KernelCmdline ==
  /\ At({"20-kernel-sysctl.sh"}, 2) /\ GoOn
  /\ boot' = IF boot.grub
             THEN [boot EXCEPT !.profile = CmdlineProfile(run.env.kernel), !.iommu = <<>>]
             ELSE boot
  /\ UNCHANGED <<conf, load, seal>>

UnattendedUpgrades ==
  /\ At({"20-kernel-sysctl.sh"}, 3) /\ EndScript
  /\ conf' = [conf EXCEPT !.apt = @ \cup {"20auto-upgrades"}]
  /\ UNCHANGED <<boot, load, seal>>

InstallMicrocode ==
  /\ At({"25-baremetal-tuning.sh"}, 1) /\ GoOn
  /\ conf' = [conf EXCEPT !.microcode = @ \cup Microcode(run.env.gen)]
  /\ UNCHANGED <<boot, load, seal>>

\* sed appends to the command line.
AddIommu ==
  /\ At({"25-baremetal-tuning.sh"}, 2) /\ EndScript
  /\ boot' = IF boot.grub THEN [boot EXCEPT !.iommu = Append(@, run.env.gen)] ELSE boot
  /\ UNCHANGED <<conf, load, seal>>

\* The packages of a GPU runtime, with the directory 60-ai-infer-runtime.sh
\* looks for: whether the packages of Level Zero bring theirs is up to the
\* distribution, those of ROCm are installed at best effort.
InstallRuntime(script, runtime) ==
  /\ At({script}, 1) /\ GoOn
  /\ \E got \in SUBSET {runtime} : load' = [load EXCEPT !.runtimes = @ \cup got]
  /\ UNCHANGED <<boot, conf, seal>>

\* The CDI file comes after the packages; those of Mesa leave no other sign.
DescribeDevice(script, k, vendor) ==
  /\ At({script}, k) /\ EndScript
  /\ load' = [load EXCEPT !.cdi = @ \cup {vendor}]
  /\ UNCHANGED <<boot, conf, seal>>

GpuIntel == \/ InstallRuntime("30-gpu-intel.sh", "levelzero")
            \/ DescribeDevice("30-gpu-intel.sh", 2, "intel")
GpuMesa == DescribeDevice("31-gpu-amd-mesa.sh", 1, "amd")
GpuRocm == \/ InstallRuntime("32-gpu-amd-rocm.sh", "rocm")
           \/ DescribeDevice("32-gpu-amd-rocm.sh", 2, "amd")

\* nvidia-ctk writes the specification at best effort.
GpuNvidia ==
  /\ At({"33-gpu-nvidia-legacy.sh", "34-gpu-nvidia-mainstream.sh",
         "35-gpu-nvidia-datacenter.sh", "36-gpu-nvidia-bleeding.sh",
         "37-gpu-nvidia-modern.sh"}, 1) /\ EndScript
  /\ \E got \in SUBSET {"nvidia"} : load' = [load EXCEPT !.cdi = @ \cup got]
  /\ UNCHANGED <<boot, conf, seal>>

K8sRuntime == InstallUnits("50-k8s-runtime.sh", {"containerd.service", "kubelet.service"})
K3sRuntime == InstallUnits("52-k3s-runtime.sh", {K3sUnit(run.env.role)})

\* A pull that fails draws a warning.
Precache ==
  /\ At({"55-k8s-precache.sh"}, 1) /\ EndScript
  /\ \E got \in SUBSET Images(run.env, Catalog[run.flavor].Vendor) :
       load' = [load EXCEPT !.images = @ \cup got]
  /\ UNCHANGED <<boot, conf, seal>>

InferenceMemory ==
  /\ At({"60-ai-infer-runtime.sh"}, 1) /\ GoOn
  /\ conf' = [conf EXCEPT !.dropins = @ \cup {"95-ai-memory.conf"}]
  /\ UNCHANGED <<boot, load, seal>>

\* The profile is written anew, with the selectors of the GPUs found.
InferenceProfile ==
  /\ At({"60-ai-infer-runtime.sh"}, 2) /\ EndScript
  /\ load' = [load EXCEPT !.selectors = Selectors(load.cdi \cup load.runtimes)]
  /\ UNCHANGED <<boot, conf, seal>>

\* fstab gets a line for /tmp only when it has none.
MountTmp(t) == conf' = [conf EXCEPT !.tmp = IF @ = "none" THEN t ELSE @]

ImmutableTmp ==
  /\ At({"61-cloudnative-immutable.sh"}, 1) /\ GoOn
  /\ MountTmp("noexec") /\ UNCHANGED <<boot, load, seal>>

PreventDrift ==
  /\ At({"61-cloudnative-immutable.sh"}, 2) /\ EndScript
  /\ conf' = [conf EXCEPT !.apt = @ \cup {"99-immutable-prevent-drift"}]
  /\ UNCHANGED <<boot, load, seal>>

RunnerTmp ==
  /\ At({"78-appliance-runner.sh"}, 1) /\ EndScript
  /\ MountTmp("4G") /\ UNCHANGED <<boot, load, seal>>

WriteDropin(script, file) ==
  /\ At({script}, 1) /\ EndScript
  /\ conf' = [conf EXCEPT !.dropins = @ \cup {file}]
  /\ UNCHANGED <<boot, load, seal>>

\* Mutant of PostgresSysctl: the parameters end up among the limits, which sysctl does not read.
PostgresSysctlElsewhere == WriteDropin("70-cloudnative-pg.sh", "90-postgresql.conf")
PostgresSysctl == WriteDropin("70-cloudnative-pg.sh", "70-cloudnative-pg.conf")
GatewaySysctl == WriteDropin("76-appliance-gateway.sh", "99-gateway.conf")
MediaSysctl == WriteDropin("77-appliance-media.sh", "99-media-streaming.conf")
GameSysctl == WriteDropin("79-appliance-game.sh", "99-game-server.conf")

\* LIBVA_DRIVER_NAME is appended to /etc/environment.
VisionMedia ==
  /\ At({"75-appliance-vision.sh"}, 1) /\ GoOn
  /\ load' = [load EXCEPT !.libva = @ + 1]
  /\ UNCHANGED <<boot, conf, seal>>

VisionCoral ==
  /\ At({"75-appliance-vision.sh"}, 2) /\ EndScript
  /\ load' = [load EXCEPT !.cdi = @ \cup {"coral"}]
  /\ UNCHANGED <<boot, conf, seal>>

\* Scripts that leave nothing the properties tell apart: what the first two
\* install they install at best effort, with no script after them the wiser.
OtherScript ==
  /\ At({"05-hypervisor-agents.sh", "40-docker-runtime.sh",
         "41-podman-runtime.sh", "65-storage-cncf.sh"}, 1) /\ EndScript
  /\ UNCHANGED host

\* Mutant of LockBuildUser: the rule of the build user stays.
LockBuildUserKeepsRule ==
  /\ At({"99-cleanup.sh"}, 1) /\ GoOn
  /\ \E cleaned \in BOOLEAN : seal' = [seal EXCEPT !.cleaned = @ \/ cleaned]
  /\ UNCHANGED <<boot, conf, load>>

\* The cleanup: cloud-init's state is cleaned at best effort and the rule of
\* the build user removed, both in one breath ...
LockBuildUser ==
  /\ At({"99-cleanup.sh"}, 1) /\ GoOn
  /\ \E cleaned \in BOOLEAN :
       seal' = [seal EXCEPT !.sudo = FALSE, !.cleaned = @ \/ cleaned]
  /\ UNCHANGED <<boot, conf, load>>

\* ... and the steps after it use sudo again.
RefusePasswords ==
  /\ At({"99-cleanup.sh"}, 2) /\ GoOn
  /\ conf' = [conf EXCEPT !.sshd = Append(@, "PasswordAuthentication no")]
  /\ UNCHANGED <<boot, load, seal>>

ForgetIdentity ==
  /\ At({"99-cleanup.sh"}, 3) /\ EndScript
  /\ seal' = [seal EXCEPT !.identity = FALSE]
  /\ UNCHANGED <<boot, conf, load>>

Step ==
  \/ FastBoot \/ Essentials \/ HardenSsh \/ NetworkTime
  \/ Sysctl \/ KernelCmdline \/ UnattendedUpgrades
  \/ InstallMicrocode \/ AddIommu \/ GpuIntel \/ GpuMesa \/ GpuRocm \/ GpuNvidia
  \/ K8sRuntime \/ K3sRuntime \/ Precache
  \/ InferenceMemory \/ InferenceProfile \/ ImmutableTmp \/ PreventDrift
  \/ RunnerTmp \/ PostgresSysctl \/ GatewaySysctl \/ MediaSysctl \/ GameSysctl
  \/ VisionMedia \/ VisionCoral \/ OtherScript
  \/ LockBuildUser \/ RefusePasswords \/ ForgetIdentity

Next == Build \/ Apply \/ Reboot \/ PassOver \/ Complete \/ Fail \/ Step

Spec == Init /\ [][Next]_vars
-----------------------------------------------------------------------------
(* Properties.                                                             *)

Envs == [kernel : Profiles, gen : {"generic", "intel", "amd"},
         role : {"agent", "server"}, preheat : Preheats]
Dropins == {"70-cloudnative-pg.conf", "95-ai-memory.conf", "99-game-server.conf",
            "99-gateway.conf", "99-lusoris.conf", "99-media-streaming.conf"}
Units == {"chrony.service", "containerd.service", "k3s.service", "k3s-agent.service",
          "kubelet.service", "qemu-guest-agent.service"}
BootType ==
  [grub : BOOLEAN, recordfail : Nat,
   profile : Profiles \cup {"distro"},
   iommu : Seq({"generic", "intel", "amd"})]
ConfType ==
  [sshd : Seq({"hardened", "PasswordAuthentication no"}), dropins : SUBSET Dropins,
   apt : SUBSET {"20auto-upgrades", "99-immutable-prevent-drift"},
   tmp : {"none", "noexec", "4G"},
   microcode : SUBSET {"intel", "amd"}]
LoadType ==
  [units : SUBSET Units, runtimes : SUBSET {"levelzero", "rocm"},
   cdi : SUBSET {"intel", "amd", "nvidia", "coral"},
   images : SUBSET (Preheats \cup Vendors), selectors : SUBSET {"intel", "amd"}, libva : Nat]
SealType ==
  [sudo : BOOLEAN, other : BOOLEAN, cleaned : BOOLEAN, identity : BOOLEAN]
Positions == Nat \ {0}
RunType ==
  [phase : {"idle", "running", "done", "failed"}, way : {"none", "packer", "apply"},
   flavor : Flavors \cup {"none"}, env : Envs, skip : BOOLEAN,
   absent : SUBSET Scripts, at : Positions, step : 1..3]
PastType ==
  [runs : 0..MaxRuns, applied : SUBSET (Flavors \X Envs), lacked : SUBSET Scripts]

\* Every part of the host, the run and the history has its type; a run is for
\* a flavor of the catalog and walks its list of scripts within bounds.
PipelineTypeOK ==
  /\ boot \in BootType
  /\ conf \in ConfType
  /\ load \in LoadType
  /\ seal \in SealType
  /\ run \in RunType
  /\ past \in PastType
  /\ run.phase # "idle" => run.flavor \in Flavors
  /\ run.phase = "running" => run.at <= Len(Provisioners) + 1

\* The scripts of the last run that were there to run.
ScriptsOf(f) == {f.Provisioners[i] : i \in DOMAIN f.Provisioners}
Ran == ScriptsOf(Catalog[run.flavor])
       \ (run.absent \cup IF run.skip THEN {"99-cleanup.sh"} ELSE {})
Settled == run.phase = "done"

\* Files and units a script leaves for certain, and at best effort.
Certain == {
  <<"00-base-strip.sh", "qemu-guest-agent.service">>,
  <<"10-network-time.sh", "chrony.service">>,
  <<"20-kernel-sysctl.sh", "99-lusoris.conf">>, <<"20-kernel-sysctl.sh", "20auto-upgrades">>,
  <<"30-gpu-intel.sh", "intel">>, <<"31-gpu-amd-mesa.sh", "amd">>,
  <<"32-gpu-amd-rocm.sh", "amd">>, <<"50-k8s-runtime.sh", "containerd.service">>,
  <<"50-k8s-runtime.sh", "kubelet.service">>, <<"60-ai-infer-runtime.sh", "95-ai-memory.conf">>,
  <<"61-cloudnative-immutable.sh", "99-immutable-prevent-drift">>,
  <<"70-cloudnative-pg.sh", "70-cloudnative-pg.conf">>, <<"75-appliance-vision.sh", "coral">>,
  <<"76-appliance-gateway.sh", "99-gateway.conf">>,
  <<"77-appliance-media.sh", "99-media-streaming.conf">>,
  <<"79-appliance-game.sh", "99-game-server.conf">>}
BestEffort == {
  <<"30-gpu-intel.sh", "levelzero">>, <<"32-gpu-amd-rocm.sh", "rocm">>,
  <<"33-gpu-nvidia-legacy.sh", "nvidia">>, <<"34-gpu-nvidia-mainstream.sh", "nvidia">>,
  <<"35-gpu-nvidia-datacenter.sh", "nvidia">>, <<"36-gpu-nvidia-bleeding.sh", "nvidia">>,
  <<"37-gpu-nvidia-modern.sh", "nvidia">>}
LeftBy(table, scripts, env) ==
  {p[2] : p \in {q \in table : q[1] \in scripts}}
  \cup IF "52-k3s-runtime.sh" \in scripts THEN {K3sUnit(env.role)} ELSE {}
Items == conf.dropins \cup conf.apt \cup load.units \cup load.cdi \cup load.runtimes
\* What the flavors put on the host so far can have left on it.
HistoryItems == UNION {LeftBy(Certain \cup BestEffort, ScriptsOf(Catalog[a[1]]), a[2]) :
                         a \in past.applied}
HistoryImages == UNION {Images(a[2], Catalog[a[1]].Vendor) : a \in past.applied}

\* Applying a flavor converges: whatever runs failed on the host before, and
\* wherever, a run that completes leaves what its scripts stand for, with the
\* files that it writes anew holding this run's lines and no others, and the
\* selectors those of the GPUs the host has in the end; what is left over, of a
\* run that failed too, comes from a flavor that was put on the host before.
\* Of the files a script only appends to, the sshd drop-in and the command line
\* are among those written anew; the other two are the matter of AppliedOnce.
Converges ==
  /\ Settled =>
       /\ LeftBy(Certain, Ran, run.env) \subseteq Items
       /\ "00-base-strip.sh" \in Ran => conf.sshd =
            <<"hardened">> \o (IF "99-cleanup.sh" \in Ran
                              THEN <<"PasswordAuthentication no">> ELSE <<>>)
       /\ boot.grub /\ {"20-kernel-sysctl.sh", "25-baremetal-tuning.sh"} \subseteq Ran =>
            /\ boot.profile = CmdlineProfile(run.env.kernel)
            /\ boot.iommu = <<run.env.gen>>
       /\ "60-ai-infer-runtime.sh" \in Ran =>
            load.selectors = Selectors(load.cdi \cup load.runtimes)
  /\ Settled \/ run.phase = "failed" =>
       /\ Items \subseteq HistoryItems
       /\ load.selectors \subseteq Selectors(HistoryItems)
       /\ load.images \subseteq HistoryImages

\* The comment at imageless.go:21 calls the generated script idempotent.  Then
\* what a run appends to /etc/default/grub and to /etc/environment would be
\* there once after any number of runs that complete; it is appended by each.
AppliedOnce == Settled => boot.recordfail <= 1 /\ load.libva <= 1

\* The IOMMU groups never pile up on the kernel command line, over failed and
\* repeated runs of any flavors: 25-baremetal-tuning.sh:49 appends, but every
\* list has 20-kernel-sysctl.sh:94 rewrite the line first.  A workspace
\* without that script is the exception.
OneIommuGroup == "20-kernel-sysctl.sh" \notin past.lacked => Len(boot.iommu) <= 1

\* 99-cleanup.sh:12 removes the rule its next sudo stands on.  Without rights
\* from elsewhere a host is therefore never sealed: the file that turns
\* password logins off stays as it was, the identity is kept, and no run that
\* reaches the cleanup completes.
SealNeedsRights ==
  /\ ~seal.other => /\ seal.identity
                    /\ \A i \in DOMAIN conf.sshd : conf.sshd[i] = "hardened"
  /\ Settled /\ "99-cleanup.sh" \in Ran => seal.other
=============================================================================
